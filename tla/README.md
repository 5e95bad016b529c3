# pwatch in TLA+

Specifications, model-checking configurations and proofs for pwatch, a hardware
watchpoint tool for Linux: `pwatch watch` prints the hits of one watchpoint,
`pwatch serve` offers watchpoints and their hits over HTTP to the dashboard in
`pwatch-ui`. Paths such as `perf.rs` stand for `src/perf.rs` of the repository.

## 1. The system

| Part | State | Operations | Talks to |
|---|---|---|---|
| Command line (`main.rs`) | the running watch, the timeout | `into_mode`, `run_watch`, `handle_event` (prints) | watch; its handler runs inside the watch's tasks |
| Watch (`watch.rs`) | cancel flag, one tokio task per thread of the target | `start_watch`, `RunningWatch::stop` | procfs, perf events, the handler it was given |
| perf event set-up (`perf.rs`) | descriptor and mapping, and through them a debug register of the thread | `PerfMap::new`, `Drop` | the kernel (perf_event_open, mmap) |
| perf ring (`perf.rs`) | mmap'ed ring with `data_head` and `data_tail`, read position, readiness of the descriptor | `events`, `read_sample` | the kernel (shared memory, epoll) |
| Runtime (tokio, started by `main.rs`) | worker threads, and what each polls | polls the watch tasks, the timer, the handlers and its driver | every task; one that does not return keeps its worker |
| Breakpoint handlers (`server.rs`) | registry of breakpoints, id counter | POST, GET and DELETE `/breakpoints` | watch; the handlers run concurrently |
| Hit pipeline (`server.rs`, `hit.rs`) | bounded sample queue, dropped counter, sequence number, buffer of recent hits, broadcast channel | `try_send`, the hit worker thread, GET `/hits`, GET `/hits/stream` | fed by the watch tasks, read by HTTP clients |
| Maps cache (`maps.rs`) | one dated snapshot of `/proc/<pid>/maps` per process | `list`, `resolve`, `resolve_many_addresses`, `resolve_expression` | the hit worker and the handlers, at the same time |
| Register filter (`filter.rs`) | or-groups of and-ed predicates | `tokenize`, `parse`, `matches` | used by the watch tasks |
| Register tables (`arch/`) | mask and names of the registers | `id_to_str`, `regs_count` | perf events, filter, hits |
| Process list (`server.rs`) | none | GET `/processes` | procfs, while processes come and go |
| Arguments (`watch.rs`, `maps.rs`) | none | `parse_watchpoint_type`, `parse_addr`, `parse_numeric_addr`, `parse_module_offset` | command line and handlers |
| Dashboard (`pwatch-ui/app.js`) | server address, rows of hits, event stream or fetch fallback, timer | `connect`, `loadHits`, `openStream`, `closeStream`, `appendHit` | the HTTP API |

A sample goes from the kernel's ring (PerfRing) through a watch task (Watch) to
the handler: printed (Cli), or offered to the queue (Server), numbered and
published by the hit worker (HitPipeline), with its addresses resolved through
the maps cache (MapsCache).

What is hard in it:

- the ring is written by the kernel while it is read, and readiness is edge
  triggered: an edge that is cleared at the wrong moment stops a watch for ever;
- `stop()` races with tasks that run on other workers, with the flag they look at,
  and with a task that never returns to the runtime;
- POST and DELETE handlers interleave, and a DELETE may be dropped half-way when
  its client hangs up;
- every buffer is bounded: ring, queue, hit buffer, broadcast channel;
- the cache reads a file with its lock released, between a check and a store that
  both use an instant captured earlier, and one answer may rest on two snapshots;
- setting a perf event up can fail at four places, each with something else acquired;
- the dashboard's handlers run to their next await: connects, loads, the stream and its
  timer overlap in any order.

`hazards` in `PROJECT.json` lists these at their lines, with the properties that
watch over each, or the reason why none does yet.

## 2. Modules

| Module | Models | Extends or instantiates |
|---|---|---|
| `HitLog` | what the pipeline promises: a FIFO log of hits numbered 1, 2, 3, ... | |
| `HitPipeline` | queue, worker, buffer, streams | `HitLog` (refinement mapping `Log`) |
| `Watch` | `start_watch`, the tasks, `stop()`, the target's threads | |
| `Cli` | `pwatch watch` | `Watch` with one watch |
| `PerfRing` | `PerfMap::events` down to the cells of the ring | |
| `RingTask` | that reader as the task of a watch | `PerfRing`, `Watch` (refinement mapping `Task`) |
| `Server` | the breakpoint handlers | `Watch` with a watch per id, `HitPipeline` |
| `MapsCache` | the cache and its callers | |
| `MapsCalls` | how often a call reads the file | extends `MapsCache` with a history variable |
| `Resolution` | what the cache's answers say, with mappings that change | `MapsCache` |
| `PerfOpen` | `PerfMap::new` and `Drop` | |
| `Runtime` | the watch tasks on the pool of workers | |
| `Tokenizer`, `RegFilter`, `Registers` | a filter: its tokens, its parser and the shape of `matches`, its predicates on a sample | |
| `Filter` | the two that read its text, and what they promise together | extends `Tokenizer`, `RegFilter` |
| `Arguments` | the parsers of types, addresses and values | |
| `ProcessList` | GET `/processes` | |
| `Dashboard` | the table of hits of `app.js` | |
| `HitPipelineProofs` | its types, accounting, buffer and streams, and that it implements the log, proved | `HitPipeline`, TLAPS |
| `ServerProofs` | that the server runs both modules, the safety of its handlers, and the process list, proved | `Server`, `ProcessList`, `WatchProofs`, `HitPipelineProofs` |
| `ResolutionProofs` | what resolved addresses and expressions say, and what the parsers of texts read, proved | `Resolution`, `MapsCacheProofs`, `Arguments` |
| `CliProofs` | the places of the main task, the reading of a filter and the registers it compares, proved | `Cli`, `WatchProofs`, `Filter`, `Registers` |
| `PerfProofs` | the ring, that its reader is a task of a watch, and the set-up of events, proved | `RingTask`, `PerfOpen` |
| `MapsCacheProofs` | the cache's promises and the reads of a call, proved | `MapsCalls`, TLAPS |
| `WatchProofs`, `DashboardProofs` | theorems about the module they are named after | that module and TLAPS |
| `MCPerfRing` | the instance of PerfRing and that of Runtime | `RingTask`, `Runtime` |
| `MCSequential` | the parts that share no state with the rest, one at a time | extends `PerfOpen`, `ProcessList`, `Filter`, `Registers`, `Arguments` |
| other `MC*` | instances for TLC | the module they are named after |

Definitions keep the names of the code where they can. An operator with the
comment "Mutant:" is not part of a specification: it is a faulty variant of the
definition that follows it, kept so that each property can be shown to fail when
the code is wrong.

### HitPipeline

`TrySend` is the closure `create_breakpoint_inner` gives to `start_watch`: it
never waits, and counts what the queue refuses. The worker's loop is four actions,
one for each access to shared state: `Recv` (blocking_recv), `MakeHit` (the atomic
`next_seq`), `PushHit` (under the buffer's lock), `Broadcast` (send). If its thread
cannot be started it is `"dead"` from the beginning and every sample is refused.
`Subscribe`, `SkipLagged` and `Deliver` are the receiver behind one event stream;
the broadcast channel is the last `BroadcastCap` messages and, per receiver, the
number it has passed. A sample is a value, a hit is that value and a number.

### Watch

`start_watch` is `StartScan`, `OpenThread` for each thread procfs yields, and
`FinishScan`, or `StartThread` for `-t`; events are enabled the moment they are opened.
A task moves between `queued`, `wait` (it calls `readable()`, which may return at once), `parked`,
`loop`, `took`, `handle` and `ended`, so `stop()` (`StopBegin`, `AbortTask`, `Join`) can come between
the test of the cancel flag and the handling of the sample. The ring is a count of records here;
a hit (`Fire`) makes one visible, or two if the kernel has a loss to report first. Readiness is
not followed: a parked task may be woken although it has read the record meanwhile
(`StaleWake`). Opening an event may fail at
any time. What the handler does is conjoined to `Handle` by the composing module.

When a watched thread has exited, its descriptor is at EPOLLHUP. Once the runtime's
driver has taken that event (`SeeExit`, the variable `hup`), `LeaveLoop`
is impossible with an empty ring and an incomplete batch: the task stays at the head
of its loop without ever returning to the runtime. Until then it may still park. This is the code's behaviour (see
finding `cli_timeout`), and why `StopReturns` and the properties like it speak of
targets whose threads live.

### Cli

The main task is a sequence of places around the `Watch` it instantiates; the timer may
fire at any moment; `println!` may panic, which ends one task.

### PerfRing

The data pages are `Size` cells of eight bytes. Records span two or three cells and wrap.
Each load and store of the loop that the kernel or the driver can get between is an
action. `Recheck` reads `data_head` a second time or reuses the value of the while
condition: both are what a compiler may make of a plain load. The kernel
(`HitUser`, `HitNoRegs`, `Publish`, `Wake`), tokio's driver and the sticky read-closed
readiness are external, modelled from the interfaces `perf.rs` uses.

### RingTask

PerfRing and Watch describe the same loop, one with cells and positions, the other with a count.
`Task` is the mapping from the first to the second, for a watch with `-t` on one thread that nobody
stops and that has no filter: a record is unread until the reader has its header (`Unread`) and
processed from then on (`Records`); `Place` says where the task is. `RunsAsTask` is then
`[][Task!Next]_(Task!vars)` with the state in which `StartThread` leaves a watch at its beginning.

### PerfOpen

`Open`, `Map` and `Register` are the three calls of `PerfMap::new` that can fail, `Panic` the
overflow check of a debug build, `Unmap` and `Close` the two halves of `Drop`. A call's
descriptor and mapping are kept apart because the kernel's event lives as long as either:
that is how a failure after mmap keeps a debug register. `MmapLen` computes in a word of
`WordBits` bits and takes the shift amount modulo the width, as a release build does. `Pow2` is a
recursive function.

### Runtime

PerfRing has one reader and all its steps; Runtime has several readers, the timer and a
request, and one step per turn of the loop. A worker that is inside a task polls nothing
else, and the driver, which tells tasks of events, is polled by a worker that is free.

### Server

Each of a few concurrent requests has a place and an id. A create runs on a
blocking thread and cannot be cut short; a delete can, at its await, which `HangUp` is.
Watches and pipeline are the modules above, in the same state: `HandleEvent` is
`Handle` and `TrySend` together. Streams run here too: `StreamHits` is any step of a client of
the pipeline, which subscribes, is sent a hit, is told that it lagged, or goes. GET `/breakpoints`
reads the registry and changes nothing, so it is no action.

### MapsCache

`regions_with` is three steps per caller: `Lookup` (first critical section), `ReadMaps`
(no lock), `Store` (second critical section). A snapshot is known by the time it was
read; whether it holds an address is a free choice, which `Found` and `NotFound` make.
`list` and `resolve_module_offset` force a refresh; `resolve` and
`resolve_many_addresses` try the cache first and force one when an address is missing.
MapsCalls adds `reads`, how often each caller's call has read the file so far, for `CallsReturn`.

### Resolution

MapsCache says when the snapshot was read that a caller is given; Resolution adds what it held:
`world` is the mappings of every process at every instant, which `Tick` may change. `Search`
is one pass of `resolve_many_addresses`; `Expression`, `ResolveModule` and `ResolveValue` are
`resolve_expression` with its two lookups, each a call of the cache with an instant of its own.

### Tokenizer, RegFilter, Registers

A filter on its way from characters to a verdict, in three models that each take every input
of their stage; `Filter` has the first two side by side. `Tokenizer` has an action for each branch of the loop over characters; a
character is its class. In `RegFilter` the recursive-descent parser is a machine that looks one
token ahead; a token is its class, and the reference is the grammar as a set
of sequences, with a reading of and/or precedence straight from the text. `Registers` lets the
kernel dump the registers of the mask, packed, and relates what `matches` compares and what a
hit prints to the registers of the thread, for both architectures. The i-th register of a dump
is the one whose bit has i - 1 bits of the mask before it (`Dumped`); `BitAnd` is the `&` of a
masked predicate, a recursive function on the halves of its arguments.

### Arguments

The state is a text that grows; the parsers are operators on it. Characters are real ones here,
a few of each class, because what `0x`, `+` and digits mean is the question. `Worth` is the value
of digits, read from the left; a value from `WordLimit` (2^64) on is refused, as u64 does.

### ProcessList

The walk over `/proc` reads the files of one process after the other, by pid, while processes
start, exit and take over pids. A process is its pid and a birth number, which stands for its
texts. `SortedByPid` is the stable sort of the code, by the place each entry takes.

### Dashboard

Handlers are cut at their awaits: `Connect`, `Reload`, `Answer`, `Loaded`, `Refreshed`, `Failed`
are the stages of `connect` and `loadHits`, `Timeout`, `Opened`, `Broken` and `HitEvent`
the events of a stream. A server is the number of hits it has published; its streams drop
hits when they are slow. `quiet` is a history variable: no load has overlapped another or the
stream since the last connect.

## 3. Runs

`tlc -config <cfg> <module>` in this directory. Most take less than half a minute; `server`,
`maps_cache`, `perf_ring` and the three of a million states (`sequential`, `resolution`, `dashboard`)
take one to two minutes.

| Run | Bounds | Why they are enough |
|---|---|---|
| `hit_pipeline` | 2 sample values, 2 clients, queue, buffer and channel of 2, 4 samples | every bound is exceeded: the queue refuses, the buffer drops, a stream is overrun; clients reconnect |
| `watch` | 1 watch, 2 threads, ring of 2, batch of 2 | a thread is born, dies or fails to open while the other goes on; a hit makes one record or two; a flood fills batches. Two watches share only the threads: `server` has two |
| `cli`, `cli_timeout` | 2 threads, ring and batch of 1 | one thread floods or exits while the other holds the join |
| `perf_ring`, `perf_ring_lost` | ring of 8 cells, batch of 2, 4 samples; for the pool 2 workers, 2 threads, 3 hits each | the third sample wraps or is lost, the fourth reports the loss, the batch ends early; none, one or all workers are lost to threads that exited |
| `maps_cache` | 2 callers, 1 process, TTL 2, clock to 3 | an entry goes stale while a reader is between its sections; processes are independent keys of the map |
| `resolution` | 2 symmetric callers, 1 process, TTL 2, clock to 2, 3 contents of its maps, 3 addresses | a module moves, is split, or is gone between any two steps; the pair of callers makes every refresh race |
| `server` | 2 requests, 2 ids, 1 thread, queue, buffer and channel of 1, 1 sample, 1 client; symmetric requests | create and delete, or two deletes of one id, overlap while a client subscribes, reads and goes; safety only, as symmetry requires |
| `server_live` | 2 requests, 1 id, 1 thread, 2 samples, 1 client | the liveness of DELETE, without symmetry, whatever the client does |
| `sequential` | 2 calls and 1 debug register, word of 6 bits, pages of 4 bytes, `buf_size` 0 to 7; texts of 5 characters, numbers below 64; 15 tokens; registers of 0 and 1; 3 pids, 4 births | sizes that fit, that overflow the product and the shift; numbers that fit and that do not; four predicates in any grouping, or three with masks; every register of both tables; a pid used again during the walk |
| `dashboard` | 2 servers of 3 hits, tables of 1 or 2 rows, 2 loads, 2 connections; symmetric | a connect overlaps another or a load; a second connection is there to be left open; rows are dropped |

What they show:

- **hit_pipeline.** `Accounting`: each sample is counted exactly once as dropped, queued,
  in hand or numbered (with the types, which say that the hit in hand is the one numbered last). `HitsShownAreTheLast`: GET `/hits` is always the gapless newest
  tail. `StreamFaithful`: a stream that was not overrun missed nothing, one that was shows
  a subsequence. `StreamNeverAhead`: the stream does not know hits that the buffer does not.
  `ImplementsLog`: all of it implements `HitLog`, fairness included, so every accepted
  sample becomes a hit and no client holds up the worker.
- **watch.** `EventsHaveReaders`: no debug register stays armed without a task, whatever
  fails. `QuietAfterStop`, `AtMostOneLate`, `StopReturns`: what a caller of `stop()` may
  rely on.
- **cli.** `WaitingMeansWatching`, `NothingOutlivesMain`, `TimeoutExitsWhileThreadsLive`.
- **perf_ring.** `Integrity`, `NeverLapped`: what is handled is what was written.
  `NoLostWakeup`, `EverySampleHandled`, `ParksWhenDrained`: readiness is neither lost nor
  kept for nothing. `RunsAsTask`: the loop is the task that Watch has. `SpareWorkerServesAll`: as long as fewer threads have exited than there are
  workers, the timer fires, a request is answered and every sample is read, those of
  exited threads too. (With as many, none of it holds: that is what the premise is for.)
- **maps_cache.** `EntriesHonest`, `ServedFresh`, `MissIsFresh`: what is cached and served is as
  fresh as its date says, and an address is reported missing only after a read of the call's own.
  `CallsReturn`: a call reads the file at most once if it lists, at most twice if it
  resolves, and comes back.
- **resolution.** `AnswersWereTrue`: what is shown for an address was true less than a TTL before
  the call or during it, and a bare address was unmapped at an instant of the call.
  `ExpressionIsCurrent`: `module+offset` is counted from where the module is during the request.
  `StillExpressionIsConsistent`: if nothing moves, the region shown is the module's own.
- **server.** `NoOrphanWatch`: registry, requests and watches agree about who may stop a
  watch. `HitsAreAttributed`: whatever is queued, listed or on its way to a stream is of
  a breakpoint that was installed. `IdsAreUnique`, `QuietAfterDelete`; **server_live**:
  `DeleteReleases`.
- **sequential.** Six parts that share no state, each alone. `RingAsAsked`: a `buf_size` that fits
  gives a ring of that size, and a debug build opens no other. `RegistersComeBack`: whatever fails
  gives the debug register back, but for the mapping a failure after mmap leaves.
  `FiltersAreRead`, `PredicatesReadRegisters`: a filter is read as written and compares
  the registers it names, which are those a hit prints. `ArgumentsAreRead`: where the three
  parsers of numbers agree and where they do not, and which displayed addresses can be given
  back; and a watchpoint type is read with the kind and the length it spells, as the help has it
  but for a length left out. `ListsTheLiving`: processes that stay are listed with their own texts.
- **dashboard.** `OneLiveStream`: never two streams, nor one of a server the page has left.
  `TableInOrder`, `OnlyOneGap`: a table no load has disturbed is in order; and if its stream
  was also never slow and never connected again, hits are missing in it only between the list
  and the subscription. (A stream that lagged or came back leaves gaps that the page does not show.)

`CHECK_DEADLOCK FALSE` is set everywhere: the inputs are bounded, so each model ends in
states where nothing more happens, as a quiet target does.

### Fairness

Assumed is only what the code's scheduling gives: a started OS thread (the hit worker, a
blocking create) and the tokio runtime go on with whatever can run; the kernel publishes
what it wrote; epoll reports an edge; the timer fires. No fairness for the target,
for clients, or for a request to come. It is weak fairness, of the worker, of each
task, of each request as a whole, with one exception: parking with a drained ring
(`ParkDrained`) is strongly fair, because between draining its ring and parking a task may be
beaten by a sample, and is, but a hardware watchpoint does not win that race for ever; `stop()`
waits for such a task only until it parks or fills a batch. For watch tasks it is sound as long as the
runtime has a worker to poll them on, which spinning tasks of exited threads can deny:
the liveness properties therefore exclude exited threads. Runtime is where that assumption
is looked at: there a worker is a resource, a task is taken and the driver polled only when one
is free, and weak fairness of taking, polling and the driver says no more than that free workers
work; the number of hits is bounded, so no living thread keeps a worker for ever.

## 4. Proofs

`tlapm M.tla` for each module `M` whose name ends in `Proofs`. The constants are arbitrary, under
the assumption each module declares: capacities at least 1 and `HitLimit` any natural number
(`PipelineAssumption`, `WatchAssumption`, `CliAssumption`, `ServerAssumption`, which joins them),
a positive TTL (`CacheAssumption`, `ResolutionAssumption`), mappings that do not overlap and lie
in the order of their addresses, as the kernel lists them (`IsLayout`), a ring of at least eight
cells (`RingAssumption`; the code's smallest has 512), words longer than the offset in a page
(`OpenAssumption`), limits of at least 1 in the dashboard (`DashboardAssumption`), as many
births as pids (`ListAssumption`), any bounds on a filter (`TokenAssumption`,
`ParseAssumption`) and on a text, and a `WordLimit` beyond the largest digit
(`ArgumentAssumption`).

### The hit pipeline

- `NoSampleUncounted`: `Spec => []Accounting`, and `TypeCorrect`: `Spec => []TypeOK`. `Accounting`
  is `TypeOK`, which the others need, and `Counted`; the two are inductive together.
- `GetHitsCorrect`: `Spec => []HitsShownAreTheLast`. The inductive part is `BufferIsTail`
  (`buffer[i].seq = Pushed - Len(buffer) + i`); that GET `/hits` returns the end of
  it for every limit is the lemma `LastNProperties`, and that one push keeps it, for
  every `HitLimit`, is `RetainProperties`.
- `StreamsAreFaithful`: `Spec => []StreamFaithful`, and `StreamsStayBehind`:
  `Spec => []StreamNeverAhead`. What a client has seen says nothing about what it sees next;
  the strengthening `Follows` relates the cursor of an open stream to the channel: the
  messages kept behind it are the latest hits without a gap, everything it has shown is
  older, and as long as it was not overrun, what it subscribed at, has shown and still has
  to read add up to all hits broadcast. `Shown` keeps the part that outlives the connection.
- `PipelineIsALog`: `Spec => Log!Init /\ [][Log!Next]_(Log!vars)`, the safety part of
  `ImplementsLog`. `TrySend` maps to `Accept` (or a stutter, if the sample is dropped),
  `PushHit` to `Publish`, everything else to a stutter. `Recv` stutters because the sample
  in hand goes before the queue; `PushHit` needs `BufferIsTail` (the code makes room before
  it pushes, the log cuts after: lemma `RetainIsLastN`).

### Watches, and the two programs that run them

- `EventsAlwaysHaveReaders`: `Spec => []EventsHaveReaders` for Watch, for any number of
  watches and threads. The strengthening `TasksFitPhase` says which tasks a phase allows:
  none before the scan is over, no live one after `stop()`. Steps of a task fall into two
  kinds, which are the lemmas `TaskMoves` and `TaskEnds`.
- `StoppedIsQuiet`: `Spec => QuietAfterStop`, the action property, from the same invariant:
  every action of a watch needs a live task or a phase other than stopped.
- `OneLateAtMost`: `Spec => []AtMostOneLate`. The strengthening `LateIsOver` says that a task which
  has handed over a late sample has the flag behind it and no second sample past the check.
- `ServerRunsWatches` and `ServerRunsPipeline`: Server composes the two modules in one state, with
  `Handle` and `TrySend` in one step; seen in the variables of one of them, each of its steps is a
  step of that module or a stutter. By these, `ServerKeepsWatchPromises` and
  `ServerKeepsPipelinePromises` carry the invariants of both over from where they were proved, those
  of the streams included, which run in the server as `StreamHits`.
- `NoWatchIsOrphaned`, `IdsAreGivenOnce`: `Spec => []NoOrphanWatch` and `[]IdsAreUnique`, for any
  number of requests and breakpoints. The invariant `HandlerInv` says what a request knows of the
  breakpoint it works on (`RequestFits`), what the phase of a watch says of who holds it
  (`BreakpointFits`: one that runs is listed or in the hands of a request), and that no two requests
  work on the same one. A DELETE may be dropped only once the flag of its watch is set, which is
  why nothing is orphaned then.
- `HitsNameTheirBreakpoint`: `Spec => []HitsAreAttributed`. `Attributed`: whatever is queued,
  in hand, in the buffer or in the channel is of a watch that was installed, and one that was stays so.
- `DeletedIsQuiet`: `Spec => QuietAfterDelete`, from both invariants: what is deleted is stopped.
- `WaitingIsWatching` and `MainLeavesNothing`: `Spec => []WaitingMeansWatching` and
  `[]NothingOutlivesMain` for Cli, for the three ways main ends there (bad arguments, a failed start,
  the timeout), signals not among them. The proof takes the invariants of Watch with one watch (a failed print is the one step Watch does not have, `PanicIsDrop`) and adds
  `MainFits`, the phases that go with each place of the main task, and `TasksGoOn`: before `stop()`
  nothing but a failed print ends a task.

### perf

- `NeverSleepsOnSamples`: `Spec => []NoLostWakeup` for PerfRing, with both readings of `data_head`
  that a compiler may make behind the loop. The invariant `Announced`: a head that has moved since
  the while condition looked has been announced, or will be, and `clear_ready` loses against it.
- `SamplesAreFaithful`: `Spec => []Integrity`, and `WriterNeverLaps`: `Spec => []NeverLapped`, for any
  ring of at least eight cells and any number of hits. The inductive part is `Layout`: what lies between the
  reader's position and the kernel's is a chain of whole records, each at the position the
  one before it ends, whose samples are those written and not yet handled, in order. That a
  record just written disturbs none of the chain (`WrittenKeeps`) is where the arithmetic is:
  positions less than a ring apart fall on different cells (`CellDistance`, from `ModUnique`).
- `ReaderIsATask`: `Spec => RunsAsTask`, step by step, by the mapping of RingTask. Every step of the
  kernel and of tokio's driver is one of `Env` or a stutter (`KernelIsEnv`), every step of the reader one of
  a task or a stutter (`ReaderIsTask`). What takes work is that the count of Watch is right: a
  publication makes one or two records visible and no more (`PublishedCount`), and to read the
  header of one takes exactly one from the count (`HeadersFirst`). `Whole` is the invariant behind
  it: what leads the reader from one record to the next leads it past no other, so the positions
  where a record begins, and the words inside one that are not, stay apart; `TaskInv` adds what the
  kernel has written and not yet published, and that a batch is never exceeded. Only the steps
  are carried over, not the task's fairness.
- `OpenTypeCorrect` and `RegistersAlwaysComeBack`: `OpenSpec => []RegistersComeBack` for PerfOpen, for any
  number of calls and registers. The strengthening `Holders` says at each place of a call whether
  it has a descriptor and whether a mapping.
- `RingsAreAsAsked`: `OpenSpec => []RingAsAsked`, for any width of word and page. The strengthening
  `Mapped` says it from the mmap on; the rest are powers of two:
  they add up in the exponent, grow with it, and divide each other, so that a shift and a product
  that do not wrap are what was asked.

### Caches, lists and the dashboard

- `EntriesAlwaysHonest`: `Spec => []EntriesHonest` for MapsCache. The strengthening is `InHand`: what a
  caller carries between its critical sections is dated with its own instant and was
  read later. Without it an entry could become dishonest at `Store`.
- `FreshnessForAll`: `Spec => []ServedFresh`, from the same invariant: `Lookup` and a
  yielding `Store` serve an entry that is not stale at the caller's instant and honest;
  any other `Store` serves what the caller has just read. `MissesAreFresh`: `Spec => []MissIsFresh`.
- `CallsReadTwiceAtMost`: `CountedSpec => []ReadsBounded`, the safety half of `CallsReturn`. The invariant
  `CallPaysOnce`: a lookup that is not forced is the first of its call, so nothing has been read
  before it, and one that is forced is the last.
- `AnswersWereAlwaysTrue`, `ExpressionsAreCurrent`, `StillExpressionsAreConsistent`:
  `Spec => []AnswersWereTrue` and the two promises about expressions for Resolution, whatever the
  mappings and however they change. Every step is one of the cache or leaves it alone
  (`ResolutionRunsCache`), so that its invariants hold here too (`ResolutionKeepsCachePromises`); `AnswerFits`
  dates what each pass of `resolve_many_addresses` has found so far, `StageFits` says of
  each stage of an expression which call it is in and that its value was right at an instant since
  it began. That a still layout gives the module asked for is arithmetic on `IsLayout`.
- `ListsAlwaysTheLiving`: `ListSpec => []ListsTheLiving` for ProcessList, for any number of pids. `Staying`
  follows each process that stays through the walk: still to come, being read, or found; `OnceEach`
  keeps its pid from being given twice. `Place` is shown to be a permutation, so that the sorted list
  holds what was found (`EveryPlaceTaken`, a pigeonhole on a finite set).
- `AlwaysOneLiveStream`: `Spec => []OneLiveStream` for Dashboard, for any number of servers, loads
  and connections: a live connection is the one that `closeStream` would close (`Refs`, `Fed`), so
  `openStream`, which calls it first, leaves no other.
- `TableStaysInOrder` and `TableHasOneGap`: `Spec => []TableInOrder` and `[]OnlyOneGap`. A row may reach
  the table from a load or from the stream, and the property is about the table alone; the
  strengthening `TableFits` is about the table together with the rows on their way to it
  (`ComingOf`), which a publication lengthens (`PublishedComing`) and a step of the stream only
  moves along (`HandedComing`). `QuietFits` says that while no load overlaps another, those rows follow the table.
  `OnlyOneGap` has `whole` as a second premise: the connection was never slow nor made again, so that
  what it hands over is without a gap.

### Register filters and texts

- `FiltersAreAlwaysRead`: `TokenSpec /\ ParseSpec => []FiltersAreRead` for Filter, in `CliProofs`, whatever
  the bounds on the length of a text and of its tokens.
- The tokenizer: a token that is pushed is a lexeme as long as it can be and lies behind all
  before it (`Pushed`); `Clean`, that no token holds a character that can be in none, makes the
  end of the loop an end without such a character.
- The grammar: `OneReading` says that if one filter begins another, either they are the same
  length or the longer goes on with "and" or "or" and a predicate. So a token too many or one
  of the wrong class can be the beginning of no filter, however long (`Expected`, `Rejectable`), which
  is what a parser that never goes back depends on. It is shown by a smallest pair of filters
  that would contradict it, after `TextsDef`, that the recursive set is what its definition says.
- The parser: `Begun` says what has been read, a start (nothing, or a filter and what joins it to
  the next) and the tokens that go with the place the parser is in (`Since`), and that all the
  predicates of it are in the groups their "or"s give them (`Grouped`), which each completed
  predicate (`GroupedPredicate`), "and" and "or" keep. `LookedAt` is what a place reached without
  reading knows of the token ahead: without it a rejected "&" after a register would be wrong.

- `RegistersAreRead`: `RegSpec => []PredicatesReadRegisters` for Registers, for registers of any
  width. `DumpedIs` counts the bits of both masks, which are an interval and two (`Interval`,
  `TwoIntervals`), and finds that the kernel's i-th register is the one of the program's table with
  index i - 1, so that the gap in the mask of x86-64 shifts nothing. `RegInv` then follows the dump through
  the filter to the hit; that a name is found at its least index is `ParseRegFinds`.
- `ArgumentsAreAlwaysRead`: `ArgSpec => []ArgumentsAreRead` for Arguments, whatever the length of
  the text and the width of a word. The two parsers of addresses read the same digits once their
  prefixes, blanks and plus signs are off (`SameText`); the same digits are worth more in hexadecimal
  than in decimal exactly when they are worth ten or more (`HexAndDecimal`, `FilterNumbers`); a displayed address is no number because of its x, and is
  split at its first plus sign (`DisplayedIsNoNumber`, `ReadsBack`); the prefixes of a watchpoint type
  are told apart by their second character (`TypeRead`), and what is accepted is the kind and the length
  the text spells, a missing length being one byte (`TypeIs`).

### Out of the prover's reach

Every invariant that a passing run checks is a theorem, and so is every property about steps.
Only model-checked is what eventually happens: the properties of Runtime, and all liveness, also
that of `ImplementsLog`, with its ENABLED under fairness.

The theorems of induction that take a predicate as an argument cannot be used. Where a proof needs
induction it is on one particular set of numbers, through its least member: powers of
two (`PowersExist`), the worth of the first digits of a text (`WorthExists`), filters by their number of predicates (`LevelsExist`, `TextFacts`) or their
length (`OneReading`) and, in a layout, the first region that fits (`FirstProperties`).

`TypeOK` is proved for HitPipeline, Watch, MapsCache, PerfOpen, ProcessList, Tokenizer and RegFilter,
in Server and Cli that of their instances, and in Registers and Arguments as a part of their
properties.

## 5. Where code and documentation disagree

- `cli_timeout`: `--timeout` is to end the program (`main.rs:32`); it does not once
  a watched thread has exited, because that thread's task spins in `events`
  (`perf.rs:111-145`) and `stop()` waits for it.
- `perf_ring_lost`: "Lost {} events" logs the event id and not the count (`perf.rs:130-131`).

Three more have no run of their own, and the properties are stated so that they hold beside them:

- README.md:17 promises a watchpoint on all threads; a thread whose event fails to open is
  skipped with a log message (`watch.rs:112-116`), which `OpenThread` may do.
- "2 means 2^2 pages" (`main.rs:23`): in a release build `1 << buf_size` and the product wrap
  (`perf.rs:73`), so that a large `buf_size` opens a ring of another size, or one without data
  pages that records nothing. `RingAsAsked` is about a release build only for sizes that fit.
- "if it is one of r, w, rw, the watchpoint length is needed" (`main.rs:41`): without a length
  one byte is watched (`watch.rs:57`). README.md:25 has the same rule, and `TypesAreTheGrammar` names this as
  its one exception.

## 6. Assumptions about the outside

- A perf descriptor of an exited thread polls EPOLLHUP (perf_event_open(2)), tokio keeps
  read-closed readiness through `clear_ready`, and `readable()` on a ready descriptor does
  not yield.
- `abort()` takes effect when the task returns to the runtime; awaiting an aborted handle
  waits until the task is dropped.
- A perf event is armed by perf_event_open, lives while its descriptor is open or its ring is
  mapped, and its mapping has one page and a power of two of data pages, or none (perf_event_open(2)).
- The kernel dumps the registers of the mask in the order of their bits, packed.
- tokio polls its driver on a worker that has no task to poll.
- readdir of `/proc` gives each pid at most once, and every process that is there throughout.
- An EventSource connects again by itself until it is closed, and the page's handlers are not
  interrupted between awaits.
- The kernel's ring has one producer, leaves room, counts what does not fit and reports it
  before the next sample that does; `wakeup_events` is 1.
- `broadcast` keeps the last messages, tells an overrun receiver once, and refuses a message
  without receivers; `try_send` fails when the queue is full or its receiver is gone.
- Dropping the future of an HTTP handler ends it at its await.
- Locks are not poisoned: no code panics while it holds one.
- Loads and stores happen in program order, as on x86-64. The AArch64 build has weaker
  ordering and no barriers in `events`; this is listed as a hazard.

## 7. Not modelled

- CORS, routing, JSON and error bodies: no state. The example target: a program used by hand.
- The lines of `/proc/<pid>/maps` and the match of a module's name against a path are text; a
  region of Resolution has a module. Hexadecimal output, time stamps and log messages are wording.
- The dashboard's lists of breakpoints, processes and maps, and its rendering; `Dashboard` is the
  table of hits. That a load replaces rows the stream has shown meanwhile (`app.js:146`) happens
  in the model, and no text promises otherwise.
- Memory ordering: `data_head` is a plain load without a barrier (`perf.rs:113`), which on AArch64
  is a hazard that steps in program order do not show.
- Threads the target starts after they were listed (`watch.rs:95`): nothing is promised for them.
  Hits between perf_event_open and mmap (`perf.rs:62`) are neither recorded nor counted; PerfOpen
  has no hits.
- Poisoned locks, memory that runs out, and signals: Ctrl-C ends the process, and the kernel
  cleans up what it held.

## 8. Plan

Done: the modules of section 2, and the theorems of section 4.

Left is what neither tool can say here: liveness for every value of the constants, and the
ordering of loads and stores on AArch64, which would need a model of its memory.

------------------------------ MODULE PerfRing ------------------------------
(***************************************************************************)
(* PerfMap::events (perf.rs): the loop that drains the mmap'ed ring of one *)
(* perf event, between the kernel that fills it and the readiness tokio    *)
(* keeps for its file descriptor.                                          *)
(*                                                                         *)
(* The ring is Size cells of eight bytes.  A sample with user registers is *)
(* three cells (header; pid, tid and register ABI; registers), one without *)
(* is two, a PERF_RECORD_LOST three (header, event id, number of lost      *)
(* samples).  A sample is the number n of the hit it reports.              *)
(*                                                                         *)
(* External, modelled from the interfaces the code uses: the kernel's ring *)
(* (one producer; room is left for one cell; samples that find no room are *)
(* counted and reported before the next sample that does), its poll bit    *)
(* (consumed by epoll, set for every record: wakeup_events is 1), EPOLLHUP *)
(* once the thread is gone, and tokio's AsyncFd (clear_ready loses against *)
(* an event newer than the guard; read-closed readiness is never cleared). *)
(* Loads are taken to happen in program order, as on x86-64.               *)
(***************************************************************************)
EXTENDS Integers, Sequences

CONSTANTS
  Size,        \* data_size in cells
  Batch,       \* MAX_EVENTS_PER_READINESS
  MaxSamples,  \* bound on the hits of the watchpoint
  EventId      \* the id the kernel gave the event

ASSUME RingAssumption ==
  /\ Size \in Nat /\ Size >= 8
  /\ Batch \in Nat \ {0}
  /\ MaxSamples \in Nat
  /\ EventId \in Nat

VARIABLES
  cells,      \* the data pages
  head,       \* data_head
  tail,       \* data_tail
  kpc,        \* the kernel's producer: "idle", "written", "published"
  khead,      \* the producer's private head
  lost,       \* samples that found no room and are not reported yet
  raised,     \* hits so far
  emitted,    \* history: samples with registers written to the ring
  poll,       \* the event's poll bit
  exited,     \* the watched thread is gone
  ready,      \* tokio's readiness of the fd
  closed,     \* ... its read-closed part, sticky
  fresh,      \* an event came in since the guard was taken
  pc,         \* where PerfMap::events is
  rd,         \* read_data_size
  processed,  \* records since readable() returned
  seenHead,   \* the data_head the while condition last loaded
  rec,        \* the record being read
  delivered,  \* history: samples passed to handle
  logged      \* history: <<number logged by "Lost {} events", number lost>>

kernelVars == <<cells, head, kpc, khead, lost, raised, emitted, exited>>
ioVars == <<poll, ready, closed, fresh>>
readerVars == <<tail, pc, rd, processed, seenHead, rec, delivered, logged>>
vars == <<kernelVars, ioVars, readerVars>>

Cell(type, val) == [type |-> type, val |-> val]
Blank == Cell("blank", 0)

\* The cells of a record; the header holds the record's size.
UserSample(n) == <<Cell("sample", 3), Cell("word", n), Cell("word", n)>>
BareSample == <<Cell("sample", 2), Cell("word", 0)>>
LostRecord(k) == <<Cell("lost", 3), Cell("word", EventId), Cell("word", k)>>

Init ==
  /\ cells = [i \in 0..Size - 1 |-> Blank]
  /\ head = 0 /\ tail = 0 /\ khead = 0 /\ kpc = "idle"
  /\ lost = 0 /\ raised = 0 /\ emitted = <<>> /\ exited = FALSE
  /\ poll = FALSE /\ ready = FALSE /\ closed = FALSE /\ fresh = FALSE
  /\ pc = "wait" /\ rd = 0 /\ processed = 0 /\ seenHead = 0
  /\ rec = Blank /\ delivered = <<>> /\ logged = <<>>

-----------------------------------------------------------------------------
(* The kernel (external)                                                   *)

\* Writes the cells of s at byte position at, wrapping.
Store(at, s) ==
  [i \in 0..Size - 1 |->
     LET k == (i - at) % Size IN IF k < Len(s) THEN s[k + 1] ELSE cells[i]]

HasRoom(s) == khead - tail + Len(s) <= Size - 1

Sampled(s, users) ==
  LET out == IF lost > 0 THEN LostRecord(lost) \o s ELSE s
  IN  IF HasRoom(out)
      THEN /\ cells' = Store(khead, out)
           /\ khead' = khead + Len(out)
           /\ emitted' = emitted \o users
           /\ lost' = 0
           /\ kpc' = "written"
      ELSE lost' = lost + 1 /\ UNCHANGED <<cells, khead, emitted, kpc>>

\* The watched address is touched; the sample holds the user registers, or none when the
\* kernel has none to give (register ABI 0).
HitUser ==
  /\ kpc = "idle" /\ ~exited /\ raised < MaxSamples
  /\ raised' = raised + 1
  /\ Sampled(UserSample(raised + 1), <<raised + 1>>)
  /\ UNCHANGED <<head, exited, ioVars, readerVars>>

HitNoRegs ==
  /\ kpc = "idle" /\ ~exited /\ raised < MaxSamples
  /\ raised' = raised + 1
  /\ Sampled(BareSample, <<>>)
  /\ UNCHANGED <<head, exited, ioVars, readerVars>>

Publish ==
  /\ kpc = "written"
  /\ head' = khead
  /\ kpc' = "published"
  /\ UNCHANGED <<cells, khead, lost, raised, emitted, exited, ioVars, readerVars>>

Wake ==
  /\ kpc = "published"
  /\ poll' = TRUE
  /\ kpc' = "idle"
  /\ UNCHANGED <<cells, head, khead, lost, raised, emitted, exited,
                 ready, closed, fresh, readerVars>>

ThreadExit ==
  /\ kpc = "idle" /\ ~exited
  /\ exited' = TRUE
  /\ UNCHANGED <<cells, head, kpc, khead, lost, raised, emitted, ioVars, readerVars>>

-----------------------------------------------------------------------------
(* tokio's I/O driver (external): epoll hands out each edge once           *)

Driver ==
  /\ poll \/ (exited /\ ~closed)
  /\ ready' = (ready \/ poll)
  /\ closed' = exited
  /\ fresh' = TRUE
  /\ poll' = FALSE
  /\ UNCHANGED <<kernelVars, readerVars>>

-----------------------------------------------------------------------------
(* PerfMap::events                                                         *)

Goto(where) == pc' = where

\* readable().await: at once when the fd is ready, else the task is parked until it is.
Park ==
  /\ pc = "wait" /\ ~ready /\ ~closed
  /\ Goto("parked")
  /\ UNCHANGED <<kernelVars, ioVars, tail, rd, processed, seenHead, rec, delivered, logged>>

Readable ==
  /\ pc \in {"wait", "parked"} /\ (ready \/ closed)
  /\ fresh' = FALSE
  /\ processed' = 0
  /\ Goto("loop")
  /\ UNCHANGED <<kernelVars, poll, ready, closed,
                 tail, rd, seenHead, rec, delivered, logged>>

\* The while condition.
Check ==
  /\ pc = "loop"
  /\ seenHead' = head
  /\ Goto(IF head # rd /\ processed < Batch THEN "header" ELSE "recheck")
  /\ UNCHANGED <<kernelVars, ioVars, tail, rd, processed, rec, delivered, logged>>

\* RingReader: the cell `offset` cells into the record at rd.
CellAt(offset) == cells[(rd + offset) % Size]

\* Mutant: the record is given back before its body is read.
ReadHeaderAndFree ==
  /\ pc = "header"
  /\ rec' = CellAt(0)
  /\ tail' = rd + CellAt(0).val
  /\ Goto(IF CellAt(0).type = "sample" THEN "sample"
          ELSE IF CellAt(0).type = "lost" THEN "lost" ELSE "advance")
  /\ UNCHANGED <<kernelVars, ioVars, rd, processed, seenHead, delivered, logged>>

ReadHeader ==
  /\ pc = "header"
  /\ rec' = CellAt(0)
  /\ Goto(IF CellAt(0).type = "sample" THEN "sample"
          ELSE IF CellAt(0).type = "lost" THEN "lost" ELSE "advance")
  /\ UNCHANGED <<kernelVars, ioVars, tail, rd, processed, seenHead, delivered, logged>>

\* read_sample, and handle() when there were user registers.
ReadSample ==
  /\ pc = "sample"
  /\ delivered' = IF CellAt(1).val = 0 THEN delivered
                  ELSE Append(delivered, <<CellAt(1).val, CellAt(2).val>>)
  /\ Goto("advance")
  /\ UNCHANGED <<kernelVars, ioVars, tail, rd, processed, seenHead, rec, logged>>

\* One u64 is read behind the header and logged as the number of lost events.
ReadLost ==
  /\ pc = "lost"
  /\ logged' = Append(logged, <<CellAt(1).val, CellAt(2).val>>)
  /\ Goto("advance")
  /\ UNCHANGED <<kernelVars, ioVars, tail, rd, processed, seenHead, rec, delivered>>

\* Mutant: every record is taken to have the size of a sample.
AdvanceFixed ==
  /\ pc = "advance"
  /\ rd' = rd + 3
  /\ tail' = rd'
  /\ processed' = processed + 1
  /\ Goto("loop")
  /\ UNCHANGED <<kernelVars, ioVars, seenHead, rec, delivered, logged>>

Advance ==
  /\ pc = "advance"
  /\ rd' = rd + rec.val
  /\ tail' = rd'
  /\ processed' = processed + 1
  /\ Goto("loop")
  /\ UNCHANGED <<kernelVars, ioVars, seenHead, rec, delivered, logged>>

\* Mutant: clear_ready without asking whether the ring is drained.
RecheckDropped ==
  /\ pc = "recheck"
  /\ Goto("clear")
  /\ UNCHANGED <<kernelVars, ioVars, tail, rd, processed, seenHead, rec, delivered, logged>>

\* The if behind the loop loads data_head again, or the compiler keeps the value the
\* while condition loaded: nothing tells it that the kernel writes there.
Recheck ==
  /\ pc = "recheck"
  /\ \E h \in {head, seenHead} : Goto(IF h = rd THEN "clear" ELSE "leave")
  /\ UNCHANGED <<kernelVars, ioVars, tail, rd, processed, seenHead, rec, delivered, logged>>

\* Mutant: the guard is dropped without clear_ready.
ClearForgotten ==
  /\ pc = "clear"
  /\ Goto("leave")
  /\ UNCHANGED <<kernelVars, ioVars, tail, rd, processed, seenHead, rec, delivered, logged>>

Clear ==
  /\ pc = "clear"
  /\ ready' = (ready /\ fresh)
  /\ Goto("leave")
  /\ UNCHANGED <<kernelVars, poll, closed, fresh,
                 tail, rd, processed, seenHead, rec, delivered, logged>>

\* Mutant: a full batch waits again without a yield.
LeaveAtOnce ==
  /\ pc = "leave"
  /\ Goto("wait")
  /\ UNCHANGED <<kernelVars, ioVars, tail, rd, processed, seenHead, rec, delivered, logged>>

\* A full batch goes through the runtime once before it waits again.
Leave ==
  /\ pc = "leave"
  /\ Goto(IF processed = Batch THEN "yield" ELSE "wait")
  /\ UNCHANGED <<kernelVars, ioVars, tail, rd, processed, seenHead, rec, delivered, logged>>

Yielded ==
  /\ pc = "yield"
  /\ Goto("wait")
  /\ UNCHANGED <<kernelVars, ioVars, tail, rd, processed, seenHead, rec, delivered, logged>>

Reader ==
  \/ Park \/ Readable \/ Check \/ ReadHeader \/ ReadSample \/ ReadLost \/ Advance
  \/ Recheck \/ Clear \/ Leave \/ Yielded

Kernel == HitUser \/ HitNoRegs \/ Publish \/ Wake \/ ThreadExit

Next == Kernel \/ Driver \/ Reader

\* The kernel finishes what it began, the driver thread and the task run.
Spec ==
  /\ Init /\ [][Next]_vars
  /\ WF_vars(Publish) /\ WF_vars(Wake) /\ WF_vars(Driver) /\ WF_vars(Reader)

-----------------------------------------------------------------------------
CellType == [type : {"blank", "sample", "lost", "word"}, val : Nat]

\* Every sample passed to handle is one the kernel wrote, whole, in order and once,
\* with no sample that has registers left out between two of them (perf.rs:113-138, 149-187).
Integrity ==
  /\ Len(delivered) <= Len(emitted)
  /\ \A i \in 1..Len(delivered) : delivered[i] = <<emitted[i], emitted[i]>>

\* The reader stays behind the writer, and the writer never laps what the reader has
\* not done with: data_tail moves only behind a record that was handled (perf.rs:135-136).
NeverLapped ==
  /\ tail <= rd /\ rd <= head /\ head <= khead
  /\ khead - rd < Size
  /\ pc \in {"header", "sample", "lost", "advance"} => rd < head

\* A parked task with nothing under way to wake it has nothing to read: clear_ready
\* never eats the readiness of a record that came in meanwhile (perf.rs:139-141).
NoLostWakeup ==
  pc = "parked" /\ kpc = "idle" /\ ~poll /\ ~ready /\ ~closed => rd = head

\* Once the target stops hitting the watchpoint, every sample with registers the
\* kernel wrote has been handled, also when the thread has exited (perf.rs:110-146).
EverySampleHandled == <>[](Len(delivered) = Len(emitted))

\* A readiness that is not a hang-up does not spin: with the ring drained the task parks
\* (perf.rs:139-141).
ParksWhenDrained == []<>(pc = "parked" \/ closed \/ rd # head)

\* perf.rs:131 logs "Lost {} events" with the number of events lost.
LostLogIsTheCount == \A i \in 1..Len(logged) : logged[i][1] = logged[i][2]
=============================================================================

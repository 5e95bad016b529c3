---------------------------- MODULE HitPipeline ----------------------------
(***************************************************************************)
(* From a sample reported by a watch task to a hit on the dashboard        *)
(* (server.rs, hit.rs): the bounded sample queue every watch task feeds    *)
(* with try_send, the one pwatch-hit-worker thread that drains it, the     *)
(* ring of recent hits behind GET /hits and the broadcast channel behind   *)
(* GET /hits/stream.                                                       *)
(*                                                                         *)
(* Each step of the worker between two of its accesses to shared state is  *)
(* an action, so other threads run in between.  Address resolution, the    *)
(* timestamp and the text of a hit are left out: a hit is the sample it    *)
(* was made from and its sequence number.  The two locks cannot be         *)
(* poisoned, nothing panics while holding them, so the Err branches of     *)
(* lock() do nothing here.                                                 *)
(***************************************************************************)
EXTENDS Naturals, Sequences

CONSTANTS
  Sample,        \* the values a watch task may report
  NoSample,      \* what the worker holds between two samples
  Client,        \* browsers that may hold a /hits/stream connection
  QueueCap,      \* SAMPLE_QUEUE_CAPACITY
  HitLimit,      \* InnerState::hit_buffer_limit, 0 keeps no hit
  BroadcastCap,  \* capacity of the broadcast channel
  MaxOffered     \* bound on the samples ever offered (the model's, not the code's)

ASSUME PipelineAssumption ==
  /\ NoSample \notin Sample
  /\ QueueCap \in Nat \ {0}
  /\ HitLimit \in Nat
  /\ BroadcastCap \in Nat \ {0}
  /\ MaxOffered \in Nat

VARIABLES
  queue,      \* samples in the mpsc channel
  dropped,    \* InnerState::dropped_samples
  offered,    \* history: try_send calls so far
  pc,         \* where the worker is; "dead" if its thread could not be started
  hit,        \* the worker's local sample or hit (seq 0: not made yet)
  nextSeq,    \* HitFactory::next_seq
  hitBuffer,  \* InnerState::hit_buffer
  ring,       \* messages the broadcast channel retains
  sent,       \* messages the broadcast channel ever took
  connected,  \* clients that hold a stream
  cursor,     \* per client: messages its receiver has passed
  seen,       \* history: seqs the client got on its present connection
  since,      \* history: hits broadcast before the client subscribed
  lagged      \* history: the receiver was overrun on this connection

workerVars == <<pc, hit, nextSeq>>
streamVars == <<connected, cursor, seen, since, lagged>>
vars == <<queue, dropped, offered, workerVars, hitBuffer, ring, sent, streamVars>>

Idle == [seq |-> 0, sample |-> NoSample]

\* The last n elements of s (VecDeque and the broadcast ring drop from the front).
LastN(s, n) == IF Len(s) <= n THEN s ELSE SubSeq(s, Len(s) - n + 1, Len(s))

Init ==
  /\ queue = <<>> /\ dropped = 0 /\ offered = 0
  /\ pc \in {"recv", "dead"}            \* thread::Builder::spawn may fail, serve() goes on
  /\ hit = Idle /\ nextSeq = 0
  /\ hitBuffer = <<>> /\ ring = <<>> /\ sent = 0
  /\ connected = {} /\ cursor = [c \in Client |-> 0]
  /\ seen = [c \in Client |-> <<>>]
  /\ since = [c \in Client |-> 0]
  /\ lagged = [c \in Client |-> FALSE]

-----------------------------------------------------------------------------
(* The handle_event callback of a watch started by POST /breakpoints.      *)

\* The receiver is gone with the worker: the channel is closed.
Accepts == pc # "dead" /\ Len(queue) < QueueCap

\* Mutant: a refused sample is not counted.
TrySendUncounted(s) ==
  /\ offered < MaxOffered
  /\ offered' = offered + 1
  /\ queue' = IF Accepts THEN Append(queue, s) ELSE queue
  /\ UNCHANGED <<dropped, workerVars, hitBuffer, ring, sent, streamVars>>

TrySend(s) ==
  /\ offered < MaxOffered
  /\ offered' = offered + 1
  /\ \/ Accepts /\ queue' = Append(queue, s) /\ UNCHANGED dropped
     \/ ~Accepts /\ dropped' = dropped + 1 /\ UNCHANGED queue
  /\ UNCHANGED <<workerVars, hitBuffer, ring, sent, streamVars>>

-----------------------------------------------------------------------------
(* spawn_hit_worker: blocking_recv, make_hit_with_maps, push_hit           *)

\* Mutant: takes the newest sample first.
RecvNewest ==
  /\ pc = "recv" /\ queue # <<>>
  /\ hit' = [seq |-> 0, sample |-> queue[Len(queue)]]
  /\ queue' = SubSeq(queue, 1, Len(queue) - 1)
  /\ pc' = "make"
  /\ UNCHANGED <<dropped, offered, nextSeq, hitBuffer, ring, sent, streamVars>>

Recv ==
  /\ pc = "recv" /\ queue # <<>>
  /\ hit' = [seq |-> 0, sample |-> Head(queue)]
  /\ queue' = Tail(queue)
  /\ pc' = "make"
  /\ UNCHANGED <<dropped, offered, nextSeq, hitBuffer, ring, sent, streamVars>>

MakeHit ==
  /\ pc = "make"
  /\ nextSeq' = nextSeq + 1
  /\ hit' = [hit EXCEPT !.seq = nextSeq + 1]
  /\ pc' = "push"
  /\ UNCHANGED <<queue, dropped, offered, hitBuffer, ring, sent, streamVars>>

\* Mutant: keeps what it has once it is full.
RetainUntilFull(b, h) == IF Len(b) < HitLimit THEN Append(b, h) ELSE b

\* Mutant: pops the newest hits instead of the oldest.
RetainOldest(b, h) ==
  IF Len(b) < HitLimit THEN Append(b, h) ELSE Append(SubSeq(b, 1, HitLimit - 1), h)

\* while len >= limit { pop_front }, then push_back
Retain(b, h) ==
  IF HitLimit = 0 THEN b
  ELSE Append(LastN(b, HitLimit - 1), h)

PushHit ==
  /\ pc = "push"
  /\ hitBuffer' = Retain(hitBuffer, hit)
  /\ pc' = "send"
  /\ UNCHANGED <<queue, dropped, offered, hit, nextSeq, ring, sent, streamVars>>

\* Mutant: drops a hit when the slowest stream is full.
BroadcastIfRoom ==
  /\ pc = "send"
  /\ IF \A c \in connected : sent - cursor[c] < BroadcastCap
     THEN ring' = LastN(Append(ring, hit), BroadcastCap) /\ sent' = sent + 1
     ELSE UNCHANGED <<ring, sent>>
  /\ hit' = Idle
  /\ pc' = "recv"
  /\ UNCHANGED <<queue, dropped, offered, nextSeq, hitBuffer, streamVars>>

\* tokio's send() refuses the message when nobody is subscribed.
Broadcast ==
  /\ pc = "send"
  /\ IF connected # {}
     THEN ring' = LastN(Append(ring, hit), BroadcastCap) /\ sent' = sent + 1
     ELSE UNCHANGED <<ring, sent>>
  /\ hit' = Idle
  /\ pc' = "recv"
  /\ UNCHANGED <<queue, dropped, offered, nextSeq, hitBuffer, streamVars>>

Worker == Recv \/ MakeHit \/ PushHit \/ Broadcast

\* get_hits: iter().rev().take(limit), reversed again.
GetHits(limit) == LastN(hitBuffer, limit)

-----------------------------------------------------------------------------
(* stream_hits: one broadcast receiver per SSE connection                  *)

Subscribe(c) ==
  /\ c \notin connected
  /\ connected' = connected \cup {c}
  /\ cursor' = [cursor EXCEPT ![c] = sent]
  /\ seen' = [seen EXCEPT ![c] = <<>>]
  /\ since' = [since EXCEPT ![c] = IF pc \in {"push", "send"} THEN nextSeq - 1 ELSE nextSeq]
  /\ lagged' = [lagged EXCEPT ![c] = FALSE]
  /\ UNCHANGED <<queue, dropped, offered, workerVars, hitBuffer, ring, sent>>

Disconnect(c) ==
  /\ c \in connected
  /\ connected' = connected \ {c}
  /\ UNCHANGED <<queue, dropped, offered, workerVars, hitBuffer, ring, sent,
                 cursor, seen, since, lagged>>

\* Messages 1 .. sent - Len(ring) are overwritten.
Overrun(c) == cursor[c] < sent - Len(ring)

\* recv() answers Lagged and moves the receiver to the oldest message kept;
\* result.ok() in the filter_map throws the notice away.
SkipLagged(c) ==
  /\ c \in connected /\ Overrun(c)
  /\ cursor' = [cursor EXCEPT ![c] = sent - Len(ring)]
  /\ lagged' = [lagged EXCEPT ![c] = TRUE]
  /\ UNCHANGED <<queue, dropped, offered, workerVars, hitBuffer, ring, sent,
                 connected, seen, since>>

Deliver(c) ==
  /\ c \in connected /\ ~Overrun(c) /\ cursor[c] < sent
  /\ LET k == cursor[c] + 1
     IN  /\ cursor' = [cursor EXCEPT ![c] = k]
         /\ seen' = [seen EXCEPT ![c] = Append(@, ring[k - (sent - Len(ring))].seq)]
  /\ UNCHANGED <<queue, dropped, offered, workerVars, hitBuffer, ring, sent,
                 connected, since, lagged>>

Stream(c) == Subscribe(c) \/ Disconnect(c) \/ SkipLagged(c) \/ Deliver(c)

-----------------------------------------------------------------------------
Next ==
  \/ \E s \in Sample : TrySend(s)
  \/ Worker
  \/ \E c \in Client : Stream(c)

\* The worker is an OS thread that does nothing else; samples and clients come or not.
Spec == Init /\ [][Next]_vars /\ WF_vars(Worker)

-----------------------------------------------------------------------------
\* Hits that GET /hits may show, and hits that went to the broadcast channel
\* (or would have, had anyone listened).
Pushed == IF pc = "push" THEN nextSeq - 1 ELSE nextSeq
Broadcasted == IF pc \in {"push", "send"} THEN nextSeq - 1 ELSE nextSeq

Hit == [seq : Nat, sample : Sample]

\* Every variable holds a value of its type; the worker holds a sample between
\* Recv and MakeHit and the hit numbered last from there to Broadcast.
TypeOK ==
  /\ queue \in Seq(Sample)
  /\ dropped \in Nat /\ offered \in Nat /\ nextSeq \in Nat /\ sent \in Nat
  /\ pc \in {"recv", "make", "push", "send", "dead"}
  /\ IF pc \in {"recv", "dead"} THEN hit = Idle ELSE hit \in Hit
  /\ pc \in {"push", "send"} => hit.seq = nextSeq /\ nextSeq > 0
  /\ hitBuffer \in Seq(Hit) /\ ring \in Seq(Hit)
  /\ connected \subseteq Client /\ cursor \in [Client -> Nat]
  /\ seen \in [Client -> Seq(Nat)]
  /\ since \in [Client -> Nat]
  /\ lagged \in [Client -> BOOLEAN]

\* Where the samples offered so far are.
Counted ==
  /\ offered = dropped + Len(queue) + (IF pc = "make" THEN 1 ELSE 0) + nextSeq
  /\ Len(queue) <= QueueCap

\* No sample is lost without being counted: every try_send so far is in
\* dropped_samples, in the queue, in the worker's hands or was given a sequence
\* number, and the queue never outgrows its capacity (server.rs:252-263, 562).
Accounting == TypeOK /\ Counted

\* The buffer holds the last min(hit_buffer, n) of the n hits pushed so far, and
\* GET /hits?limit shows the last of those: oldest first, without a gap and up to the
\* newest, whatever the worker is doing (server.rs:340-359, 542-550).
BufferIsTail ==
  /\ Len(hitBuffer) = IF Pushed < HitLimit THEN Pushed ELSE HitLimit
  /\ \A i \in 1..Len(hitBuffer) : hitBuffer[i].seq = Pushed - Len(hitBuffer) + i

HitsShownAreTheLast ==
  /\ BufferIsTail
  /\ \A limit \in 0..HitLimit + 1 :
       LET shown == GetHits(limit)
       IN  /\ Len(shown) = IF limit < Len(hitBuffer) THEN limit ELSE Len(hitBuffer)
           /\ \A i \in 1..Len(shown) : shown[i].seq = Pushed - Len(shown) + i

\* A stream shows each hit at most once and in sequence, and one that was never
\* overrun has shown, or still holds in the channel, every hit broadcast since it
\* subscribed (server.rs:361-371).
StreamFaithful ==
  \A c \in Client :
    /\ \A i \in 1..Len(seen[c]) - 1 : seen[c][i] < seen[c][i + 1]
    /\ ~lagged[c] => \A i \in 1..Len(seen[c]) : seen[c][i] = since[c] + i
    /\ c \in connected /\ ~lagged[c] =>
         since[c] + Len(seen[c]) + (sent - cursor[c]) = Broadcasted

\* The dashboard merges the stream with GET /hits: a hit that a stream has shown is
\* already in the buffer, unless newer hits pushed it out (server.rs:544-551).
StreamNeverAhead ==
  HitLimit > 0 => \A c \in Client : \A i \in 1..Len(seen[c]) :
    hitBuffer # <<>> /\ seen[c][i] <= hitBuffer[Len(hitBuffer)].seq

-----------------------------------------------------------------------------
(* The pipeline implements HitLog: the worker's un-numbered or un-pushed   *)
(* sample still counts as pending, and PushHit is the step that publishes. *)

Log == INSTANCE HitLog WITH
  pending <- (IF pc \in {"make", "push"} THEN <<hit.sample>> ELSE <<>>) \o queue,
  window <- hitBuffer,
  count <- Pushed

\* Threads, queue and counters together are a FIFO log: samples come out as hits in
\* the order they were accepted, each exactly once, numbered without a gap.
ImplementsLog == Log!Spec
=============================================================================

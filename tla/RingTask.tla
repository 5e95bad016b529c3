------------------------------ MODULE RingTask ------------------------------
(***************************************************************************)
(* PerfMap::events (perf.rs) as the task of a watch (watch.rs): what       *)
(* PerfRing does with cells, positions and readiness is what Watch says of *)
(* a watch on one thread (-t) that nobody stops and that has no filter.    *)
(*                                                                         *)
(* A record counts as unread until its header is read, and as processed    *)
(* from then on.  The task leaves its loop when it finds the ring drained, *)
(* or when it has been through the loop for the last time in a full batch. *)
(* Handing a sample over ends when the reader moves on.                    *)
(***************************************************************************)
EXTENDS PerfRing, FiniteSets

\* Where records begin between two positions.
Headers(from, to) == {x \in from..to - 1 : cells[x % Size].type \in {"sample", "lost"}}

Holding == pc \in {"sample", "lost", "advance"}
Behind == pc \in {"recheck", "clear", "leave"}
FullBatch == processed = Batch

Unread == Cardinality(Headers(rd, head)) - (IF Holding THEN 1 ELSE 0)

Place ==
  CASE pc \in {"wait", "parked"} -> pc
    [] pc \in {"loop", "header"} -> "loop"
    [] pc \in {"sample", "lost"} -> "took"
    [] pc = "advance" -> IF rec = Cell("sample", 3) THEN "handle" ELSE "loop"
    [] Behind -> IF FullBatch THEN "loop" ELSE "wait"
    [] pc = "yield" -> "queued"

Records ==
  CASE Holding -> processed + 1
    [] pc \in {"loop", "header"} \/ (Behind /\ FullBatch) -> processed
    [] OTHER -> 0

TheWatch == "watch"
TheThread == "thread"
Of(value) == [w \in {TheWatch} |-> value]
OfThread(value) == Of([t \in {TheThread} |-> value])

Task == INSTANCE Watch WITH
  WatchId <- {TheWatch}, Tid <- {TheThread}, RingCap <- Size,
  thr <- [t \in {TheThread} |-> IF exited THEN "dead" ELSE "alive"],
  hup <- Of(IF closed THEN {TheThread} ELSE {}),
  phase <- Of("running"), listed <- Of({}), scanned <- Of({}), opened <- Of({TheThread}),
  task <- OfThread(Place), processed <- OfThread(Records), pending <- OfThread(Unread),
  cancel <- Of(FALSE), aborted <- Of({}), late <- OfThread(0)

\* As StartThread leaves the watch: one event, one task that reads it, nothing to read yet.
Started == Task!TypeOK /\ Task!EventsHaveReaders /\ ~exited /\ Unread = 0

\* Every step of the ring and its reader is one of a watch's task, of its thread or of the
\* runtime as Watch.tla has them, or none that Watch sees; so what holds of watches whatever
\* their rings hold, holds of this one (perf.rs:98-147, watch.rs:132-163).
RunsAsTask == Started /\ [][Task!Next]_(Task!vars)
=============================================================================

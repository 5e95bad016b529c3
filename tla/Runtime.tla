------------------------------ MODULE Runtime ------------------------------
(***************************************************************************)
(* One pool of worker threads for everything pwatch does: the runtime of   *)
(* #[tokio::main] polls the tasks of start_watch, the timer of run_watch   *)
(* and the HTTP handlers.  A task that does not return to it keeps its     *)
(* worker.  PerfMap::events (perf.rs) returns when its ring is empty or    *)
(* after a full batch; once its thread has exited the descriptor hangs up, *)
(* the readiness stays whatever is cleared, and it returns only after full *)
(* batches.  PerfRing.tla has the ring itself, Watch.tla the stopping.     *)
(*                                                                         *)
(* External and assumed (tokio, perf_event_open(2)): a worker between two  *)
(* polls, or without a task, polls the driver, which alone sees events of  *)
(* descriptors and timers; events are edges, each seen once; a hang-up is  *)
(* never unset.  The number of hits is bounded, so that no live task is    *)
(* kept busy for ever.                                                     *)
(***************************************************************************)
EXTENDS Naturals, FiniteSets

CONSTANTS
  Tid,      \* watched threads, each with its task
  Workers,  \* worker threads of the runtime
  Batch,    \* MAX_EVENTS_PER_READINESS
  MaxHits   \* bound on the hits of one thread

VARIABLES
  dead,     \* threads that have exited
  hits,     \* hits of each thread so far
  ring,     \* samples not read yet
  edge,     \* descriptors with an event the driver has not seen
  hup,      \* descriptors the driver has seen hang up
  task,     \* per task: "waiting" in readable(), "queued", or "running" on a worker
  timer,    \* run_watch's sleep: "set", "elapsed", "fired"
  request   \* an HTTP request: "none", "arrived", "seen", "answered"

vars == <<dead, hits, ring, edge, hup, task, timer, request>>

Init ==
  /\ dead = {} /\ hits = [t \in Tid |-> 0] /\ ring = [t \in Tid |-> 0]
  /\ edge = {} /\ hup = {}
  /\ task = [t \in Tid |-> "queued"]
  /\ timer = "set" /\ request = "none"

Goto(t, where) == task' = [task EXCEPT ![t] = where]

\* A worker that is not inside a task.
WorkerFree == Cardinality({t \in Tid : task[t] = "running"}) < Workers

-----------------------------------------------------------------------------
(* The target, the clock and the clients (external)                        *)

Hit(t) ==
  /\ t \notin dead /\ hits[t] < MaxHits
  /\ hits' = [hits EXCEPT ![t] = @ + 1] /\ ring' = [ring EXCEPT ![t] = @ + 1]
  /\ edge' = edge \cup {t}
  /\ UNCHANGED <<dead, hup, task, timer, request>>

ThreadExit(t) ==
  /\ t \notin dead
  /\ dead' = dead \cup {t} /\ edge' = edge \cup {t}
  /\ UNCHANGED <<hits, ring, hup, task, timer, request>>

Elapse ==
  /\ timer = "set" /\ timer' = "elapsed"
  /\ UNCHANGED <<dead, hits, ring, edge, hup, task, request>>

Arrive ==
  /\ request = "none" /\ request' = "arrived"
  /\ UNCHANGED <<dead, hits, ring, edge, hup, task, timer>>

-----------------------------------------------------------------------------
(* The runtime (external)                                                  *)

\* Everything that happened since the driver was last polled is told to who waits for
\* it: tasks are queued, the main task (a thread of its own) is woken by the timer.
Driver ==
  /\ WorkerFree
  /\ edge # {} \/ timer = "elapsed" \/ request = "arrived"
  /\ edge' = {} /\ hup' = hup \cup (edge \cap dead)
  /\ task' = [t \in Tid |-> IF t \in edge /\ task[t] = "waiting" THEN "queued" ELSE task[t]]
  /\ timer' = IF timer = "elapsed" THEN "fired" ELSE timer
  /\ request' = IF request = "arrived" THEN "seen" ELSE request
  /\ UNCHANGED <<dead, hits, ring>>

Take(t) ==
  /\ task[t] = "queued" /\ WorkerFree
  /\ Goto(t, "running")
  /\ UNCHANGED <<dead, hits, ring, edge, hup, timer, request>>

\* The handler is a task like others, and its one poll is short.
Answer ==
  /\ request = "seen" /\ WorkerFree
  /\ request' = "answered"
  /\ UNCHANGED <<dead, hits, ring, edge, hup, task, timer>>

-----------------------------------------------------------------------------
(* PerfMap::events                                                         *)

\* Mutant: the ring is waited for in place.
PollBlocks(t) ==
  /\ task[t] = "running" /\ ring[t] > 0
  /\ LET n == IF ring[t] < Batch THEN ring[t] ELSE Batch
     IN  /\ ring' = [ring EXCEPT ![t] = @ - n]
         /\ Goto(t, IF n = Batch THEN "queued" ELSE "running")
  /\ UNCHANGED <<dead, hits, edge, hup, timer, request>>

\* One turn of the loop: up to a batch of records.  A full batch yields; an empty ring is
\* cleared and waited for, unless the descriptor hangs up: then readable() is ready at
\* once and the loop goes on.
Poll(t) ==
  /\ task[t] = "running"
  /\ LET n == IF ring[t] < Batch THEN ring[t] ELSE Batch
     IN  /\ ring' = [ring EXCEPT ![t] = @ - n]
         /\ Goto(t, CASE n = Batch -> "queued"
                      [] n # Batch /\ t \in hup -> "running"
                      [] n # Batch /\ t \notin hup -> "waiting")
  /\ UNCHANGED <<dead, hits, edge, hup, timer, request>>

Next ==
  \/ \E t \in Tid : Hit(t) \/ ThreadExit(t) \/ Take(t) \/ Poll(t)
  \/ Elapse \/ Arrive \/ Driver \/ Answer

Fairness ==
  /\ \A t \in Tid : WF_vars(Take(t)) /\ WF_vars(Poll(t))
  /\ WF_vars(Elapse) /\ WF_vars(Driver) /\ WF_vars(Answer)

Spec == Init /\ [][Next]_vars /\ Fairness

-----------------------------------------------------------------------------
\* A worker that never comes back is lost to the task of a thread that has exited, and to
\* nothing else: with a worker to spare, the timer of --timeout fires, a request is
\* answered and every sample is read, of living and of exited threads (perf.rs:110-147,
\* main.rs:167-172).
SpareWorkerServesAll ==
  [](Cardinality(dead) < Workers) =>
    /\ timer = "elapsed" ~> timer = "fired"
    /\ request = "arrived" ~> request = "answered"
    /\ \A t \in Tid : ring[t] > 0 ~> ring[t] = 0
=============================================================================

------------------------------- MODULE Server -------------------------------
(***************************************************************************)
(* `pwatch serve` (server.rs): the handlers that create, list and delete   *)
(* breakpoints, running concurrently over the registry and the id counter, *)
(* the watches they start and stop (Watch.tla), and the pipeline all of    *)
(* them feed (HitPipeline.tla).  A breakpoint id names its watch.          *)
(*                                                                         *)
(* A create runs on a blocking thread, so it goes on when its client hangs *)
(* up; a delete is dropped at its next await, which is in stop() after all *)
(* tasks were aborted.  Validation of a request (type, address, filter) is *)
(* a free choice.  The locks cannot be poisoned: nothing panics with one.  *)
(***************************************************************************)
EXTENDS Naturals, FiniteSets, Sequences

CONSTANTS
  Request,    \* requests that may be under way at the same time
  MaxId,      \* bound on the breakpoint ids handed out
  Tid, RingCap, Batch,                                \* of Watch
  NoSample, Client, QueueCap, HitLimit, BroadcastCap, MaxOffered  \* of HitPipeline

Id == 1..MaxId
Sample == [bp : Id, tid : Tid]

ASSUME ServerAssumption ==
  /\ MaxId \in Nat
  /\ RingCap \in Nat \ {0} /\ Batch \in Nat \ {0}
  /\ NoSample \notin Sample
  /\ QueueCap \in Nat \ {0} /\ HitLimit \in Nat /\ BroadcastCap \in Nat \ {0}
  /\ MaxOffered \in Nat

VARIABLES
  nextId,    \* InnerState::next_breakpoint_id
  registry,  \* ids in InnerState::breakpoints
  rpc,       \* per request: where its handler is
  rid,       \* per request: the breakpoint it works on
  created,   \* history: ids whose creation succeeded (201)
  deleted,   \* history: ids whose DELETE was answered 204
  thr, hup, phase, listed, scanned, opened, task, processed, pending, cancel, aborted, late,
  queue, dropped, offered, pc, hit, nextSeq, hitBuffer, ring, sent,
  connected, cursor, seen, since, lagged

handlerVars == <<nextId, registry, rpc, rid, created, deleted>>
watchVars == <<thr, hup, phase, listed, scanned, opened, task, processed, pending,
               cancel, aborted, late>>
pipeVars == <<queue, dropped, offered, pc, hit, nextSeq, hitBuffer, ring, sent,
              connected, cursor, seen, since, lagged>>
vars == <<handlerVars, watchVars, pipeVars>>

W == INSTANCE Watch WITH WatchId <- Id
P == INSTANCE HitPipeline

Init ==
  /\ W!Init /\ P!Init
  /\ nextId = 1 /\ registry = {} /\ created = {} /\ deleted = {}
  /\ rpc = [r \in Request |-> "idle"]
  /\ rid = [r \in Request |-> 0]

Goto(r, where, id) == rpc' = [rpc EXCEPT ![r] = where] /\ rid' = [rid EXCEPT ![r] = id]
Answered(r) == Goto(r, "idle", 0)

-----------------------------------------------------------------------------
(* POST /breakpoints                                                       *)

\* Mutant: ids are counted from the breakpoints there are.
AllocFromRegistry(r) ==
  /\ rpc[r] = "idle" /\ Cardinality(registry) < MaxId
  /\ nextId' = Cardinality(registry) + 2
  /\ Goto(r, "starting", Cardinality(registry) + 1)
  /\ UNCHANGED <<registry, created, deleted, watchVars, pipeVars>>

\* The request is valid and takes an id, also when start_watch then fails.
AllocId(r) ==
  /\ rpc[r] = "idle" /\ nextId <= MaxId
  /\ nextId' = nextId + 1
  /\ Goto(r, "starting", nextId)
  /\ UNCHANGED <<registry, created, deleted, watchVars, pipeVars>>

StartWatch(r) ==
  /\ rpc[r] = "starting"
  /\ W!StartProcess(rid[r])
  /\ UNCHANGED <<handlerVars, pipeVars>>

\* 400 Bad Request
CreateFails(r) ==
  /\ rpc[r] = "starting" /\ phase[rid[r]] = "failed"
  /\ Answered(r)
  /\ UNCHANGED <<nextId, registry, created, deleted, watchVars, pipeVars>>

\* Mutant: the view is returned and the RunningWatch dropped.
InsertForgotten(r) ==
  /\ rpc[r] = "starting" /\ phase[rid[r]] = "running"
  /\ created' = created \cup {rid[r]}
  /\ Answered(r)
  /\ UNCHANGED <<nextId, registry, deleted, watchVars, pipeVars>>

\* The tasks have been running since start_watch spawned them.  201 Created
Insert(r) ==
  /\ rpc[r] = "starting" /\ phase[rid[r]] = "running"
  /\ registry' = registry \cup {rid[r]}
  /\ created' = created \cup {rid[r]}
  /\ Answered(r)
  /\ UNCHANGED <<nextId, deleted, watchVars, pipeVars>>

-----------------------------------------------------------------------------
(* DELETE /breakpoints/:id; an unknown id is answered 404 and changes      *)
(* nothing                                                                 *)

Remove(r, id) ==
  /\ rpc[r] = "idle" /\ id \in registry
  /\ registry' = registry \ {id}
  /\ Goto(r, "removed", id)
  /\ UNCHANGED <<nextId, created, deleted, watchVars, pipeVars>>

StopBegin(r) ==
  /\ rpc[r] = "removed"
  /\ W!StopBegin(rid[r])
  /\ Goto(r, "stopping", rid[r])
  /\ UNCHANGED <<nextId, registry, created, deleted, pipeVars>>

StopStep(r) ==
  /\ rpc[r] = "stopping"
  /\ W!StopStep(rid[r])
  /\ UNCHANGED <<handlerVars, pipeVars>>

\* 204 No Content
Deleted(r) ==
  /\ rpc[r] = "stopping" /\ phase[rid[r]] = "stopped"
  /\ deleted' = deleted \cup {rid[r]}
  /\ Answered(r)
  /\ UNCHANGED <<nextId, registry, created, watchVars, pipeVars>>

\* Mutant: there is an await before all tasks are aborted.
HangUpEarly(r) ==
  /\ rpc[r] = "stopping" /\ phase[rid[r]] \in {"aborting", "joining"}
  /\ Answered(r)
  /\ UNCHANGED <<nextId, registry, created, deleted, watchVars, pipeVars>>

\* The client hangs up: the handler is dropped while it awaits the tasks.
HangUp(r) ==
  /\ rpc[r] = "stopping" /\ phase[rid[r]] = "joining"
  /\ Answered(r)
  /\ UNCHANGED <<nextId, registry, created, deleted, watchVars, pipeVars>>

Handler(r) ==
  \/ StartWatch(r) \/ CreateFails(r) \/ Insert(r)
  \/ StopBegin(r) \/ StopStep(r) \/ Deleted(r)

-----------------------------------------------------------------------------
(* The watch tasks: handle_event offers the sample to the pipeline         *)

HandleEvent(id, t) ==
  /\ W!Handle(id, t)
  /\ P!TrySend([bp |-> id, tid |-> t])
  /\ UNCHANGED handlerVars

WatchTask(id, t) == W!TaskStep(id, t) /\ UNCHANGED <<handlerVars, pipeVars>>

HitWorker == P!Worker /\ UNCHANGED <<handlerVars, watchVars>>

\* GET /hits/stream: a client comes, gets hits, falls behind and goes, whatever the handlers
\* and the tasks are doing.
StreamHits(c) == P!Stream(c) /\ UNCHANGED <<handlerVars, watchVars>>

\* Samples on their way to handle_event.
InFlight ==
  {x \in Id \X Tid \X {1, 2} :
     IF x[3] = 1 THEN pending[x[1]][x[2]] > 0 ELSE task[x[1]][x[2]] \in {"took", "handle"}}

\* MaxOffered bounds the samples here, so that handle_event is never held up by it.
Target ==
  /\ \/ \E t \in Tid : W!ThreadSpawn(t) \/ W!ThreadExit(t)
     \/ \E id \in Id, t \in Tid : W!SeeExit(id, t) \/ W!StaleWake(id, t)
     \/ /\ offered + Cardinality(InFlight) < MaxOffered
        /\ \E id \in Id, t \in Tid : W!Fire(id, t)
  /\ UNCHANGED <<handlerVars, pipeVars>>

Next ==
  \/ \E r \in Request :
       AllocId(r) \/ Handler(r) \/ HangUp(r) \/ \E id \in Id : Remove(r, id)
  \/ \E id \in Id, t \in Tid : WatchTask(id, t) \/ HandleEvent(id, t)
  \/ HitWorker
  \/ \E c \in Client : StreamHits(c)
  \/ Target

\* Handlers under way, watch tasks and the worker go on; requests come or not.  Parking is
\* as in Watch.
Fairness ==
  /\ \A r \in Request : WF_vars(Handler(r))
  /\ \A id \in Id, t \in Tid :
       /\ WF_vars(WatchTask(id, t) \/ HandleEvent(id, t))
       /\ SF_vars(W!ParkDrained(id, t) /\ UNCHANGED <<handlerVars, pipeVars>>)
  /\ WF_vars(HitWorker)

Spec == Init /\ [][Next]_vars /\ Fairness

-----------------------------------------------------------------------------
Holders(id) == {r \in Request : rid[r] = id}

\* A breakpoint that is listed is watched and nobody is stopping it; one that is watched
\* is listed, or exactly one request is about to list or to stop it; a stop under way
\* has at most one request behind it.  No watch runs that no DELETE can reach, and no
\* two requests stop the same watch (server.rs:252-289, 316-331).
NoOrphanWatch ==
  \A id \in Id :
    /\ id \in registry => phase[id] = "running" /\ ~cancel[id] /\ Holders(id) = {}
    /\ phase[id] \in {"scan", "running"} /\ id \notin registry => Cardinality(Holders(id)) = 1
    /\ phase[id] \in {"aborting", "joining"} => Cardinality(Holders(id)) <= 1

\* An id is answered 201 at most once and names the same breakpoint for ever: the ids
\* given out are those below the counter, each start_watch got its own, also with
\* several creates under way (server.rs:232-235, 277-289).
IdsAreUnique ==
  /\ \A r1, r2 \in Request : rid[r1] # 0 /\ rid[r1] = rid[r2] => r1 = r2
  /\ \A id \in Id : (phase[id] # "idle" \/ id \in created) => id < nextId
  /\ registry \subseteq created /\ deleted \subseteq created

Samples(s) == {s[i] : i \in 1..Len(s)}

\* A hit, listed or streamed, names a breakpoint that was really installed: never one whose
\* creation failed or is still listing threads (server.rs:252-263).
HitsAreAttributed ==
  \A x \in Samples(queue) \cup {h.sample : h \in Samples(hitBuffer) \cup Samples(ring)} :
    phase[x.bp] \notin {"idle", "scan", "failed"}

\* Once DELETE was answered 204, no sample of that breakpoint enters the queue any more;
\* what it raised before may still become a hit (server.rs:330-333).
QuietAfterDelete ==
  [][\A id \in deleted : \A t \in Tid : task[id][t] \in {"none", "ended"} /\ task'[id][t] = task[id][t]]_vars

\* A breakpoint that is no longer listed gives its debug registers back, also when the client hung up on
\* the DELETE, unless a watched thread exited (server.rs:331, watch.rs:36-48).
DeleteReleases ==
  \A id \in Id : (id \in created \ registry) ~> (opened[id] = {} \/ \E t \in Tid : W!Exited(t))
=============================================================================

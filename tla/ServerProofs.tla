---------------------------- MODULE ServerProofs ----------------------------
(***************************************************************************)
(* Proofs about Server.tla, for any number of requests, ids, threads and   *)
(* samples and any capacities: the handlers never lose a watch, give an id *)
(* twice or stop a watch twice, and the watches and the pipeline behave    *)
(* inside the server as they do on their own.  And about ProcessList.tla:  *)
(* GET /processes lists every process that stays, from an invariant on     *)
(* where such a process is in the walk, and from what a stable sort does.  *)
(***************************************************************************)
EXTENDS Server, ProcessList, FiniteSetTheorems, SequenceTheorems, TLAPS

WP == INSTANCE WatchProofs WITH WatchId <- Id
PP == INSTANCE HitPipelineProofs

-----------------------------------------------------------------------------
(* The inductive invariant of the handlers                                 *)

HandlerTypes ==
  /\ nextId \in 1..MaxId + 1
  /\ rpc \in [Request -> {"idle", "starting", "removed", "stopping"}]
  /\ rid \in [Request -> 0..MaxId]
  /\ registry \subseteq created /\ deleted \subseteq created /\ created \subseteq Id

\* What a request that works on a breakpoint knows of it.
RequestFits(r) ==
  /\ rid[r] = 0 <=> rpc[r] = "idle"
  /\ rid[r] < nextId
  /\ rpc[r] = "starting" => rid[r] \notin created /\ phase[rid[r]] \in {"idle", "scan", "running", "failed"}
  /\ rpc[r] = "removed" => rid[r] \in created /\ phase[rid[r]] = "running"
  /\ rpc[r] = "stopping" => rid[r] \in created /\ phase[rid[r]] \in {"aborting", "joining", "stopped"}

\* Two requests never work on the same breakpoint.
OneRequestEach == \A r1, r2 \in Request : rid[r1] # 0 /\ rid[r1] = rid[r2] => r1 = r2

\* What the phase of its watch says of a breakpoint: a watch that runs is listed, or in
\* the hands of a request.
BreakpointFits(id) ==
  /\ id \in registry => phase[id] = "running" /\ \A r \in Request : rid[r] # id
  /\ phase[id] \in {"scan", "running"} /\ id \notin registry => \E r \in Request : rid[r] = id
  /\ phase[id] \in {"idle", "scan", "failed"} => id \notin created
  /\ phase[id] \in {"idle", "scan", "running", "failed"} => ~cancel[id]
  /\ id \in deleted => phase[id] = "stopped"
  /\ id >= nextId => phase[id] = "idle"

HandlerInv ==
  /\ HandlerTypes
  /\ \A r \in Request : RequestFits(r)
  /\ OneRequestEach
  /\ \A id \in Id : BreakpointFits(id)

-----------------------------------------------------------------------------
(* Watch and HitPipeline inside the server: every step of the server is a  *)
(* step, or a stutter, of each                                             *)

LEMMA InitWatch == Init => WP!Init
  BY DEF Init, W!Init, WP!Init

LEMMA InitPipe == Init => PP!Init
  BY DEF Init, P!Init, PP!Init, P!Idle, PP!Idle

LEMMA StartIsWatch ==
  ASSUME NEW id \in Id, W!StartProcess(id)
  PROVE  WP!Next
<1>1. CASE W!StartFails(id)
  BY <1>1 DEF W!StartFails, W!threadVars, W!startVars, W!stopVars, W!taskVars, WP!StartFails,
              WP!threadVars, WP!startVars, WP!stopVars, WP!taskVars, WP!Next, WP!StartProcess
<1>2. CASE W!StartScan(id)
  BY <1>2 DEF W!StartScan, W!threadVars, W!startVars, W!stopVars, W!taskVars, WP!StartScan,
              WP!threadVars, WP!startVars, WP!stopVars, WP!taskVars, WP!Next, WP!StartProcess
<1>3. ASSUME NEW t \in Tid, W!OpenThread(id, t) PROVE WP!Next
  <2>1. WP!OpenThread(id, t)
    BY <1>3 DEF W!OpenThread, W!threadVars, W!startVars, W!stopVars, W!taskVars, WP!OpenThread,
              WP!threadVars, WP!startVars, WP!stopVars, WP!taskVars
  <2> QED
    BY <2>1 DEF WP!Next, WP!StartProcess
<1>4. CASE W!FinishScan(id)
  BY <1>4 DEF W!FinishScan, W!ListDone, W!Spawned, W!threadVars, W!startVars, W!stopVars,
              W!taskVars, WP!FinishScan, WP!ListDone,
              WP!Spawned, WP!threadVars, WP!startVars, WP!stopVars, WP!taskVars, WP!Next, WP!StartProcess
<1> QED
  BY <1>1, <1>2, <1>3, <1>4 DEF W!StartProcess

LEMMA StopBeginIsWatch ==
  ASSUME NEW id \in Id, W!StopBegin(id)
  PROVE  WP!Next
BY DEF W!StopBegin, W!threadVars, W!startVars, W!stopVars, W!taskVars, WP!StopBegin,
       WP!threadVars, WP!startVars, WP!stopVars, WP!taskVars, WP!Next

LEMMA StopStepIsWatch ==
  ASSUME NEW id \in Id, W!StopStep(id)
  PROVE  WP!Next
<1>1. ASSUME NEW t \in Tid, W!AbortTask(id, t) PROVE WP!Next
  BY <1>1 DEF W!AbortTask, W!HasTask, W!threadVars, W!startVars, W!stopVars, W!taskVars, WP!AbortTask,
              WP!HasTask, WP!threadVars, WP!startVars, WP!stopVars, WP!taskVars, WP!Next, WP!StopStep
<1>2. CASE W!Join(id)
  BY <1>2 DEF W!Join, W!HasTask, W!threadVars, W!startVars, W!stopVars, W!taskVars, WP!Join,
              WP!HasTask, WP!threadVars, WP!startVars, WP!stopVars, WP!taskVars, WP!Next, WP!StopStep
<1> QED
  BY <1>1, <1>2 DEF W!StopStep

LEMMA TaskIsWatch ==
  ASSUME NEW id \in Id, NEW t \in Tid, W!TaskStep(id, t) \/ W!Handle(id, t)
  PROVE  (WP!TaskStep(id, t) \/ WP!Handle(id, t)) /\ WP!Next
<1> USE DEF W!Goto, W!threadVars, W!startVars, W!stopVars, W!taskVars,
            WP!Goto, WP!threadVars, WP!startVars, WP!stopVars, WP!taskVars
<1>1. CASE W!Poll(id, t) \/ W!Park(id, t) \/ W!Readable(id, t)
  BY <1>1 DEF W!Poll, W!Park, W!Readable, W!EnterLoop, WP!Poll, WP!Park, WP!Readable, WP!EnterLoop,
              WP!TaskStep, WP!Next
<1>2. CASE W!TakeSample(id, t)
  BY <1>2 DEF W!TakeSample, WP!TakeSample, WP!TaskStep, WP!Next
<1>3. CASE W!CheckCancel(id, t)
  BY <1>3 DEF W!CheckCancel, WP!CheckCancel, WP!TaskStep, WP!Next
<1>4. CASE W!LeaveLoop(id, t)
  BY <1>4 DEF W!LeaveLoop, WP!LeaveLoop, WP!TaskStep, WP!Next
<1>5. CASE W!Cancelled(id, t)
  BY <1>5 DEF W!Cancelled, W!AtAwait, W!Drop, WP!Cancelled, WP!AtAwait, WP!Drop, WP!TaskStep, WP!Next
<1>6. CASE W!Handle(id, t)
  BY <1>6 DEF W!Handle, WP!Handle, WP!Next
<1> QED
  BY <1>1, <1>2, <1>3, <1>4, <1>5, <1>6 DEF W!TaskStep

LEMMA TargetIsWatch == Target => WP!Env
<1> SUFFICES ASSUME Target PROVE WP!Env
  OBVIOUS
<1> USE DEF W!threadVars, W!startVars, W!stopVars, W!taskVars, W!Exited,
            WP!threadVars, WP!startVars, WP!stopVars, WP!taskVars, WP!Exited
<1>1. ASSUME NEW t \in Tid, W!ThreadSpawn(t) \/ W!ThreadExit(t) PROVE WP!Env
  BY <1>1 DEF W!ThreadSpawn, W!ThreadExit, WP!ThreadSpawn, WP!ThreadExit, WP!Env
<1>2. ASSUME NEW id \in Id, NEW t \in Tid, W!SeeExit(id, t) PROVE WP!Env
  BY <1>2 DEF W!SeeExit, WP!SeeExit, WP!Env
<1>3. ASSUME NEW id \in Id, NEW t \in Tid, W!Fire(id, t) PROVE WP!Env
  BY <1>3 DEF W!Fire, WP!Fire, WP!Env
<1>4. ASSUME NEW id \in Id, NEW t \in Tid, W!StaleWake(id, t) PROVE WP!Env
  BY <1>4 DEF W!StaleWake, W!EnterLoop, W!Goto, WP!StaleWake, WP!EnterLoop, WP!Goto, WP!Env
<1> QED
  BY <1>1, <1>2, <1>3, <1>4 DEF Target

LEMMA WatchStutters == UNCHANGED watchVars => UNCHANGED WP!vars
  BY DEF watchVars, WP!vars, WP!threadVars, WP!startVars, WP!stopVars, WP!taskVars

\* The id of a request at work names a breakpoint.
LEMMA WorksOnId ==
  ASSUME HandlerInv, NEW r \in Request, rpc[r] # "idle"
  PROVE  rid[r] \in Id /\ rid[r] < nextId
  BY ServerAssumption DEF ServerAssumption, HandlerInv, HandlerTypes, RequestFits, Id

LEMMA NextWatch == HandlerInv /\ [Next]_vars => [WP!Next]_(WP!vars)
<1> SUFFICES ASSUME HandlerInv, [Next]_vars PROVE [WP!Next]_(WP!vars)
  OBVIOUS
<1>1. CASE UNCHANGED watchVars
  BY <1>1, WatchStutters
<1>2. ASSUME NEW r \in Request, StartWatch(r) PROVE WP!Next
  BY <1>2, WorksOnId, StartIsWatch DEF StartWatch
<1>3. ASSUME NEW r \in Request, StopBegin(r) PROVE WP!Next
  BY <1>3, WorksOnId, StopBeginIsWatch DEF StopBegin
<1>4. ASSUME NEW r \in Request, StopStep(r) PROVE WP!Next
  BY <1>4, WorksOnId, StopStepIsWatch DEF StopStep
<1>5. ASSUME NEW id \in Id, NEW t \in Tid, WatchTask(id, t) \/ HandleEvent(id, t) PROVE WP!Next
  BY <1>5, TaskIsWatch DEF WatchTask, HandleEvent
<1>6. CASE Target
  BY <1>6, TargetIsWatch DEF WP!Next
<1>7. CASE UNCHANGED vars
  BY <1>1, <1>7 DEF vars
<1>8. CASE HitWorker \/ \E c \in Client : StreamHits(c)
  BY <1>1, <1>8 DEF HitWorker, StreamHits
<1>9. ASSUME NEW r \in Request, AllocId(r) PROVE UNCHANGED watchVars
  BY <1>9 DEF AllocId
<1>10. ASSUME NEW r \in Request, CreateFails(r) \/ Insert(r) \/ Deleted(r) \/ HangUp(r)
       PROVE UNCHANGED watchVars
  BY <1>10 DEF CreateFails, Insert, Deleted, HangUp
<1>11. ASSUME NEW r \in Request, NEW id \in Id, Remove(r, id) PROVE UNCHANGED watchVars
  BY <1>11 DEF Remove
<1> QED
  BY <1>1, <1>2, <1>3, <1>4, <1>5, <1>6, <1>7, <1>8, <1>9, <1>10, <1>11 DEF Next, Handler

LEMMA PipeStutters == UNCHANGED pipeVars => UNCHANGED PP!vars
  BY DEF pipeVars, PP!vars, PP!workerVars, PP!streamVars

LEMMA OfferIsPipe ==
  ASSUME NEW id \in Id, NEW t \in Tid, HandleEvent(id, t)
  PROVE  PP!TrySend([bp |-> id, tid |-> t]) /\ PP!Next
<1>1. P!TrySend([bp |-> id, tid |-> t])
  BY DEF HandleEvent
<1>2. PP!TrySend([bp |-> id, tid |-> t])
  BY <1>1 DEF P!TrySend, P!Accepts, P!workerVars, P!streamVars,
              PP!TrySend, PP!Accepts, PP!workerVars, PP!streamVars
<1>3. [bp |-> id, tid |-> t] \in Sample
  BY DEF Sample
<1> QED
  BY <1>2, <1>3 DEF PP!Next

LEMMA WorkerIsPipe == HitWorker => PP!Worker
<1> SUFFICES ASSUME HitWorker PROVE PP!Worker
  OBVIOUS
<1> USE DEF P!workerVars, P!streamVars, P!Idle, PP!workerVars, PP!streamVars, PP!Idle
<1>1. CASE P!Recv
  BY <1>1 DEF P!Recv, PP!Recv, PP!Worker
<1>2. CASE P!MakeHit
  BY <1>2 DEF P!MakeHit, PP!MakeHit, PP!Worker
<1>3. CASE P!PushHit
  BY <1>3 DEF P!PushHit, P!Retain, P!LastN, PP!PushHit, PP!Retain, PP!LastN, PP!Worker
<1>4. CASE P!Broadcast
  BY <1>4 DEF P!Broadcast, P!LastN, PP!Broadcast, PP!LastN, PP!Worker
<1> QED
  BY <1>1, <1>2, <1>3, <1>4 DEF HitWorker, P!Worker

LEMMA StreamIsPipe ==
  ASSUME NEW c \in Client, StreamHits(c)
  PROVE  PP!Stream(c) /\ PP!Next
<1> USE DEF P!workerVars, PP!workerVars, P!Overrun, PP!Overrun
<1>1. CASE P!Subscribe(c)
  BY <1>1 DEF P!Subscribe, PP!Subscribe, PP!Stream, PP!Next
<1>2. CASE P!Disconnect(c)
  BY <1>2 DEF P!Disconnect, PP!Disconnect, PP!Stream, PP!Next
<1>3. CASE P!SkipLagged(c)
  BY <1>3 DEF P!SkipLagged, PP!SkipLagged, PP!Stream, PP!Next
<1>4. CASE P!Deliver(c)
  BY <1>4 DEF P!Deliver, PP!Deliver, PP!Stream, PP!Next
<1> QED
  BY <1>1, <1>2, <1>3, <1>4 DEF StreamHits, P!Stream

LEMMA NextPipe == [Next]_vars => [PP!Next]_(PP!vars)
<1> SUFFICES ASSUME [Next]_vars PROVE [PP!Next]_(PP!vars)
  OBVIOUS
<1>1. CASE UNCHANGED pipeVars
  BY <1>1, PipeStutters
<1>2. ASSUME NEW id \in Id, NEW t \in Tid, HandleEvent(id, t) PROVE PP!Next
  BY <1>2, OfferIsPipe
<1>3. CASE HitWorker
  BY <1>3, WorkerIsPipe DEF PP!Next
<1>4. CASE UNCHANGED vars
  BY <1>1, <1>4 DEF vars
<1>5. CASE Target
  BY <1>1, <1>5 DEF Target
<1>6. ASSUME NEW id \in Id, NEW t \in Tid, WatchTask(id, t) PROVE UNCHANGED pipeVars
  BY <1>6 DEF WatchTask
<1>7. ASSUME NEW r \in Request, AllocId(r) \/ Handler(r) \/ HangUp(r) \/ \E id \in Id : Remove(r, id)
      PROVE UNCHANGED pipeVars
  BY <1>7 DEF AllocId, Handler, StartWatch, CreateFails, Insert, StopBegin, StopStep, Deleted,
              HangUp, Remove
<1>8. ASSUME NEW c \in Client, StreamHits(c) PROVE PP!Next
  BY <1>8, StreamIsPipe
<1> QED
  BY <1>1, <1>2, <1>3, <1>4, <1>5, <1>6, <1>7, <1>8 DEF Next

-----------------------------------------------------------------------------
(* How a step of a watch moves its phase: what the handlers rely on        *)

\* Only the watch of id moves, and its flag does not.
OnlyPhaseOf(id) == cancel' = cancel /\ \A j \in Id : j # id => phase'[j] = phase[j]

LEMMA StartMoves ==
  ASSUME WP!TypeOK, NEW id \in Id, W!StartProcess(id)
  PROVE  /\ phase[id] \in {"idle", "scan"}
         /\ phase'[id] \in {"scan", "running", "failed"}
         /\ OnlyPhaseOf(id)
<1> USE DEF WP!TypeOK, OnlyPhaseOf, W!stopVars
<1>1. CASE W!StartFails(id)
  BY <1>1 DEF W!StartFails
<1>2. CASE W!StartScan(id)
  BY <1>2 DEF W!StartScan
<1>3. ASSUME NEW t \in Tid, W!OpenThread(id, t)
      PROVE phase[id] = "scan" /\ phase' = phase /\ cancel' = cancel
  BY <1>3 DEF W!OpenThread
<1>4. CASE W!FinishScan(id)
  BY <1>4 DEF W!FinishScan
<1> QED
  BY <1>1, <1>2, <1>3, <1>4 DEF W!StartProcess

LEMMA StopBeginMoves ==
  ASSUME WP!TypeOK, NEW id \in Id, W!StopBegin(id)
  PROVE  /\ phase[id] = "running" /\ phase'[id] = "aborting"
         /\ \A j \in Id : j # id => phase'[j] = phase[j] /\ cancel'[j] = cancel[j]
BY DEF WP!TypeOK, W!StopBegin

LEMMA StopStepMoves ==
  ASSUME WP!TypeOK, NEW id \in Id, W!StopStep(id)
  PROVE  /\ phase[id] \in {"aborting", "joining"}
         /\ phase'[id] \in {"aborting", "joining", "stopped"}
         /\ OnlyPhaseOf(id)
<1> USE DEF WP!TypeOK, OnlyPhaseOf, W!stopVars
<1>1. ASSUME NEW t \in Tid, W!AbortTask(id, t)
      PROVE /\ phase[id] = "aborting" /\ phase'[id] \in {"aborting", "joining"}
            /\ OnlyPhaseOf(id)
  BY <1>1 DEF W!AbortTask
<1>2. CASE W!Join(id)
  BY <1>2 DEF W!Join
<1> QED
  BY <1>1, <1>2 DEF W!StopStep

\* Tasks, samples and the target move no phase.
LEMMA TasksMoveNoPhase ==
  ASSUME Target \/ \E id \in Id, t \in Tid : WatchTask(id, t) \/ HandleEvent(id, t)
  PROVE  UNCHANGED <<phase, cancel, handlerVars>>
<1> USE DEF W!stopVars
<1>1. CASE Target
  BY <1>1 DEF Target, W!ThreadSpawn, W!ThreadExit, W!SeeExit, W!StaleWake, W!EnterLoop, W!Fire
<1>2. ASSUME NEW id \in Id, NEW t \in Tid, WatchTask(id, t)
      PROVE UNCHANGED <<phase, cancel, handlerVars>>
  BY <1>2 DEF WatchTask, W!TaskStep, W!Poll, W!Park, W!Readable, W!EnterLoop, W!TakeSample,
              W!CheckCancel, W!LeaveLoop, W!Cancelled, W!Drop
<1>3. ASSUME NEW id \in Id, NEW t \in Tid, HandleEvent(id, t)
      PROVE UNCHANGED <<phase, cancel, handlerVars>>
  BY <1>3 DEF HandleEvent, W!Handle
<1> QED
  BY <1>1, <1>2, <1>3

-----------------------------------------------------------------------------
(* The invariant is inductive: one lemma per action of a handler           *)

LEMMA InitHandlers == Init => HandlerInv
  BY ServerAssumption DEF ServerAssumption, Init, W!Init, HandlerInv, HandlerTypes, RequestFits, OneRequestEach,
     BreakpointFits, Id

LEMMA HandlersUnmoved ==
  ASSUME HandlerInv, UNCHANGED <<phase, cancel, handlerVars>>
  PROVE  HandlerInv'
BY DEF handlerVars, HandlerInv, HandlerTypes, RequestFits, OneRequestEach, BreakpointFits

LEMMA AllocIdStep ==
  ASSUME HandlerInv, NEW r \in Request, AllocId(r)
  PROVE  HandlerInv'
<1> USE ServerAssumption DEF ServerAssumption, Id
<1>1. /\ rpc[r] = "idle" /\ rid[r] = 0 /\ nextId \in Id /\ nextId' = nextId + 1
      /\ rpc' = [rpc EXCEPT ![r] = "starting"] /\ rid' = [rid EXCEPT ![r] = nextId]
      /\ UNCHANGED <<registry, created, deleted, phase, cancel>>
  BY DEF AllocId, Goto, watchVars, HandlerInv, HandlerTypes, RequestFits
<1>2. phase[nextId] = "idle" /\ nextId \notin created
  BY <1>1 DEF HandlerInv, HandlerTypes, BreakpointFits
<1>3. HandlerTypes'
  BY <1>1 DEF HandlerInv, HandlerTypes
<1>4. /\ rpc'[r] = "starting" /\ rid'[r] = nextId
      /\ \A q \in Request : q # r => rpc'[q] = rpc[q] /\ rid'[q] = rid[q]
  BY <1>1 DEF HandlerInv, HandlerTypes
<1>5. ASSUME NEW q \in Request PROVE RequestFits(q)'
  <2>1. CASE q = r
    BY <1>1, <1>2, <1>4, <2>1 DEF RequestFits
  <2>2. CASE q # r
    BY <1>1, <1>4, <2>2 DEF HandlerInv, HandlerTypes, RequestFits
  <2> QED
    BY <2>1, <2>2
<1>6. OneRequestEach'
  BY <1>1, <1>4 DEF HandlerInv, HandlerTypes, RequestFits, OneRequestEach
<1>7. ASSUME NEW id \in Id PROVE BreakpointFits(id)'
  <2>1. BreakpointFits(id)
    BY DEF HandlerInv
  <2>2. id \in registry => id # nextId
    BY <1>2, <2>1 DEF BreakpointFits
  <2> QED
    BY <1>1, <1>2, <1>4, <2>1, <2>2 DEF BreakpointFits, HandlerInv, HandlerTypes
<1> QED
  BY <1>3, <1>5, <1>6, <1>7 DEF HandlerInv

\* A step of the watch a request works on disturbs no other breakpoint.
LEMMA OwnWatchMoves ==
  ASSUME HandlerInv, NEW r \in Request, rpc[r] # "idle", rid[r] \notin registry,
         UNCHANGED handlerVars, OnlyPhaseOf(rid[r]),
         RequestFits(r)', BreakpointFits(rid[r])'
  PROVE  HandlerInv'
<1> DEFINE mine == rid[r]
<1>1. mine \in Id
  BY WorksOnId
<1>2. HandlerTypes' /\ OneRequestEach'
  BY DEF handlerVars, HandlerInv, HandlerTypes, OneRequestEach
<1>3. ASSUME NEW q \in Request PROVE RequestFits(q)'
  <2>1. CASE q = r
    BY <2>1
  <2>2. CASE q # r
    <3>1. rpc[q] # "idle" => rid[q] \in Id /\ rid[q] # mine
      BY <2>2, WorksOnId DEF HandlerInv, OneRequestEach, RequestFits
    <3> QED
      BY <3>1 DEF handlerVars, OnlyPhaseOf, HandlerInv, HandlerTypes, RequestFits
  <2> QED
    BY <2>1, <2>2
<1>4. ASSUME NEW id \in Id PROVE BreakpointFits(id)'
  BY DEF handlerVars, OnlyPhaseOf, HandlerInv, BreakpointFits
<1> QED
  BY <1>2, <1>3, <1>4 DEF HandlerInv

LEMMA StartWatchStep ==
  ASSUME WP!TypeOK, HandlerInv, NEW r \in Request, StartWatch(r)
  PROVE  HandlerInv'
<1>1. /\ rpc[r] = "starting" /\ rid[r] \in Id /\ rid[r] \notin created /\ rid[r] < nextId
      /\ rid[r] \notin registry /\ rid[r] \notin deleted /\ UNCHANGED handlerVars
  BY WorksOnId DEF StartWatch, HandlerInv, HandlerTypes, RequestFits
<1>2. /\ phase[rid[r]] \in {"idle", "scan"} /\ phase'[rid[r]] \in {"scan", "running", "failed"}
      /\ OnlyPhaseOf(rid[r])
  BY <1>1, StartMoves DEF StartWatch
<1>3. RequestFits(r)'
  BY <1>1, <1>2 DEF handlerVars, HandlerInv, RequestFits
<1>4. ~cancel'[rid[r]]
  BY <1>1, <1>2 DEF OnlyPhaseOf, HandlerInv, BreakpointFits
<1>5. ~(rid[r] >= nextId)
  BY <1>1 DEF HandlerInv, HandlerTypes, Id
<1>6. BreakpointFits(rid[r])'
  BY <1>1, <1>2, <1>4, <1>5 DEF handlerVars, BreakpointFits
<1> QED
  BY <1>1, <1>2, <1>3, <1>6, OwnWatchMoves

LEMMA StopStepStep ==
  ASSUME WP!TypeOK, HandlerInv, NEW r \in Request, StopStep(r)
  PROVE  HandlerInv'
<1>1. /\ rpc[r] = "stopping" /\ rid[r] \in Id /\ rid[r] < nextId /\ UNCHANGED handlerVars
  BY WorksOnId DEF StopStep, HandlerInv
<1>2. /\ phase[rid[r]] \in {"aborting", "joining"}
      /\ phase'[rid[r]] \in {"aborting", "joining", "stopped"}
      /\ OnlyPhaseOf(rid[r])
  BY <1>1, StopStepMoves DEF StopStep
<1>3. rid[r] \notin registry /\ rid[r] \notin deleted
  BY <1>1, <1>2 DEF HandlerInv, BreakpointFits
<1>4. RequestFits(r)'
  BY <1>1, <1>2 DEF handlerVars, HandlerInv, RequestFits
<1>5. ~(rid[r] >= nextId)
  BY <1>1 DEF HandlerInv, HandlerTypes, Id
<1>6. BreakpointFits(rid[r])'
  BY <1>1, <1>2, <1>3, <1>5 DEF handlerVars, BreakpointFits
<1> QED
  BY <1>1, <1>2, <1>3, <1>4, <1>6, OwnWatchMoves

\* A request that is answered leaves its breakpoint to the registry, or to nobody.
LEMMA AnswerStep ==
  ASSUME HandlerInv, NEW r \in Request,
         CreateFails(r) \/ Insert(r) \/ Deleted(r) \/ HangUp(r)
  PROVE  HandlerInv'
<1> DEFINE mine == rid[r]
<1>1. /\ rpc[r] # "idle" /\ UNCHANGED <<nextId, phase, cancel>>
      /\ rpc' = [rpc EXCEPT ![r] = "idle"] /\ rid' = [rid EXCEPT ![r] = 0]
  BY DEF CreateFails, Insert, Deleted, HangUp, Answered, Goto, watchVars
<1>2. mine \in Id /\ mine < nextId
  BY <1>1, WorksOnId
<1>3. \/ phase[mine] = "failed" /\ UNCHANGED <<registry, created, deleted>>
      \/ /\ phase[mine] = "running" /\ mine \notin created /\ UNCHANGED deleted
         /\ registry' = registry \cup {mine} /\ created' = created \cup {mine}
      \/ phase[mine] = "stopped" /\ deleted' = deleted \cup {mine} /\ mine \in created
         /\ UNCHANGED <<registry, created>>
      \/ phase[mine] = "joining" /\ UNCHANGED <<registry, created, deleted>>
  BY DEF CreateFails, Insert, Deleted, HangUp, HandlerInv, RequestFits
<1>4. HandlerTypes'
  <2>1. rpc' \in [Request -> {"idle", "starting", "removed", "stopping"}] /\ nextId' = nextId
    BY <1>1 DEF HandlerInv, HandlerTypes
  <2>2. rid' \in [Request -> 0..MaxId]
    BY <1>1, ServerAssumption DEF ServerAssumption, HandlerInv, HandlerTypes
  <2>3. registry' \subseteq created' /\ deleted' \subseteq created' /\ created' \subseteq Id
    BY <1>2, <1>3 DEF HandlerInv, HandlerTypes
  <2> QED
    BY <2>1, <2>2, <2>3 DEF HandlerInv, HandlerTypes
<1>5. /\ rpc'[r] = "idle" /\ rid'[r] = 0
      /\ \A q \in Request : q # r => rpc'[q] = rpc[q] /\ rid'[q] = rid[q]
  BY <1>1 DEF HandlerInv, HandlerTypes
<1>6. \A q \in Request : q # r /\ rpc[q] # "idle" => rid[q] # mine
  BY <1>1 DEF HandlerInv, RequestFits, OneRequestEach
<1>7. ASSUME NEW q \in Request PROVE RequestFits(q)'
  <2>1. CASE q = r
    BY <1>1, <1>5, <2>1 DEF RequestFits, HandlerInv, HandlerTypes
  <2>2. CASE q # r
    <3>1. RequestFits(q)
      BY DEF HandlerInv
    <3> QED
      BY <1>1, <1>3, <1>5, <1>6, <2>2, <3>1 DEF RequestFits
  <2> QED
    BY <2>1, <2>2
<1>8. OneRequestEach'
  BY <1>5 DEF HandlerInv, OneRequestEach
<1>9. ASSUME NEW id \in Id PROVE BreakpointFits(id)'
  <2>1. BreakpointFits(id)
    BY DEF HandlerInv
  <2>2. CASE id = mine
    <3>1. \A q \in Request : rid'[q] # mine
      BY <1>2, <1>5, <1>6 DEF HandlerInv, RequestFits, Id
    <3>2. ~(mine >= nextId)
      BY <1>2 DEF HandlerInv, HandlerTypes, Id
    <3>3. mine \notin registry
      BY <1>2, <2>1, <2>2 DEF BreakpointFits
    <3> QED
      BY <1>1, <1>3, <2>1, <2>2, <3>1, <3>2, <3>3 DEF BreakpointFits
  <2>3. CASE id # mine
    <3>1. \A q \in Request : rid'[q] = id <=> rid[q] = id
      BY <1>2, <1>5, <2>3 DEF Id
    <3>2. (id \in registry' <=> id \in registry) /\ (id \in created' <=> id \in created)
          /\ (id \in deleted' <=> id \in deleted)
      BY <1>3, <2>3
    <3> QED
      BY <1>1, <2>1, <3>1, <3>2 DEF BreakpointFits
  <2> QED
    BY <2>2, <2>3
<1> QED
  BY <1>4, <1>7, <1>8, <1>9 DEF HandlerInv

\* A DELETE takes the breakpoint from the registry: nobody else can find it any more.
LEMMA RemoveStep ==
  ASSUME HandlerInv, NEW r \in Request, NEW id \in Id, Remove(r, id)
  PROVE  HandlerInv'
<1>1. /\ rpc[r] = "idle" /\ rid[r] = 0 /\ id \in registry /\ registry' = registry \ {id}
      /\ rpc' = [rpc EXCEPT ![r] = "removed"] /\ rid' = [rid EXCEPT ![r] = id]
      /\ UNCHANGED <<nextId, created, deleted, phase, cancel>>
  BY DEF Remove, Goto, watchVars, HandlerInv, RequestFits
<1>2. /\ phase[id] = "running" /\ \A q \in Request : rid[q] # id
      /\ id \in created /\ id \in 1..MaxId /\ id < nextId
  <2>1. phase[id] = "running" /\ (\A q \in Request : rid[q] # id) /\ ~(id >= nextId)
    BY <1>1 DEF HandlerInv, BreakpointFits
  <2>2. id \in created /\ id \in 1..MaxId /\ nextId \in Nat
    BY <1>1, ServerAssumption DEF ServerAssumption, HandlerInv, HandlerTypes, Id
  <2> QED
    BY <2>1, <2>2, ServerAssumption DEF ServerAssumption
<1>3. HandlerTypes'
  <2>1. rpc' \in [Request -> {"idle", "starting", "removed", "stopping"}]
    BY <1>1 DEF HandlerInv, HandlerTypes
  <2>2. rid' \in [Request -> 0..MaxId]
    BY <1>1, <1>2, ServerAssumption DEF ServerAssumption, HandlerInv, HandlerTypes
  <2> QED
    BY <1>1, <2>1, <2>2 DEF HandlerInv, HandlerTypes
<1>4. /\ rpc'[r] = "removed" /\ rid'[r] = id
      /\ \A q \in Request : q # r => rpc'[q] = rpc[q] /\ rid'[q] = rid[q]
  BY <1>1 DEF HandlerInv, HandlerTypes
<1>5. ASSUME NEW q \in Request PROVE RequestFits(q)'
  <2>1. RequestFits(q)
    BY DEF HandlerInv
  <2>2. CASE q = r
    BY <1>1, <1>2, <1>4, <2>2 DEF RequestFits
  <2>3. CASE q # r
    BY <1>1, <1>4, <2>1, <2>3 DEF RequestFits
  <2> QED
    BY <2>2, <2>3
<1>6. OneRequestEach'
  BY <1>2, <1>4 DEF HandlerInv, OneRequestEach
<1>7. ASSUME NEW j \in Id PROVE BreakpointFits(j)'
  <2>1. BreakpointFits(j)
    BY DEF HandlerInv
  <2>2. CASE j = id
    BY <1>1, <1>4, <2>1, <2>2 DEF BreakpointFits
  <2>3. CASE j # id
    <3>1. \A q \in Request : rid'[q] = j <=> rid[q] = j
      BY <1>1, <1>4, <2>3 DEF Id
    <3> QED
      BY <1>1, <2>1, <2>3, <3>1 DEF BreakpointFits
  <2> QED
    BY <2>2, <2>3
<1> QED
  BY <1>3, <1>5, <1>6, <1>7 DEF HandlerInv

LEMMA StopBeginStep ==
  ASSUME WP!TypeOK, HandlerInv, NEW r \in Request, StopBegin(r)
  PROVE  HandlerInv'
<1> DEFINE mine == rid[r]
<1>1. /\ rpc[r] = "removed" /\ mine \in Id /\ mine < nextId /\ W!StopBegin(mine)
      /\ rpc' = [rpc EXCEPT ![r] = "stopping"] /\ rid' = [rid EXCEPT ![r] = mine]
      /\ UNCHANGED <<nextId, registry, created, deleted>>
  BY WorksOnId DEF StopBegin, Goto
<1>2. /\ phase[mine] = "running" /\ phase'[mine] = "aborting"
      /\ \A j \in Id : j # mine => phase'[j] = phase[j] /\ cancel'[j] = cancel[j]
  BY <1>1, StopBeginMoves
<1>3. mine \in created /\ mine \notin registry
  BY <1>1 DEF HandlerInv, RequestFits, BreakpointFits
<1>4. rid' = rid /\ rpc'[r] = "stopping" /\ \A q \in Request : q # r => rpc'[q] = rpc[q]
  BY <1>1 DEF HandlerInv, HandlerTypes
<1>5. HandlerTypes' /\ OneRequestEach'
  BY <1>1, <1>4 DEF HandlerInv, HandlerTypes, OneRequestEach
<1>6. ASSUME NEW q \in Request PROVE RequestFits(q)'
  <2>1. RequestFits(q)
    BY DEF HandlerInv
  <2>2. CASE q = r
    BY <1>1, <1>2, <1>3, <1>4, <2>1, <2>2 DEF RequestFits
  <2>3. CASE q # r
    <3>1. rpc[q] # "idle" => rid[q] \in Id /\ rid[q] # mine
      BY <2>3, WorksOnId DEF HandlerInv, OneRequestEach, RequestFits
    <3> QED
      BY <1>1, <1>2, <1>4, <2>1, <2>3, <3>1 DEF RequestFits
  <2> QED
    BY <2>2, <2>3
<1>7. ASSUME NEW j \in Id PROVE BreakpointFits(j)'
  <2>1. BreakpointFits(j)
    BY DEF HandlerInv
  <2>2. CASE j = mine
    <3>1. ~(mine >= nextId) /\ mine \notin deleted
      BY <1>1, <1>2, <2>1, <2>2 DEF HandlerInv, HandlerTypes, Id, BreakpointFits
    <3> QED
      BY <1>1, <1>2, <1>3, <2>2, <3>1 DEF BreakpointFits
  <2>3. CASE j # mine
    BY <1>1, <1>2, <1>4, <2>1, <2>3 DEF BreakpointFits
  <2> QED
    BY <2>2, <2>3
<1> QED
  BY <1>5, <1>6, <1>7 DEF HandlerInv

LEMMA NextHandlers == WP!TypeOK /\ HandlerInv /\ [Next]_vars => HandlerInv'
<1> SUFFICES ASSUME WP!TypeOK, HandlerInv, [Next]_vars PROVE HandlerInv'
  OBVIOUS
<1>1. ASSUME NEW r \in Request, AllocId(r) PROVE HandlerInv'
  BY <1>1, AllocIdStep
<1>2. ASSUME NEW r \in Request, Handler(r) \/ HangUp(r) PROVE HandlerInv'
  BY <1>2, StartWatchStep, StopBeginStep, StopStepStep, AnswerStep DEF Handler
<1>3. ASSUME NEW r \in Request, NEW id \in Id, Remove(r, id) PROVE HandlerInv'
  BY <1>3, RemoveStep
<1>4. CASE Target \/ \E id \in Id, t \in Tid : WatchTask(id, t) \/ HandleEvent(id, t)
  BY <1>4, TasksMoveNoPhase, HandlersUnmoved
<1>5. CASE HitWorker \/ \E c \in Client : StreamHits(c)
  BY <1>5, HandlersUnmoved DEF HitWorker, StreamHits, watchVars
<1>6. CASE UNCHANGED vars
  BY <1>6, HandlersUnmoved DEF vars, watchVars
<1> QED
  BY <1>1, <1>2, <1>3, <1>4, <1>5, <1>6 DEF Next

-----------------------------------------------------------------------------
(* Whose samples are on their way                                          *)

Installed(x) == phase[x.bp] \notin {"idle", "scan", "failed"}

Attributed ==
  /\ \A i \in 1..Len(queue) : Installed(queue[i])
  /\ pc \in {"make", "push", "send"} => Installed(hit.sample)
  /\ \A i \in 1..Len(hitBuffer) : Installed(hitBuffer[i].sample)
  /\ \A i \in 1..Len(ring) : Installed(ring[i].sample)

LEMMA InitAttributed == Init => Attributed
  BY DEF Init, P!Init, Attributed

\* A breakpoint that was installed once never looks like one that was not.
LEMMA InstalledStays ==
  ASSUME WP!TypeOK, HandlerInv, [Next]_vars, NEW id \in Id,
         phase[id] \notin {"idle", "scan", "failed"}
  PROVE  phase'[id] \notin {"idle", "scan", "failed"}
<1> DEFINE Stays == phase'[id] \notin {"idle", "scan", "failed"}
<1>1. ASSUME NEW r \in Request, StartWatch(r) PROVE Stays
  BY <1>1, WorksOnId, StartMoves DEF StartWatch, OnlyPhaseOf
<1>2. ASSUME NEW r \in Request, StopBegin(r) PROVE Stays
  BY <1>2, WorksOnId, StopBeginMoves DEF StopBegin
<1>3. ASSUME NEW r \in Request, StopStep(r) PROVE Stays
  BY <1>3, WorksOnId, StopStepMoves DEF StopStep, OnlyPhaseOf
<1>4. CASE phase' = phase
  BY <1>4
<1>5. CASE Target \/ \E i \in Id, t \in Tid : WatchTask(i, t) \/ HandleEvent(i, t)
  BY <1>4, <1>5, TasksMoveNoPhase
<1>6. CASE HitWorker \/ (\E c \in Client : StreamHits(c)) \/ UNCHANGED vars
  BY <1>4, <1>6 DEF HitWorker, StreamHits, vars, watchVars
<1>7. ASSUME NEW r \in Request,
             AllocId(r) \/ CreateFails(r) \/ Insert(r) \/ Deleted(r) \/ HangUp(r)
             \/ \E i \in Id : Remove(r, i)
      PROVE Stays
  BY <1>4, <1>7 DEF AllocId, CreateFails, Insert, Deleted, HangUp, Remove, watchVars
<1> QED
  BY <1>1, <1>2, <1>3, <1>5, <1>6, <1>7 DEF Next, Handler

\* Every sample, in the queue, in the worker's hands, in the buffer or in the channel, names an id.
LEMMA SamplesNameIds ==
  ASSUME PP!TypeOK
  PROVE  /\ \A i \in 1..Len(queue) : queue[i].bp \in Id
         /\ pc \in {"make", "push", "send"} => hit.sample.bp \in Id
         /\ \A i \in 1..Len(hitBuffer) : hitBuffer[i].sample.bp \in Id
         /\ \A i \in 1..Len(ring) : ring[i].sample.bp \in Id
<1>1. queue \in Seq(Sample) /\ hitBuffer \in Seq(PP!Hit) /\ ring \in Seq(PP!Hit)
  BY DEF PP!TypeOK
<1>2. \A i \in 1..Len(queue) : queue[i] \in Sample
  BY <1>1, ElementOfSeq
<1>3. /\ \A i \in 1..Len(hitBuffer) : hitBuffer[i] \in PP!Hit
      /\ \A i \in 1..Len(ring) : ring[i] \in PP!Hit
  BY <1>1, ElementOfSeq
<1>4. pc \in {"make", "push", "send"} => hit \in PP!Hit
  BY DEF PP!TypeOK
<1> QED
  BY <1>2, <1>3, <1>4 DEF PP!Hit, Sample

\* A task that hands a sample over belongs to a watch that came through start_watch.
LEMMA OfferStep ==
  ASSUME WP!Fits, PP!TypeOK, Attributed,
         NEW id \in Id, NEW t \in Tid, HandleEvent(id, t)
  PROVE  Attributed'
<1> DEFINE x == [bp |-> id, tid |-> t]
<1>1. x \in Sample /\ x.bp = id /\ queue \in Seq(Sample) /\ Len(queue) \in Nat
  BY LenProperties DEF Sample, PP!TypeOK
<1>2. task[id][t] = "handle" /\ phase' = phase
  BY DEF HandleEvent, W!Handle
<1>3. Installed(x) /\ Installed(x)'
  BY <1>1, <1>2 DEF WP!Fits, WP!TasksFitPhase, Installed
<1>4. UNCHANGED <<pc, hit, hitBuffer, ring>> /\ (queue' = queue \/ queue' = Append(queue, x))
  BY DEF HandleEvent, P!TrySend, P!workerVars
<1>5. ASSUME NEW i \in 1..Len(queue') PROVE Installed(queue[i])'
  <2>1. CASE queue' = queue
    BY <1>2, <2>1 DEF Attributed, Installed
  <2>2. CASE queue' = Append(queue, x)
    <3>1. /\ Len(queue') = Len(queue) + 1 /\ queue'[Len(queue) + 1] = x
          /\ \A j \in 1..Len(queue) : queue'[j] = queue[j]
      BY <1>1, <2>2, AppendProperties
    <3>2. CASE i = Len(queue) + 1
      BY <1>2, <1>3, <3>1, <3>2 DEF Installed
    <3>3. CASE i \in 1..Len(queue)
      BY <1>2, <3>1, <3>3 DEF Attributed, Installed
    <3> QED
      BY <1>1, <3>1, <3>2, <3>3
  <2> QED
    BY <1>4, <2>1, <2>2
<1> QED
  BY <1>2, <1>4, <1>5 DEF Attributed, Installed

LEMMA WorkerStep ==
  ASSUME PP!TypeOK, PP!BufferIsTail, Attributed, HitWorker
  PROVE  Attributed'
<1>0. PP!Worker /\ phase' = phase
  BY WorkerIsPipe DEF HitWorker, watchVars
<1>1. CASE PP!Recv
  <2>1. queue \in Seq(Sample) /\ queue # <<>> /\ Len(queue) \in Nat
    BY <1>1, LenProperties DEF PP!TypeOK, PP!Recv
  <2>2. /\ Head(queue) = queue[1] /\ Len(queue) >= 1 /\ Len(Tail(queue)) = Len(queue) - 1
        /\ \A i \in 1..Len(Tail(queue)) : Tail(queue)[i] = queue[i + 1]
    BY <2>1, HeadTailProperties
  <2>3. queue' = Tail(queue) /\ hit'.sample = queue[1] /\ hitBuffer' = hitBuffer /\ ring' = ring
    BY <1>1, <2>2 DEF PP!Recv
  <2>4. Installed(hit.sample)'
    BY <1>0, <2>1, <2>2, <2>3 DEF Attributed, Installed
  <2>5. ASSUME NEW i \in 1..Len(queue') PROVE Installed(queue[i])'
    BY <1>0, <2>1, <2>2, <2>3 DEF Attributed, Installed
  <2> QED
    BY <1>0, <2>3, <2>4, <2>5 DEF Attributed, Installed
<1>2. CASE PP!MakeHit
  <2>1. hit \in PP!Hit
    BY <1>2 DEF PP!TypeOK, PP!MakeHit
  <2>2. hit'.sample = hit.sample
    BY <1>2, <2>1 DEF PP!MakeHit, PP!Hit
  <2> QED
    BY <1>0, <1>2, <2>2 DEF PP!MakeHit, Attributed, Installed
<1>3. CASE PP!PushHit
  <2> DEFINE b == PP!Retain(hitBuffer, hit)
  <2>1. /\ hitBuffer \in Seq(PP!Hit) /\ Len(hitBuffer) \in Nat /\ hit \in PP!Hit
        /\ nextSeq \in Nat /\ nextSeq > 0
        /\ Installed(hit.sample)
    BY <1>3, LenProperties DEF PP!TypeOK, PP!PushHit, Attributed
  <2>2. Len(hitBuffer) <= HitLimit
    BY <1>3, <2>1, ServerAssumption DEF ServerAssumption, PP!BufferIsTail, PP!Pushed, PP!PushHit
  <2>3. /\ b \in Seq(PP!Hit)
        /\ Len(b) = IF Len(hitBuffer) < HitLimit THEN Len(hitBuffer) + 1 ELSE HitLimit
        /\ HitLimit > 0 => b[Len(b)] = hit
        /\ \A i \in 1..Len(b) - 1 : b[i] = hitBuffer[Len(hitBuffer) - (Len(b) - 1) + i]
    BY <2>1, <2>2, PP!RetainProperties, ServerAssumption DEF ServerAssumption
  <2>4. hitBuffer' = b /\ UNCHANGED <<queue, hit>>
    BY <1>3 DEF PP!PushHit
  <2> HIDE DEF b
  <2>5. ASSUME NEW i \in 1..Len(b) PROVE Installed(b[i].sample)
    <3>1. CASE i = Len(b)
      BY <2>1, <2>2, <2>3, <3>1, ServerAssumption DEF ServerAssumption
    <3>2. CASE i # Len(b)
      <4> DEFINE j == Len(hitBuffer) - (Len(b) - 1) + i
      <4>1. i \in 1..Len(b) - 1 /\ j \in 1..Len(hitBuffer)
        BY <2>1, <2>2, <2>3, <3>2, ServerAssumption DEF ServerAssumption
      <4> QED
        BY <2>3, <4>1 DEF Attributed
    <3> QED
      BY <3>1, <3>2
  <2> QED
    BY <1>0, <1>3, <2>4, <2>5 DEF PP!PushHit, Attributed, Installed
<1>4. CASE PP!Broadcast
  <2>1. hit \in PP!Hit /\ ring \in Seq(PP!Hit) /\ Installed(hit.sample)
    BY <1>4 DEF PP!TypeOK, PP!Broadcast, Attributed
  <2>2. ASSUME NEW i \in 1..Len(ring') PROVE ring'[i] = hit \/ \E j \in 1..Len(ring) : ring'[i] = ring[j]
    <3>1. CASE ring' = ring
      BY <3>1
    <3>2. CASE ring' = PP!LastN(Append(ring, hit), BroadcastCap)
      <4> DEFINE a == Append(ring, hit)
      <4>1. /\ a \in Seq(PP!Hit) /\ Len(a) = Len(ring) + 1 /\ Len(ring) \in Nat
            /\ a[Len(ring) + 1] = hit /\ \A j \in 1..Len(ring) : a[j] = ring[j]
        BY <2>1, AppendProperties, LenProperties
      <4> HIDE DEF a
      <4>2. \E j \in 1..Len(a) : ring'[i] = a[j]
        <5> DEFINE kept == PP!LastN(a, BroadcastCap)
        <5>1. BroadcastCap \in Nat
          BY ServerAssumption DEF ServerAssumption
        <5>2. /\ Len(kept) = IF BroadcastCap < Len(a) THEN BroadcastCap ELSE Len(a)
              /\ \A m \in 1..Len(kept) : kept[m] = a[Len(a) - Len(kept) + m]
          BY <4>1, <5>1, PP!LastNProperties, ServerAssumption DEF ServerAssumption
        <5>3. ring' = kept
          BY <3>2 DEF a
        <5> HIDE DEF kept
        <5>4. Len(a) - Len(kept) + i \in 1..Len(a) /\ kept[i] = a[Len(a) - Len(kept) + i]
          <6>1. Len(a) \in Nat /\ i \in 1..Len(kept)
            BY <4>1, <5>3
          <6>2. Len(a) - Len(kept) + i \in 1..Len(a)
            BY <5>1, <5>2, <6>1
          <6> QED
            BY <5>2, <6>1, <6>2
        <5> QED
          BY <5>3, <5>4
      <4> QED
        BY <4>1, <4>2
    <3> QED
      BY <1>4, <3>1, <3>2 DEF PP!Broadcast
  <2>3. \A i \in 1..Len(ring') : Installed(ring[i].sample)'
    BY <1>0, <2>1, <2>2 DEF Attributed, Installed
  <2> QED
    BY <1>0, <1>4, <2>3 DEF PP!Broadcast, Attributed, Installed
<1> QED
  BY <1>0, <1>1, <1>2, <1>3, <1>4 DEF PP!Worker

LEMMA NextAttributed ==
  ASSUME WP!TypeOK, WP!Fits, HandlerInv, PP!TypeOK, PP!BufferIsTail, Attributed, [Next]_vars
  PROVE  Attributed'
<1>1. CASE UNCHANGED pipeVars
  <2>1. \A id \in Id : phase[id] \notin {"idle", "scan", "failed"} =>
                       phase'[id] \notin {"idle", "scan", "failed"}
    BY InstalledStays
  <2>2. UNCHANGED <<queue, pc, hit, hitBuffer, ring>>
    BY <1>1 DEF pipeVars
  <2> QED
    BY <2>1, <2>2, SamplesNameIds DEF Attributed, Installed
<1>2. ASSUME NEW id \in Id, NEW t \in Tid, HandleEvent(id, t) PROVE Attributed'
  BY <1>2, OfferStep
<1>3. CASE HitWorker
  BY <1>3, WorkerStep
<1>4. CASE UNCHANGED vars
  BY <1>1, <1>4 DEF vars
<1>5. CASE Target
  BY <1>1, <1>5 DEF Target
<1>6. ASSUME NEW id \in Id, NEW t \in Tid, WatchTask(id, t) PROVE UNCHANGED pipeVars
  BY <1>6 DEF WatchTask
<1>7. ASSUME NEW r \in Request, AllocId(r) \/ Handler(r) \/ HangUp(r) \/ \E id \in Id : Remove(r, id)
      PROVE UNCHANGED pipeVars
  BY <1>7 DEF AllocId, Handler, StartWatch, CreateFails, Insert, StopBegin, StopStep, Deleted,
              HangUp, Remove
<1>8. ASSUME NEW c \in Client, StreamHits(c) PROVE Attributed'
  <2>1. UNCHANGED <<queue, pc, hit, hitBuffer, ring, phase>>
    BY <1>8, StreamIsPipe
    DEF StreamHits, watchVars, PP!Stream, PP!Subscribe, PP!Disconnect, PP!SkipLagged, PP!Deliver,
        PP!workerVars
  <2> QED
    BY <2>1 DEF Attributed, Installed
<1> QED
  BY <1>1, <1>2, <1>3, <1>4, <1>5, <1>6, <1>7, <1>8 DEF Next

-----------------------------------------------------------------------------
(* The theorems                                                            *)

WatchInv == WP!TypeOK /\ WP!Fits /\ WP!LateIsOver
PipeInv == PP!TypeOK /\ PP!Counted /\ PP!BufferIsTail /\ PP!StreamInv

ServerInv == WatchInv /\ PipeInv /\ HandlerInv /\ Attributed

LEMMA InitServer == Init => ServerInv
<1> SUFFICES ASSUME Init PROVE ServerInv
  OBVIOUS
<1> USE ServerAssumption DEF ServerAssumption
<1>1. WatchInv
  BY InitWatch, WP!InitTypeOK, WP!InitFits, WP!InitLate DEF WatchInv
<1>2. PipeInv
  BY InitPipe, PP!InitTypeOK, PP!InitAccounting, PP!InitBufferIsTail, PP!InitStreamInv DEF PipeInv
<1> QED
  BY <1>1, <1>2, InitHandlers, InitAttributed DEF ServerInv

LEMMA NextServer == ServerInv /\ [Next]_vars => ServerInv'
<1> SUFFICES ASSUME ServerInv, [Next]_vars PROVE ServerInv'
  OBVIOUS
<1>1. [WP!Next]_(WP!vars)
  BY NextWatch DEF ServerInv
<1>2. WatchInv'
  BY <1>1, WP!NextTypeOK, WP!NextFits, WP!NextLate, ServerAssumption
  DEF ServerAssumption, ServerInv, WatchInv
<1>3. [PP!Next]_(PP!vars)
  BY NextPipe
<1>4. PipeInv'
  BY <1>3, PP!NextTypeOK, PP!NextAccounting, PP!NextBufferIsTail, PP!NextStreamInv, ServerAssumption
  DEF ServerAssumption, ServerInv, PipeInv
<1>5. HandlerInv'
  BY NextHandlers DEF ServerInv, WatchInv
<1>6. Attributed'
  BY NextAttributed DEF ServerInv, WatchInv, PipeInv
<1> QED
  BY <1>2, <1>4, <1>5, <1>6 DEF ServerInv

LEMMA ServerInvariance == Spec => []ServerInv
  BY InitServer, NextServer, PTL DEF Spec

\* Inside the server every watch behaves as one of Watch.tla, whatever the requests do: each step of a
\* handler, a task or the target is a step of the watches or leaves them alone.
THEOREM ServerRunsWatches == Spec => WP!Init /\ [][WP!Next]_(WP!vars)
<1>1. ServerInv => HandlerInv
  BY DEF ServerInv
<1> QED
  BY <1>1, InitWatch, NextWatch, ServerInvariance, PTL DEF Spec

\* Likewise, what the watches feed is the pipeline of HitPipeline.tla: one try_send per
\* sample that a closure hands over, and nobody else at its queue (server.rs:252-263).
THEOREM ServerRunsPipeline == Spec => PP!Init /\ [][PP!Next]_(PP!vars)
  BY InitPipe, NextPipe, PTL DEF Spec

\* What Watch.tla promises of every watch holds of the watches of a server.
THEOREM ServerKeepsWatchPromises == Spec => [](W!EventsHaveReaders /\ W!AtMostOneLate)
<1>1. ServerInv => WP!EventsHaveReaders /\ WP!LateIsOver
  BY DEF ServerInv, WatchInv, WP!Fits
<1>2. WP!EventsHaveReaders => W!EventsHaveReaders
  BY DEF WP!EventsHaveReaders, WP!Live, W!EventsHaveReaders, W!Live
<1>3. WP!LateIsOver => W!AtMostOneLate
  BY DEF WP!LateIsOver, W!AtMostOneLate
<1> QED
  BY <1>1, <1>2, <1>3, ServerInvariance, PTL

\* What HitPipeline.tla promises holds of the hits of all breakpoints together, and of every
\* stream of them, while handlers, tasks and browsers come and go.
THEOREM ServerKeepsPipelinePromises ==
  Spec => [](PP!Accounting /\ PP!HitsShownAreTheLast /\ PP!StreamFaithful /\ PP!StreamNeverAhead)
<1>1. ASSUME ServerInv
      PROVE  PP!Accounting /\ PP!HitsShownAreTheLast /\ PP!StreamFaithful /\ PP!StreamNeverAhead
  BY <1>1, PP!ShownFromBuffer, PP!FaithfulStreams, PP!StreamsBehind, ServerAssumption
  DEF ServerAssumption, ServerInv, PipeInv, PP!Accounting
<1> QED
  BY <1>1, ServerInvariance, PTL

\* No watch runs that no DELETE can reach, none is stopped while it is listed, and no two
\* requests stop the same one (server.rs:252-289, 316-331), for any number of requests.
THEOREM NoWatchIsOrphaned == Spec => []NoOrphanWatch
<1>1. ASSUME HandlerInv, NEW id \in Id
      PROVE  /\ id \in registry => phase[id] = "running" /\ ~cancel[id] /\ Holders(id) = {}
             /\ phase[id] \in {"scan", "running"} /\ id \notin registry => Cardinality(Holders(id)) = 1
             /\ phase[id] \in {"aborting", "joining"} => Cardinality(Holders(id)) <= 1
  <2>1. BreakpointFits(id)
    BY <1>1 DEF HandlerInv
  <2>2. \A r1, r2 \in Holders(id) : r1 = r2
    BY <1>1 DEF HandlerInv, OneRequestEach, Holders, Id
  <2>3. Holders(id) = {} \/ \E r \in Request : Holders(id) = {r}
    BY <2>2 DEF Holders
  <2>4. Holders(id) # {} => Cardinality(Holders(id)) = 1
    BY <2>3, FS_Singleton
  <2>5. Holders(id) = {} => Cardinality(Holders(id)) = 0
    BY FS_EmptySet
  <2> QED
    BY <2>1, <2>4, <2>5 DEF BreakpointFits, Holders
<1>2. HandlerInv => NoOrphanWatch
  BY <1>1 DEF NoOrphanWatch
<1>3. ServerInv => HandlerInv
  BY DEF ServerInv
<1> QED
  BY <1>2, <1>3, ServerInvariance, PTL

\* An id is given once, to one start_watch, also when creates race (server.rs:232-235,
\* 277-289).
THEOREM IdsAreGivenOnce == Spec => []IdsAreUnique
<1>1. ASSUME HandlerInv, NEW id \in Id, phase[id] # "idle" \/ id \in created
      PROVE  id < nextId
  <2>1. ~(id >= nextId)
    BY <1>1 DEF HandlerInv, BreakpointFits
  <2> QED
    BY <1>1, <2>1 DEF HandlerInv, HandlerTypes, Id
<1>2. HandlerInv => IdsAreUnique
  BY <1>1 DEF IdsAreUnique, HandlerInv, HandlerTypes, OneRequestEach
<1>3. ServerInv => HandlerInv
  BY DEF ServerInv
<1> QED
  BY <1>2, <1>3, ServerInvariance, PTL

\* Every sample on its way and every hit that is kept or streamed came from a breakpoint that was installed
\* (server.rs:252-263).
THEOREM HitsNameTheirBreakpoint == Spec => []HitsAreAttributed
<1>1. ServerInv => HitsAreAttributed
  BY DEF ServerInv, Attributed, Installed, HitsAreAttributed, Samples
<1> QED
  BY <1>1, ServerInvariance, PTL

\* After the 204 of a DELETE no task of the breakpoint moves, so none of its samples enters the
\* queue any more (server.rs:330-333).
THEOREM DeletedIsQuiet == Spec => QuietAfterDelete
<1> DEFINE Quiet == \A id \in deleted : \A t \in Tid :
                      task[id][t] \in {"none", "ended"} /\ task'[id][t] = task[id][t]
<1>1. ASSUME ServerInv, [Next]_vars PROVE Quiet
  <2>1. WP!TypeOK /\ WP!Fits /\ HandlerInv /\ [WP!Next]_(WP!vars)
    BY <1>1, NextWatch DEF ServerInv, WatchInv
  <2> SUFFICES ASSUME NEW id \in deleted
               PROVE  \A t \in Tid : task[id][t] \in {"none", "ended"} /\ task'[id][t] = task[id][t]
    OBVIOUS
  <2>2. id \in Id /\ phase[id] = "stopped"
    BY <2>1 DEF HandlerInv, HandlerTypes, BreakpointFits
  <2>3. task'[id] = task[id]
    BY <2>1, <2>2, WP!StoppedStays, ServerAssumption DEF ServerAssumption
  <2>4. \A t \in Tid : task[id][t] \in {"none", "ended"}
    BY <2>1, <2>2 DEF WP!Fits, WP!TasksFitPhase, WP!Live
  <2> QED
    BY <2>3, <2>4
<1>2. ServerInv /\ [Next]_vars => [Quiet]_vars
  BY <1>1
<1> QED
  BY <1>2, ServerInvariance, PTL DEF Spec, QuietAfterDelete

-----------------------------------------------------------------------------
(* GET /processes, ProcessList.tla: the sort                               *)

\* The entries that are not behind entry i.
UpTo(s, i) ==
  {j \in 1..Len(s) : s[j].pid < s[i].pid \/ (s[j].pid = s[i].pid /\ j <= i)}

Pids(s) == Len(s) \in Nat /\ \A i \in 1..Len(s) : s[i].pid \in Nat

\* Places keep the order of pids.
LEMMA PlaceGrows ==
  ASSUME NEW s, Pids(s), NEW i \in 1..Len(s), NEW j \in 1..Len(s),
         s[i].pid < s[j].pid \/ (s[i].pid = s[j].pid /\ i < j)
  PROVE  Place(s, i) < Place(s, j)
<1>1. IsFiniteSet(1..Len(s)) /\ UpTo(s, j) \in SUBSET (1..Len(s))
  <2>1. Len(s) \in Int /\ 1 \in Int
    BY DEF Pids
  <2>2. IsFiniteSet(1..Len(s))
    BY <2>1, FS_Interval
  <2>3. UpTo(s, j) \in SUBSET (1..Len(s))
    BY DEF UpTo
  <2> QED
    BY <2>2, <2>3
<1>2. IsFiniteSet(UpTo(s, j))
  BY <1>1, FS_Subset
<1>3. UpTo(s, i) \in SUBSET UpTo(s, j)
  BY DEF UpTo, Pids
<1>4. j \in UpTo(s, j) /\ j \notin UpTo(s, i)
  BY DEF UpTo, Pids
<1>5. /\ Cardinality(UpTo(s, i)) <= Cardinality(UpTo(s, j))
      /\ Cardinality(UpTo(s, i)) # Cardinality(UpTo(s, j))
  BY <1>2, <1>3, <1>4, FS_Subset
<1>6. Cardinality(UpTo(s, i)) \in Nat /\ Cardinality(UpTo(s, j)) \in Nat
  BY <1>2, <1>3, FS_Subset, FS_CardinalityType
<1> QED
  BY <1>5, <1>6 DEF Place, UpTo

LEMMA PlaceType ==
  ASSUME NEW s, Pids(s), NEW i \in 1..Len(s)
  PROVE  Place(s, i) \in 1..Len(s)
<1>1. IsFiniteSet(1..Len(s)) /\ Cardinality(1..Len(s)) = Len(s)
  <2> DEFINE n == Len(s)
  <2>1. n \in Int /\ n \in Nat /\ 1 \in Int
    BY DEF Pids
  <2> HIDE DEF n
  <2>2. IsFiniteSet(1..n) /\ Cardinality(1..n) = IF 1 > n THEN 0 ELSE n - 1 + 1
    BY <2>1, FS_Interval, Zenon
  <2> QED
    BY <2>1, <2>2 DEF n
<1>2. UpTo(s, i) \in SUBSET (1..Len(s)) /\ i \in UpTo(s, i)
  BY DEF UpTo, Pids
<1>3. IsFiniteSet(UpTo(s, i)) /\ Cardinality(UpTo(s, i)) <= Len(s)
  BY <1>1, <1>2, FS_Subset
<1>4. Cardinality(UpTo(s, i)) \in Nat /\ Cardinality(UpTo(s, i)) # 0
  BY <1>2, <1>3, FS_EmptySet, FS_CardinalityType
<1> QED
  BY <1>3, <1>4 DEF Place, UpTo, Pids

\* No two entries have the same place, so there is one for every place.
LEMMA EveryPlaceTaken ==
  ASSUME NEW s, Pids(s)
  PROVE  \A k \in 1..Len(s) : \E i \in 1..Len(s) : Place(s, i) = k
<1> DEFINE D == 1..Len(s)
           f == [i \in D |-> Place(s, i)]
<1>1. f \in [D -> D]
  BY PlaceType
<1>2. ASSUME NEW i \in D, NEW j \in D, f[i] = f[j] PROVE i = j
  <2>1. Place(s, i) = Place(s, j)
    BY <1>2
  <2>2. /\ ~(s[i].pid < s[j].pid \/ (s[i].pid = s[j].pid /\ i < j))
        /\ ~(s[j].pid < s[i].pid \/ (s[j].pid = s[i].pid /\ j < i))
    BY <2>1, PlaceGrows, PlaceType
  <2> QED
    BY <2>2 DEF Pids
<1>3. IsFiniteSet(D)
  <2>1. Len(s) \in Int /\ 1 \in Int
    BY DEF Pids
  <2> QED
    BY <2>1, FS_Interval
<1> HIDE DEF f, D
<1>4. f \in Injection(D, D)
  BY <1>1, <1>2 DEF Injection, IsInjective
<1>5. f \in Surjection(D, D)
  BY <1>3, <1>4, FS_Injection
<1>6. \A k \in D : \E i \in D : f[i] = k
  BY <1>5 DEF Surjection
<1> QED
  BY <1>6 DEF f, D

\* sort_by_key: the same entries, in the order of their pids.
LEMMA SortedProperties ==
  ASSUME NEW s \in Seq(View), Pids(s)
  PROVE  /\ SortedByPid(s) \in Seq(View) /\ Len(SortedByPid(s)) = Len(s)
         /\ \A k \in 1..Len(s) : \E i \in 1..Len(s) : SortedByPid(s)[k] = s[i] /\ Place(s, i) = k
         /\ \A i \in 1..Len(s) : SortedByPid(s)[Place(s, i)] = s[i]
<1> DEFINE which(k) == CHOOSE i \in 1..Len(s) : Place(s, i) = k
<1>1. \A k \in 1..Len(s) : which(k) \in 1..Len(s) /\ Place(s, which(k)) = k
  BY EveryPlaceTaken
<1>2. \A k \in 1..Len(s) : SortedByPid(s)[k] = s[which(k)]
  BY DEF SortedByPid
<1>3. \A i \in 1..Len(s) : which(Place(s, i)) = i
  <2> SUFFICES ASSUME NEW i \in 1..Len(s) PROVE which(Place(s, i)) = i
    OBVIOUS
  <2>1. Place(s, i) \in 1..Len(s)
    BY PlaceType
  <2> DEFINE j == which(Place(s, i))
  <2>2. j \in 1..Len(s) /\ Place(s, j) = Place(s, i)
    BY <1>1, <2>1
  <2> HIDE DEF j
  <2>3. /\ ~(s[i].pid < s[j].pid \/ (s[i].pid = s[j].pid /\ i < j))
        /\ ~(s[j].pid < s[i].pid \/ (s[j].pid = s[i].pid /\ j < i))
    BY <2>2, PlaceGrows, PlaceType
  <2>4. i = j
    BY <2>2, <2>3 DEF Pids
  <2> QED
    BY <2>4 DEF j
<1>4. SortedByPid(s) = [k \in 1..Len(s) |-> s[which(k)]]
  BY DEF SortedByPid
<1> HIDE DEF which
<1>5. SortedByPid(s) \in Seq(View) /\ Len(SortedByPid(s)) = Len(s)
  BY <1>1, <1>4 DEF Pids
<1> QED
  BY <1>1, <1>2, <1>3, <1>5, PlaceType

\* The cut answer: no longer than n, sorted, and what is not in it has a pid behind all
\* that is, of which there are n.
LEMMA CutProperties ==
  ASSUME NEW s \in Seq(View), NEW n \in Nat,
         \A i, j \in 1..Len(s) : i # j => s[i].pid # s[j].pid
  PROVE  /\ Cut(s, n) \in Seq(View) /\ Len(Cut(s, n)) <= n
         /\ \A k, m \in 1..Len(Cut(s, n)) : k < m => Cut(s, n)[k].pid < Cut(s, n)[m].pid
         /\ \A i \in 1..Len(s) :
              \/ \E k \in 1..Len(Cut(s, n)) : Cut(s, n)[k] = s[i]
              \/ Len(Cut(s, n)) = n /\ \A k \in 1..Len(Cut(s, n)) : Cut(s, n)[k].pid < s[i].pid
<1> DEFINE t == SortedByPid(s)
           c == Cut(s, n)
<1>1. Pids(s)
  <2>1. \A i \in 1..Len(s) : s[i] \in View
    OBVIOUS
  <2>2. \A v \in View : v.pid \in Nat
    BY ListAssumption DEF ListAssumption, View, Pid
  <2> QED
    BY <2>1, <2>2 DEF Pids
<1>2. /\ t \in Seq(View) /\ Len(t) = Len(s) /\ Len(s) \in Nat
      /\ \A k \in 1..Len(s) : \E i \in 1..Len(s) : t[k] = s[i] /\ Place(s, i) = k
      /\ \A i \in 1..Len(s) : t[Place(s, i)] = s[i]
  <2>1. Len(s) \in Nat
    OBVIOUS
  <2> QED
    BY <1>1, <2>1, SortedProperties
<1>3. /\ Kept(s, n) \in 0..Len(s) /\ Kept(s, n) <= n
      /\ Kept(s, n) # Len(s) => Kept(s, n) = n
  BY <1>2 DEF Kept
<1> HIDE DEF t
<1>4. c \in Seq(View) /\ Len(c) = Kept(s, n) /\ \A k \in 1..Kept(s, n) : c[k] = t[k]
  <2>1. c = SubSeq(t, 1, Kept(s, n))
    BY DEF Cut, t
  <2>2. \A k \in 1..Kept(s, n) : t[k] \in View
    BY <1>2, <1>3
  <2> DEFINE last == Kept(s, n)
  <2>3. last \in Int /\ last >= 0
    BY <1>2, <1>3
  <2> HIDE DEF last, c
  <2>4. /\ SubSeq(t, 1, last) \in Seq(View)
        /\ Len(SubSeq(t, 1, last)) = last
        /\ \A k \in 1..last : SubSeq(t, 1, last)[k] = t[k]
    BY <2>2, <2>3, SubSeqProperties DEF last
  <2> QED
    BY <2>1, <2>4 DEF last
<1> HIDE DEF c
<1>5. ASSUME NEW k \in 1..Len(s), NEW m \in 1..Len(s), k < m PROVE t[k].pid < t[m].pid
  <2>1. PICK i \in 1..Len(s) : t[k] = s[i] /\ Place(s, i) = k
    BY <1>2
  <2>2. PICK j \in 1..Len(s) : t[m] = s[j] /\ Place(s, j) = m
    BY <1>2
  <2>3. s[i].pid \in Nat /\ s[j].pid \in Nat /\ i # j
    BY <1>1, <1>5, <2>1, <2>2 DEF Pids
  <2>4. ~(s[j].pid < s[i].pid)
    BY <1>1, <1>5, <2>1, <2>2, PlaceGrows
  <2>5. s[i].pid # s[j].pid
    BY <2>3
  <2> QED
    BY <2>1, <2>2, <2>3, <2>4, <2>5
<1>6. ASSUME NEW k \in 1..Len(c), NEW m \in 1..Len(c), k < m PROVE c[k].pid < c[m].pid
  <2>1. k \in 1..Len(s) /\ m \in 1..Len(s) /\ c[k] = t[k] /\ c[m] = t[m]
    BY <1>2, <1>3, <1>4
  <2> QED
    BY <1>5, <1>6, <2>1
<1>7. ASSUME NEW i \in 1..Len(s)
      PROVE  \/ \E k \in 1..Len(c) : c[k] = s[i]
             \/ Len(c) = n /\ \A k \in 1..Len(c) : c[k].pid < s[i].pid
  <2>1. Place(s, i) \in 1..Len(s) /\ t[Place(s, i)] = s[i]
    BY <1>1, <1>2, PlaceType
  <2>2. CASE Place(s, i) <= Kept(s, n)
    BY <1>3, <1>4, <2>1, <2>2
  <2>3. CASE Place(s, i) > Kept(s, n)
    <3>1. Len(c) = n
      BY <1>2, <1>3, <1>4, <2>1, <2>3
    <3>2. ASSUME NEW k \in 1..Len(c) PROVE c[k].pid < s[i].pid
      <4>1. Len(s) \in Nat /\ Len(c) = Kept(s, n) /\ k \in 1..Kept(s, n)
        BY <1>2, <1>4
      <4>2. k \in 1..Len(s) /\ k < Place(s, i)
        BY <1>3, <4>1, <2>1, <2>3
      <4>3. c[k] = t[k]
        BY <1>4, <4>1
      <4> QED
        BY <1>5, <2>1, <4>2, <4>3
    <3> QED
      BY <3>1, <3>2
  <2> QED
    BY <1>3, <1>2, <2>1, <2>2, <2>3
<1> QED
  BY <1>3, <1>4, <1>6, <1>7 DEF c
-----------------------------------------------------------------------------
(* The walk over /proc                                                     *)

Reading == at \in {"status", "comm", "cmdline", "keep"}

\* No pid is given twice: what was found, what is being read and what is still to come
\* are of different processes.
OnceEach ==
  /\ \A i, j \in 1..Len(found) : i # j => found[i].pid # found[j].pid
  /\ \A i \in 1..Len(found) : found[i].pid \notin todo /\ (Reading => found[i].pid # view.pid)
  /\ Reading => view.pid \notin todo
  /\ at = "idle" => found = <<>>

\* What has been read of a process that stays is its own.
ReadSoFar(p) ==
  /\ Reading /\ view.pid = p
  /\ at \in {"comm", "cmdline", "keep"} => view.status = proc[p]
  /\ at \in {"cmdline", "keep"} => view.comm = proc[p]
  /\ at = "keep" => view.cmdline = proc[p]

Asked(p) == p \in MatchPid \/ proc[p] \in Matching

\* A process that stays is still to come, being read, or found.
Staying ==
  /\ \A p \in through : proc[p] # Gone
  /\ at = "idle" => through = {}
  /\ \A p \in through :
       p \in todo \/ ReadSoFar(p) \/ (Asked(p) => \E i \in 1..Len(found) : found[i] = Own(p))

AnswerFits ==
  /\ at = "answered" => answer = Cut(found, limit) /\ todo \cap through = {}
  /\ at # "answered" => answer = <<>>

ListInv == ListTypeOK /\ OnceEach /\ Staying /\ AnswerFits

LEMMA ListInitInv == ListInit => ListInv
<1> SUFFICES ASSUME ListInit PROVE ListInv
  OBVIOUS
<1> USE ListAssumption DEF ListAssumption
<1>1. ListTypeOK
  BY DEF ListInit, ListTypeOK, View, Pid, Birth, Gone
<1>2. OnceEach /\ Staying /\ AnswerFits
  BY DEF ListInit, OnceEach, Staying, AnswerFits, Reading
<1> QED
  BY <1>1, <1>2 DEF ListInv

\* A process that starts takes a pid that no process that stays has.
LEMMA ListNextStart ==
  ASSUME ListInv, NEW p \in Pid, Start(p)
  PROVE  ListInv'
<1> USE DEF ListInv
<1>1. ListTypeOK'
  BY ListAssumption DEF ListAssumption, ListTypeOK, Start, Birth, View
<1>2. OnceEach' /\ AnswerFits'
  BY DEF Start, OnceEach, AnswerFits, Reading
<1>3. \A q \in through : proc'[q] = proc[q]
  BY DEF Start, Staying, ListTypeOK
<1>4. Staying'
  BY <1>3 DEF Start, Staying, ReadSoFar, Reading, Asked, Own
<1> QED
  BY <1>1, <1>2, <1>4

LEMMA ListNextExit ==
  ASSUME ListInv, NEW p \in Pid, Exit(p)
  PROVE  ListInv'
<1> USE DEF ListInv
<1>1. ListTypeOK'
  BY DEF ListTypeOK, Exit, View
<1>2. OnceEach' /\ AnswerFits'
  BY DEF Exit, OnceEach, AnswerFits, Reading
<1>3. \A q \in through' : q \in through /\ proc'[q] = proc[q]
  BY DEF Exit, ListTypeOK
<1>4. Staying'
  BY <1>3 DEF Exit, Staying, ReadSoFar, Reading, Asked, Own
<1> QED
  BY <1>1, <1>2, <1>4

LEMMA ListNextReadDir ==
  ASSUME ListInv, NEW n \in Limits, ReadDir(n)
  PROVE  ListInv'
<1> USE DEF ListInv
<1>1. ListTypeOK'
  BY ListAssumption DEF ListAssumption, ListTypeOK, ReadDir, View
<1>2. OnceEach' /\ AnswerFits'
  BY DEF ReadDir, OnceEach, AnswerFits, Reading
<1>3. Staying'
  BY DEF ReadDir, Staying
<1> QED
  BY <1>1, <1>2, <1>3

\* An entry leaves what is to come and is read.
LEMMA ListNextEntry ==
  ASSUME ListInv, NEW p \in Pid, Entry(p)
  PROVE  ListInv'
<1> USE DEF ListInv
<1>1. ListTypeOK'
  BY DEF ListTypeOK, Entry, View
<1>2. OnceEach' /\ AnswerFits'
  BY DEF Entry, OnceEach, AnswerFits, Reading
<1>3. Staying'
  BY DEF Entry, Staying, ReadSoFar, Reading, Asked, Own
<1> QED
  BY <1>1, <1>2, <1>3

\* A file read belongs to the process that stays, if it is one.
LEMMA ListNextReadFile ==
  ASSUME ListInv,
         \/ ReadFile("status", "status", "comm")
         \/ ReadFile("comm", "comm", "cmdline")
         \/ ReadFile("cmdline", "cmdline", "keep")
  PROVE  ListInv'
<1> USE DEF ListInv
<1>1. ListTypeOK'
  BY DEF ListTypeOK, ReadFile, View
<1>2. view'.pid = view.pid
  BY DEF ListTypeOK, ReadFile, View
<1>3. OnceEach' /\ AnswerFits'
  BY <1>2 DEF ReadFile, OnceEach, AnswerFits, Reading
<1>4. ASSUME NEW p \in through, ReadSoFar(p) PROVE ReadSoFar(p)'
  BY <1>4 DEF ReadFile, ReadSoFar, Reading, ListTypeOK, View
<1>5. Staying'
  BY <1>4 DEF ReadFile, Staying, Asked, Own
<1> QED
  BY <1>1, <1>3, <1>5

\* A process that stays and was read to the end is found, if it matches.
LEMMA ListNextKeep ==
  ASSUME ListInv, Keep
  PROVE  ListInv'
<1> USE DEF ListInv
<1>1. found \in Seq(View) /\ view \in View
  BY DEF ListTypeOK
<1>2. /\ Len(Append(found, view)) = Len(found) + 1 /\ Len(found) \in Nat
      /\ \A i \in 1..Len(found) : Append(found, view)[i] = found[i]
      /\ Append(found, view)[Len(found) + 1] = view
  BY <1>1
<1>3. ListTypeOK'
  BY <1>1 DEF ListTypeOK, Keep
<1>4. OnceEach'
  BY <1>2 DEF Keep, OnceEach, Reading
<1>5. AnswerFits'
  BY DEF Keep, AnswerFits
<1>6. ASSUME NEW p \in through, p \notin todo, Asked(p)
      PROVE  \E i \in 1..Len(found') : found'[i] = Own(p)
  <2>1. CASE \E i \in 1..Len(found) : found[i] = Own(p)
    BY <1>2, <2>1 DEF Keep
  <2>2. CASE ReadSoFar(p)
    <3>1. view = Own(p)
      BY <1>1, <2>2 DEF Keep, ReadSoFar, Own, View
    <3>2. ProcessMatches(view)
      BY <1>6, <2>2, <3>1 DEF Keep, ReadSoFar, Asked, ProcessMatches, Name, Own, Staying
    <3>3. found' = Append(found, view)
      BY <3>2 DEF Keep
    <3> QED
      BY <1>2, <3>1, <3>3
  <2> QED
    BY <1>6, <2>1, <2>2 DEF Staying
<1>7. Staying'
  BY <1>6 DEF Keep, Staying, Asked, Own
<1> QED
  BY <1>3, <1>4, <1>5, <1>7

\* The answer is sorted and cut from what was found.
LEMMA ListNextAnswer ==
  ASSUME ListInv, Answer
  PROVE  ListInv'
<1> USE DEF ListInv
<1>1. Cut(found, limit) \in Seq(View)
  <2>1. /\ found \in Seq(View) /\ limit \in Nat
        /\ \A i, j \in 1..Len(found) : i # j => found[i].pid # found[j].pid
    BY ListAssumption DEF ListAssumption, ListTypeOK, OnceEach
  <2> QED
    BY <2>1, CutProperties
<1>2. ListTypeOK'
  BY <1>1 DEF ListTypeOK, Answer
<1>3. OnceEach' /\ AnswerFits'
  BY DEF Answer, OnceEach, AnswerFits, Reading
<1>4. Staying'
  BY DEF Answer, Staying, ReadSoFar, Reading, Asked, Own
<1> QED
  BY <1>2, <1>3, <1>4

LEMMA ListInvariance == ListSpec => []ListInv
<1>1. ListInv /\ [ListNext]_listVars => ListInv'
  <2> SUFFICES ASSUME ListInv, [ListNext]_listVars PROVE ListInv'
    OBVIOUS
  <2>1. CASE UNCHANGED listVars
    <3>1. ListTypeOK' /\ OnceEach' /\ AnswerFits'
      BY <2>1 DEF listVars, ListInv, ListTypeOK, OnceEach, AnswerFits, Reading
    <3>2. Staying'
      BY <2>1 DEF listVars, ListInv, Staying, Reading, ReadSoFar, Asked, Own
    <3> QED
      BY <3>1, <3>2 DEF ListInv
  <2> QED
    BY <2>1, ListNextStart, ListNextExit, ListNextReadDir, ListNextEntry, ListNextReadFile,
       ListNextKeep, ListNextAnswer DEF ListNext
<1> QED
  BY <1>1, ListInitInv, PTL DEF ListSpec

\* GET /processes: with any number of pids, processes and limits, one that is there from the
\* beginning of the walk to its end and matches the query is listed with its own texts, unless
\* a limit's worth of smaller pids is; each pid once, in order, within the limit
\* (server.rs:432-464).
THEOREM ListsAlwaysTheLiving == ListSpec => []ListsTheLiving
<1>1. ASSUME ListInv PROVE ListsTheLiving
  <2> USE <1>1 DEF ListInv
  <2>1. /\ found \in Seq(View) /\ limit \in Nat
        /\ \A i, j \in 1..Len(found) : i # j => found[i].pid # found[j].pid
    BY ListAssumption DEF ListAssumption, ListTypeOK, OnceEach
  <2>2. SortedAndBounded
    <3>1. CASE at = "answered"
      <4>1. answer = Cut(found, limit)
        BY <3>1 DEF AnswerFits
      <4>2. /\ Len(Cut(found, limit)) <= limit
            /\ \A i, j \in 1..Len(Cut(found, limit)) :
                 i < j => Cut(found, limit)[i].pid < Cut(found, limit)[j].pid
        BY <2>1, CutProperties
      <4> QED
        BY <4>1, <4>2 DEF SortedAndBounded
    <3>2. CASE at # "answered"
      BY <2>1, <3>2 DEF SortedAndBounded, AnswerFits
    <3> QED
      BY <3>1, <3>2
  <2>3. ASSUME at = "answered", NEW p \in through, Asked(p)
        PROVE  \/ \E i \in 1..Len(answer) : answer[i] = Own(p)
               \/ Len(answer) = limit /\ \A i \in 1..Len(answer) : answer[i].pid < p
    <3>1. p \notin todo /\ ~ReadSoFar(p) /\ answer = Cut(found, limit)
      BY <2>3 DEF AnswerFits, ReadSoFar, Reading
    <3>2. PICK i \in 1..Len(found) : found[i] = Own(p)
      BY <2>3, <3>1 DEF Staying
    <3>3. found[i].pid = p
      BY <3>2 DEF Own
    <3> QED
      BY <2>1, <3>1, <3>2, <3>3, CutProperties
  <2> QED
    BY <2>2, <2>3 DEF ListsTheLiving, Asked
<1> QED
  BY <1>1, ListInvariance, PTL
=============================================================================

----------------------------- MODULE WatchProofs -----------------------------
(***************************************************************************)
(* A watch never leaves a perf event without a reader, and nothing of it   *)
(* moves after stop(), for any number of watches, threads and unread       *)
(* samples.                                                                *)
(***************************************************************************)
EXTENDS Watch, TLAPS

\* What the phase of a watch says of its tasks: none until start_watch is through, all of
\* them over once stop() has returned.
TasksFitPhase ==
  \A w \in WatchId :
    /\ phase[w] \in {"idle", "scan", "failed"} => \A t \in Tid : task[w][t] = "none"
    /\ phase[w] = "idle" => opened[w] = {}
    /\ phase[w] = "stopped" => \A t \in Tid : ~Live(w, t)

-----------------------------------------------------------------------------
LEMMA InitTypeOK == Init => TypeOK
  BY WatchAssumption DEF WatchAssumption, Init, TypeOK, Phases, Places

LEMMA NextTypeOK == TypeOK /\ [Next]_vars => TypeOK'
<1> SUFFICES ASSUME TypeOK, [Next]_vars PROVE TypeOK'
  OBVIOUS
<1> USE WatchAssumption DEF WatchAssumption, TypeOK, Phases, Places, threadVars, startVars,
                            stopVars, taskVars, Goto
<1>1. ASSUME NEW t \in Tid, ThreadSpawn(t) \/ ThreadExit(t) PROVE TypeOK'
  BY <1>1 DEF ThreadSpawn, ThreadExit
<1>2. ASSUME NEW w \in WatchId, NEW t \in Tid,
             Fire(w, t) \/ SeeExit(w, t) \/ StaleWake(w, t)
      PROVE  TypeOK'
  <2>1. CASE Fire(w, t)
    <3>1. PICK n \in 1..2 : pending[w][t] + n <= RingCap
                            /\ pending' = [pending EXCEPT ![w][t] = @ + n]
      BY <2>1 DEF Fire
    <3>2. pending[w][t] + n \in 0..RingCap
      BY <3>1
    <3>3. pending' \in [WatchId -> [Tid -> 0..RingCap]]
      BY <3>1, <3>2
    <3>4. QED
      BY <2>1, <3>3 DEF Fire
  <2>2. CASE SeeExit(w, t)
    BY <2>2 DEF SeeExit
  <2>3. CASE StaleWake(w, t)
    BY <2>3 DEF StaleWake, EnterLoop
  <2>4. QED
    BY <1>2, <2>1, <2>2, <2>3
<1>3. ASSUME NEW w \in WatchId, StartFails(w) PROVE TypeOK'
  BY <1>3 DEF StartFails
<1>4. ASSUME NEW w \in WatchId, StartScan(w) PROVE TypeOK'
  BY <1>4 DEF StartScan
<1>5. ASSUME NEW w \in WatchId, NEW t \in Tid, OpenThread(w, t) PROVE TypeOK'
  <2>1. scanned' \in [WatchId -> SUBSET Tid]
    BY <1>5 DEF OpenThread
  <2>2. opened' \in [WatchId -> SUBSET Tid]
    <3>1. CASE opened' = [opened EXCEPT ![w] = @ \cup {t}]
      BY <3>1
    <3>2. CASE opened' = opened
      BY <3>2
    <3>3. QED
      BY <1>5, <3>1, <3>2 DEF OpenThread
  <2>3. QED
    BY <1>5, <2>1, <2>2 DEF OpenThread
<1>6. ASSUME NEW w \in WatchId, FinishScan(w) PROVE TypeOK'
  <2>1. CASE opened[w] = {}
    BY <1>6, <2>1 DEF FinishScan, ListDone
  <2>2. CASE opened[w] # {}
    <3>1. Spawned(w, opened[w]) \in [Tid -> Places]
      BY DEF Spawned
    <3>2. task' \in [WatchId -> [Tid -> Places]]
      BY <1>6, <2>2, <3>1 DEF FinishScan
    <3>3. QED
      BY <1>6, <2>2, <3>2 DEF FinishScan, ListDone
  <2>3. QED
    BY <2>1, <2>2
<1>7. ASSUME NEW w \in WatchId, NEW t \in Tid, StartThread(w, t) PROVE TypeOK'
  BY <1>7 DEF StartThread, Spawned
<1>8. ASSUME NEW w \in WatchId, StopBegin(w) PROVE TypeOK'
  BY <1>8 DEF StopBegin
<1>9. ASSUME NEW w \in WatchId, NEW t \in Tid, AbortTask(w, t) PROVE TypeOK'
  BY <1>9 DEF AbortTask
<1>10. ASSUME NEW w \in WatchId, Join(w) PROVE TypeOK'
  BY <1>10 DEF Join
<1>11. ASSUME NEW w \in WatchId, NEW t \in Tid, Poll(w, t) \/ Park(w, t) \/ Readable(w, t)
       PROVE  TypeOK'
  <2>1. CASE Poll(w, t)
    BY <2>1 DEF Poll
  <2>2. CASE Park(w, t)
    BY <2>2 DEF Park
  <2>3. CASE Readable(w, t)
    BY <2>3 DEF Readable, EnterLoop
  <2>4. QED
    BY <1>11, <2>1, <2>2, <2>3
<1>12. ASSUME NEW w \in WatchId, NEW t \in Tid, TakeSample(w, t) PROVE TypeOK'
  BY <1>12 DEF TakeSample
<1>13. ASSUME NEW w \in WatchId, NEW t \in Tid, CheckCancel(w, t) PROVE TypeOK'
  <2>1. task' \in [WatchId -> [Tid -> Places]]
    <3>1. \E p \in Places : task' = [task EXCEPT ![w][t] = p]
      BY <1>13 DEF CheckCancel
    <3>2. QED
      BY <3>1
  <2>2. QED
    BY <1>13, <2>1 DEF CheckCancel
<1>14. ASSUME NEW w \in WatchId, NEW t \in Tid, LeaveLoop(w, t) PROVE TypeOK'
  <2>1. task' \in [WatchId -> [Tid -> Places]]
    <3>1. \E p \in Places : task' = [task EXCEPT ![w][t] = p]
      BY <1>14 DEF LeaveLoop
    <3>2. QED
      BY <3>1
  <2>2. processed' \in [WatchId -> [Tid -> 0..Batch]]
    BY <1>14 DEF LeaveLoop
  <2>3. QED
    BY <1>14, <2>1, <2>2 DEF LeaveLoop
<1>15. ASSUME NEW w \in WatchId, NEW t \in Tid, Cancelled(w, t) PROVE TypeOK'
  BY <1>15 DEF Cancelled, Drop
<1>16. ASSUME NEW w \in WatchId, NEW t \in Tid, Handle(w, t) PROVE TypeOK'
  BY <1>16 DEF Handle
<1>17. CASE UNCHANGED vars
  BY <1>17 DEF vars
<1>18. QED
  BY <1>1, <1>2, <1>3, <1>4, <1>5, <1>6, <1>7, <1>8, <1>9, <1>10, <1>11, <1>12, <1>13,
     <1>14, <1>15, <1>16, <1>17 DEF Next, Env, StartProcess, StopStep, TaskStep

-----------------------------------------------------------------------------
\* What the invariant says beyond types.
Fits == TasksFitPhase /\ EventsHaveReaders

LEMMA InitFits == Init => Fits
  BY DEF Init, Fits, TasksFitPhase, EventsHaveReaders, Live

\* A step of a live task that goes on living disturbs neither.
LEMMA TaskMoves ==
  ASSUME TypeOK, Fits, NEW w \in WatchId, NEW t \in Tid,
         Live(w, t), UNCHANGED <<phase, opened>>,
         NEW p \in Places \ {"none", "ended"}, Goto(w, t, p)
  PROVE  Fits'
<1>1. \A v \in WatchId, u \in Tid : Live(v, u)' <=> Live(v, u)
  BY DEF TypeOK, Live, Goto
<1>2. \A v \in WatchId, u \in Tid : task'[v][u] = "none" => task[v][u] = "none"
  BY DEF TypeOK, Goto
<1>3. \A v \in WatchId, u \in Tid : task[v][u] = "none" => task'[v][u] = "none"
  BY DEF TypeOK, Goto, Live
<1>4. QED
  BY <1>1, <1>2, <1>3 DEF Fits, TasksFitPhase, EventsHaveReaders

\* The end of a task closes its event.
LEMMA TaskEnds ==
  ASSUME TypeOK, Fits, NEW w \in WatchId, NEW t \in Tid, Live(w, t), Drop(w, t)
  PROVE  Fits'
<1>1. \A v \in WatchId, u \in Tid : Live(v, u)' <=> Live(v, u) /\ <<v, u>> # <<w, t>>
  BY DEF TypeOK, Live, Drop, Goto
<1>2. \A v \in WatchId, u \in Tid : u \in opened'[v] <=> u \in opened[v] /\ <<v, u>> # <<w, t>>
  BY DEF TypeOK, Drop
<1>3. opened' \in [WatchId -> SUBSET Tid]
  BY DEF TypeOK, Drop
<1>4. phase' = phase /\ phase[w] \notin {"idle", "scan", "failed", "stopped"}
  BY DEF Drop, Fits, TasksFitPhase, Live
<1>5. \A v \in WatchId, u \in Tid : v # w => task'[v][u] = task[v][u] /\ opened'[v] = opened[v]
  BY DEF TypeOK, Drop, Goto
<1>6. QED
  BY <1>1, <1>2, <1>3, <1>4, <1>5 DEF Fits, TasksFitPhase, EventsHaveReaders

LEMMA NextFits == TypeOK /\ Fits /\ [Next]_vars => Fits'
<1> SUFFICES ASSUME TypeOK, Fits, [Next]_vars PROVE Fits'
  OBVIOUS
<1> USE DEF threadVars, startVars, stopVars, taskVars
<1>1. ASSUME NEW t \in Tid, ThreadSpawn(t) \/ ThreadExit(t) PROVE Fits'
  BY <1>1 DEF ThreadSpawn, ThreadExit, Fits, TasksFitPhase, EventsHaveReaders, Live
<1>2. ASSUME NEW w \in WatchId, NEW t \in Tid, Fire(w, t) \/ SeeExit(w, t) PROVE Fits'
  BY <1>2 DEF Fire, SeeExit, Fits, TasksFitPhase, EventsHaveReaders, Live
<1>3. ASSUME NEW w \in WatchId, StartFails(w) \/ StartScan(w) PROVE Fits'
  <2>1. phase[w] = "idle" /\ phase'[w] \in {"failed", "scan"} /\ UNCHANGED <<task, opened>>
    BY <1>3 DEF TypeOK, StartFails, StartScan
  <2>2. \A v \in WatchId : v # w => phase'[v] = phase[v]
    BY <1>3 DEF TypeOK, StartFails, StartScan
  <2>3. QED
    BY <2>1, <2>2 DEF Fits, TasksFitPhase, EventsHaveReaders, Live
<1>4. ASSUME NEW w \in WatchId, NEW t \in Tid, OpenThread(w, t) PROVE Fits'
  <2>1. phase' = phase /\ task' = task /\ phase[w] = "scan"
    BY <1>4 DEF OpenThread
  <2>2. \A v \in WatchId : v # w => opened'[v] = opened[v]
    BY <1>4 DEF OpenThread, TypeOK
  <2>3. QED
    BY <2>1, <2>2 DEF Fits, TasksFitPhase, EventsHaveReaders, Live
<1>5. ASSUME NEW w \in WatchId, FinishScan(w) PROVE Fits'
  <2>1. CASE opened[w] = {}
    <3>1. phase[w] = "scan" /\ phase'[w] = "failed" /\ UNCHANGED <<task, opened>>
      BY <1>5, <2>1 DEF TypeOK, FinishScan
    <3>2. \A v \in WatchId : v # w => phase'[v] = phase[v]
      BY <1>5, <2>1 DEF TypeOK, FinishScan
    <3>3. QED
      BY <2>1, <3>1, <3>2 DEF Fits, TasksFitPhase, EventsHaveReaders, Live
  <2>2. CASE opened[w] # {}
    <3>1. phase[w] = "scan" /\ phase'[w] = "running" /\ UNCHANGED opened
      BY <1>5, <2>2 DEF TypeOK, FinishScan
    <3>2. \A v \in WatchId : v # w => phase'[v] = phase[v] /\ task'[v] = task[v]
      BY <1>5, <2>2 DEF TypeOK, FinishScan
    <3>3. task'[w] = Spawned(w, opened[w])
      BY <1>5, <2>2 DEF TypeOK, FinishScan
    <3>4. \A t \in Tid : task[w][t] = "none"
      BY <3>1 DEF Fits, TasksFitPhase
    <3>5. \A t \in Tid : Live(w, t)' <=> t \in opened[w]
      BY <3>3, <3>4 DEF Spawned, Live
    <3>6. QED
      BY <3>1, <3>2, <3>5 DEF Fits, TasksFitPhase, EventsHaveReaders, Live
  <2>3. QED
    BY <2>1, <2>2
<1>6. ASSUME NEW w \in WatchId, NEW t \in Tid, StartThread(w, t) PROVE Fits'
  BY <1>6 DEF TypeOK, StartThread, Spawned, Fits, TasksFitPhase, EventsHaveReaders, Live
<1>7. ASSUME NEW w \in WatchId, StopBegin(w) PROVE Fits'
  BY <1>7 DEF TypeOK, StopBegin, Fits, TasksFitPhase, EventsHaveReaders, Live
<1>8. ASSUME NEW w \in WatchId, NEW t \in Tid, AbortTask(w, t) PROVE Fits'
  BY <1>8 DEF TypeOK, AbortTask, Fits, TasksFitPhase, EventsHaveReaders, Live
<1>9. ASSUME NEW w \in WatchId, Join(w) PROVE Fits'
  BY <1>9 DEF TypeOK, Join, HasTask, Fits, TasksFitPhase, EventsHaveReaders, Live
<1>10. ASSUME NEW w \in WatchId, NEW t \in Tid,
              \/ StaleWake(w, t) \/ Poll(w, t) \/ Park(w, t) \/ Readable(w, t)
              \/ TakeSample(w, t) \/ CheckCancel(w, t) \/ LeaveLoop(w, t) \/ Handle(w, t)
       PROVE Fits'
  <2> USE DEF StaleWake, Poll, Park, Readable, EnterLoop, TakeSample, CheckCancel, LeaveLoop, Handle
  <2>1. Live(w, t) /\ UNCHANGED <<phase, opened>>
    BY <1>10 DEF Live
  <2>2. \E p \in Places \ {"none", "ended"} : Goto(w, t, p)
    BY <1>10 DEF Places
  <2>3. QED
    BY <2>1, <2>2, TaskMoves
<1>11. ASSUME NEW w \in WatchId, NEW t \in Tid, Cancelled(w, t) PROVE Fits'
  BY <1>11, TaskEnds DEF Cancelled, AtAwait, Live
<1>12. CASE UNCHANGED vars
  BY <1>12 DEF vars, Fits, TasksFitPhase, EventsHaveReaders, Live
<1>13. QED
  BY <1>1, <1>2, <1>3, <1>4, <1>5, <1>6, <1>7, <1>8, <1>9, <1>10, <1>11, <1>12
     DEF Next, Env, StartProcess, StopStep, TaskStep

-----------------------------------------------------------------------------
\* A task that was late once looks at a flag that stays raised, and hands over no more.
LateIsOver ==
  \A w \in WatchId, t \in Tid :
    /\ late[w][t] <= 1
    /\ late[w][t] > 0 => cancel[w] /\ task[w][t] # "handle"

LEMMA InitLate == Init => LateIsOver
  BY DEF Init, LateIsOver

\* A step that hands nothing over, lowers no flag and takes no task to where it hands over.
LEMMA LateUnmoved ==
  ASSUME LateIsOver, late' = late, \A v \in WatchId : cancel[v] => cancel'[v],
         \A v \in WatchId, u \in Tid : task'[v][u] = "handle" => task[v][u] = "handle"
  PROVE  LateIsOver'
BY DEF LateIsOver

LEMMA NextLate == TypeOK /\ LateIsOver /\ [Next]_vars => LateIsOver'
<1> SUFFICES ASSUME TypeOK, LateIsOver, [Next]_vars PROVE LateIsOver'
  OBVIOUS
<1> USE DEF threadVars, startVars, stopVars, taskVars
<1>1. ASSUME NEW t \in Tid, ThreadSpawn(t) \/ ThreadExit(t) PROVE LateIsOver'
  BY <1>1 DEF ThreadSpawn, ThreadExit, LateIsOver
<1>2. ASSUME NEW w \in WatchId, NEW t \in Tid, Fire(w, t) \/ SeeExit(w, t) PROVE LateIsOver'
  BY <1>2 DEF Fire, SeeExit, LateIsOver
<1>3. ASSUME NEW w \in WatchId, StartProcess(w) \/ \E t \in Tid : StartThread(w, t)
      PROVE LateIsOver'
  <2>1. late' = late /\ cancel' = cancel
    BY <1>3 DEF StartProcess, StartFails, StartScan, OpenThread, FinishScan, StartThread
  <2>2. task' = task \/ \E threads : task' = [task EXCEPT ![w] = Spawned(w, threads)]
    BY <1>3 DEF StartProcess, StartFails, StartScan, OpenThread, FinishScan, StartThread
  <2>3. \A v \in WatchId, u \in Tid : task'[v][u] = "handle" => task[v][u] = "handle"
    <3>1. CASE task' = task
      BY <3>1
    <3>2. ASSUME NEW threads, task' = [task EXCEPT ![w] = Spawned(w, threads)],
                 NEW v \in WatchId, NEW u \in Tid, task'[v][u] = "handle"
          PROVE  task[v][u] = "handle"
      <4>1. CASE v = w
        BY <3>2, <4>1 DEF TypeOK, Spawned
      <4>2. CASE v # w
        BY <3>2, <4>2 DEF TypeOK
      <4>3. QED
        BY <4>1, <4>2
    <3>3. QED
      BY <2>2, <3>1, <3>2
  <2>4. QED
    BY <2>1, <2>3, LateUnmoved
<1>4. ASSUME NEW w \in WatchId, StopBegin(w) \/ StopStep(w) PROVE LateIsOver'
  <2>1. late' = late /\ task' = task
    BY <1>4 DEF StopBegin, StopStep, AbortTask, Join
  <2>2. \A v \in WatchId : cancel[v] => cancel'[v]
    BY <1>4 DEF TypeOK, StopBegin, StopStep, AbortTask, Join
  <2>3. QED
    BY <2>1, <2>2, LateUnmoved
<1>5. ASSUME NEW w \in WatchId, NEW t \in Tid,
             \/ StaleWake(w, t) \/ Poll(w, t) \/ Park(w, t) \/ Readable(w, t)
             \/ TakeSample(w, t) \/ LeaveLoop(w, t) \/ Cancelled(w, t)
      PROVE LateIsOver'
  <2> USE DEF StaleWake, Poll, Park, Readable, EnterLoop, TakeSample, LeaveLoop, Cancelled, Drop
  <2>1. late' = late /\ cancel' = cancel
    BY <1>5
  <2>2. \E p \in Places \ {"handle"} : Goto(w, t, p)
    BY <1>5 DEF Places
  <2>3. \A v \in WatchId, u \in Tid : task'[v][u] = "handle" => task[v][u] = "handle"
    BY <2>2 DEF TypeOK, Goto
  <2>4. QED
    BY <2>1, <2>3, LateUnmoved
<1>6. ASSUME NEW w \in WatchId, NEW t \in Tid, CheckCancel(w, t) PROVE LateIsOver'
  <2>1. late' = late /\ cancel' = cancel
    BY <1>6 DEF CheckCancel
  <2>2. \/ Goto(w, t, "loop")
        \/ ~cancel[w] /\ Goto(w, t, "handle")
    BY <1>6 DEF CheckCancel
  <2>3. \A v \in WatchId, u \in Tid :
          cancel[v] /\ task'[v][u] = "handle" => task[v][u] = "handle"
    <3>1. task \in [WatchId -> [Tid -> Places]]
      BY DEF TypeOK
    <3>2. CASE Goto(w, t, "loop")
      BY <3>1, <3>2 DEF Goto
    <3>3. CASE ~cancel[w] /\ Goto(w, t, "handle")
      BY <3>1, <3>3 DEF Goto
    <3>4. QED
      BY <2>2, <3>2, <3>3
  <2>4. QED
    BY <2>1, <2>3 DEF LateIsOver
<1>7. ASSUME NEW w \in WatchId, NEW t \in Tid, Handle(w, t) PROVE LateIsOver'
  <2>1. task[w][t] = "handle" /\ late[w][t] = 0 /\ cancel' = cancel
    <3>1. task[w][t] = "handle" /\ cancel' = cancel
      BY <1>7 DEF Handle
    <3>2. late[w][t] \in 0..2
      BY DEF TypeOK
    <3>3. QED
      BY <3>1, <3>2 DEF LateIsOver
  <2>2. task'[w][t] = "loop" /\ late'[w][t] <= 1 /\ (late'[w][t] > 0 => cancel[w])
    BY <1>7, <2>1 DEF Handle, Goto, TypeOK
  <2>3. \A v \in WatchId, u \in Tid : <<v, u>> # <<w, t>> =>
          late'[v][u] = late[v][u] /\ task'[v][u] = task[v][u]
    BY <1>7 DEF Handle, Goto, TypeOK
  <2>4. QED
    BY <2>1, <2>2, <2>3 DEF LateIsOver
<1>8. CASE UNCHANGED vars
  BY <1>8 DEF vars, LateIsOver
<1>9. QED
  BY <1>1, <1>2, <1>3, <1>4, <1>5, <1>6, <1>7, <1>8 DEF Next, Env, TaskStep

-----------------------------------------------------------------------------
(* The theorems.                                                           *)

LEMMA Invariance == Spec => [](TypeOK /\ Fits)
<1>1. Init => TypeOK /\ Fits
  BY InitTypeOK, InitFits
<1>2. TypeOK /\ Fits /\ [Next]_vars => (TypeOK /\ Fits)'
  BY NextTypeOK, NextFits
<1>3. QED
  BY <1>1, <1>2, PTL DEF Spec

\* Every open perf event has a task that reads it, and none survives a failed start or a
\* stop() (watch.rs:132-163, 35-48), whatever the number of threads and watches.
THEOREM EventsAlwaysHaveReaders == Spec => []EventsHaveReaders
<1>1. Fits => EventsHaveReaders
  BY DEF Fits
<1>2. QED
  BY <1>1, Invariance, PTL

\* After the flag is raised a task hands over at most the one sample it had already
\* checked (watch.rs:149-157), however the steps of stop() and of the task interleave.
THEOREM OneLateAtMost == Spec => []AtMostOneLate
<1>1. Init => TypeOK /\ LateIsOver
  BY InitTypeOK, InitLate
<1>2. TypeOK /\ LateIsOver /\ [Next]_vars => (TypeOK /\ LateIsOver)'
  BY NextTypeOK, NextLate
<1>3. LateIsOver => AtMostOneLate
  BY DEF LateIsOver, AtMostOneLate
<1>4. QED
  BY <1>1, <1>2, <1>3, PTL DEF Spec

\* A step of a watch that has stopped.
LEMMA StoppedStays ==
  ASSUME TypeOK, Fits, [Next]_vars, NEW w \in WatchId, phase[w] = "stopped"
  PROVE  phase'[w] = "stopped" /\ task'[w] = task[w] /\ opened'[w] = opened[w]
<1> DEFINE Still == phase'[w] = "stopped" /\ task'[w] = task[w] /\ opened'[w] = opened[w]
<1> USE DEF threadVars, startVars, stopVars, taskVars
<1>1. \A t \in Tid : ~Live(w, t)
  BY DEF Fits, TasksFitPhase
<1>2. ASSUME NEW t \in Tid, ThreadSpawn(t) \/ ThreadExit(t) PROVE Still
  BY <1>2 DEF ThreadSpawn, ThreadExit
<1>3. ASSUME NEW v \in WatchId, NEW t \in Tid, Fire(v, t) \/ SeeExit(v, t) PROVE Still
  BY <1>3 DEF Fire, SeeExit
<1>4. ASSUME NEW v \in WatchId, StartProcess(v) PROVE Still
  BY <1>4 DEF TypeOK, StartProcess, StartFails, StartScan, OpenThread, FinishScan
<1>5. ASSUME NEW v \in WatchId, NEW t \in Tid, StartThread(v, t) PROVE Still
  BY <1>5 DEF TypeOK, StartThread
<1>6. ASSUME NEW v \in WatchId, StopBegin(v) \/ StopStep(v) PROVE Still
  BY <1>6 DEF TypeOK, StopBegin, StopStep, AbortTask, Join
<1>7. ASSUME NEW v \in WatchId, NEW t \in Tid,
             StaleWake(v, t) \/ TaskStep(v, t) \/ Handle(v, t)
      PROVE  Still
  <2> USE DEF TaskStep, StaleWake, Poll, Park, Readable, EnterLoop, TakeSample, CheckCancel,
              LeaveLoop, Cancelled, Drop, Handle
  <2>1. Live(v, t)
    BY <1>7 DEF AtAwait, Live
  <2>2. v # w
    BY <1>1, <2>1
  <2>3. phase' = phase
    BY <1>7
  <2>4. opened'[w] = opened[w]
    BY <1>7, <2>2 DEF TypeOK
  <2>5. task'[w] = task[w]
    BY <1>7, <2>2 DEF TypeOK, Goto
  <2>6. QED
    BY <2>3, <2>4, <2>5
<1>8. CASE UNCHANGED vars
  BY <1>8 DEF vars
<1>9. QED
  BY <1>2, <1>3, <1>4, <1>5, <1>6, <1>7, <1>8 DEF Next, Env

\* Once stop() has returned nothing of its watch moves any more (watch.rs:41-47).
THEOREM StoppedIsQuiet == Spec => QuietAfterStop
<1>1. TypeOK /\ Fits /\ [Next]_vars =>
        [\A w \in WatchId : phase[w] = "stopped" =>
           phase'[w] = "stopped" /\ task'[w] = task[w] /\ opened'[w] = opened[w]]_vars
  BY StoppedStays
<1>2. QED
  BY <1>1, Invariance, PTL DEF Spec, QuietAfterStop
=============================================================================

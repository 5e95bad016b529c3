------------------------------- MODULE Watch -------------------------------
(***************************************************************************)
(* A running watchpoint (watch.rs): start_watch opens one perf event per   *)
(* thread of the target and spawns one tokio task per event; stop() raises *)
(* the cancel flag, aborts the tasks and waits for them.  The tasks run    *)
(* PerfMap::events (perf.rs) with the closure of start_watch as handler.   *)
(*                                                                         *)
(* A perf ring is a count of unread samples here; PerfRing.tla models its  *)
(* bytes and its wakeups.  The filter's answer is a free choice.  What     *)
(* handle_event does with a sample is left to the composing module, which  *)
(* conjoins its own action with Handle.  External to the code and assumed: *)
(*  - opening a perf event may fail at any time (thread gone, no free debug*)
(*    register, perf_event_mlock_kb, file descriptors);                    *)
(*  - the perf fd of a thread that exited polls EPOLLHUP (perf_event_open  *)
(*    (2)); once the driver has seen it, tokio keeps that readiness through*)
(*    clear_ready, and readable().await returns at once, without going     *)
(*    through the runtime (hence the yield by hand, perf.rs:143-145);      *)
(*  - abort() takes effect when the task next returns to the runtime.      *)
(***************************************************************************)
EXTENDS Naturals, FiniteSets

CONSTANTS
  WatchId,   \* one identity per start_watch call
  Tid,       \* threads the target process ever has
  RingCap,   \* unread samples a perf ring holds
  Batch      \* MAX_EVENTS_PER_READINESS

ASSUME WatchAssumption == RingCap \in Nat \ {0} /\ Batch \in Nat \ {0}

VARIABLES
  thr,        \* the target's threads: "unborn", "alive", "dead"
  hup,        \* threads whose perf event the runtime knows to have hung up
  phase,      \* per watch: where start_watch or stop() is
  listed,     \* history: threads alive when start_watch began to list them
  scanned,    \* threads whose PerfMap::new was tried
  opened,     \* threads that hold an open perf event of this watch
  task,       \* per watch and thread: where the spawned task is
  processed,  \* records handled since the task's last readable()
  pending,    \* unread samples in the ring
  cancel,     \* RunningWatch::cancel
  aborted,    \* tasks on which abort() was called
  late        \* history: samples handed over after cancel was set, counted up to 2

threadVars == <<thr, hup>>
startVars == <<listed, scanned>>
stopVars == <<cancel, aborted>>
taskVars == <<task, processed, pending, late>>
vars == <<threadVars, phase, startVars, opened, stopVars, taskVars>>

Init ==
  /\ thr \in [Tid -> {"unborn", "alive"}]
  /\ hup = [w \in WatchId |-> {}]
  /\ phase = [w \in WatchId |-> "idle"]
  /\ listed = [w \in WatchId |-> {}]
  /\ scanned = [w \in WatchId |-> {}]
  /\ opened = [w \in WatchId |-> {}]
  /\ task = [w \in WatchId |-> [t \in Tid |-> "none"]]
  /\ processed = [w \in WatchId |-> [t \in Tid |-> 0]]
  /\ pending = [w \in WatchId |-> [t \in Tid |-> 0]]
  /\ cancel = [w \in WatchId |-> FALSE]
  /\ aborted = [w \in WatchId |-> {}]
  /\ late = [w \in WatchId |-> [t \in Tid |-> 0]]

-----------------------------------------------------------------------------
(* The target process and the kernel (external).                           *)

Exited(t) == thr[t] = "dead"

ThreadSpawn(t) ==
  /\ thr[t] = "unborn"
  /\ thr' = [thr EXCEPT ![t] = "alive"]
  /\ UNCHANGED <<hup, phase, startVars, opened, stopVars, taskVars>>

ThreadExit(t) ==
  /\ thr[t] = "alive"
  /\ thr' = [thr EXCEPT ![t] = "dead"]
  /\ UNCHANGED <<hup, phase, startVars, opened, stopVars, taskVars>>

\* tokio's driver takes the hang-up of an event from epoll.
SeeExit(w, t) ==
  /\ Exited(t) /\ t \in opened[w] \ hup[w]
  /\ hup' = [hup EXCEPT ![w] = @ \cup {t}]
  /\ UNCHANGED <<thr, phase, startVars, opened, stopVars, taskVars>>

\* The watched access happens: one more record, or two when samples that found no room are
\* reported first.  A full ring loses the sample.
Fire(w, t) ==
  /\ thr[t] = "alive" /\ t \in opened[w]
  /\ \E records \in 1..2 :
       /\ pending[w][t] + records <= RingCap
       /\ pending' = [pending EXCEPT ![w][t] = @ + records]
  /\ UNCHANGED <<threadVars, phase, startVars, opened, stopVars, task, processed, late>>

-----------------------------------------------------------------------------
(* start_watch                                                             *)

\* Process::new or tasks() fails: no such process, no permission.
StartFails(w) ==
  /\ phase[w] = "idle"
  /\ phase' = [phase EXCEPT ![w] = "failed"]
  /\ UNCHANGED <<threadVars, startVars, opened, stopVars, taskVars>>

StartScan(w) ==
  /\ phase[w] = "idle"
  /\ phase' = [phase EXCEPT ![w] = "scan"]
  /\ listed' = [listed EXCEPT ![w] = {t \in Tid : thr[t] = "alive"}]
  /\ UNCHANGED <<threadVars, scanned, opened, stopVars, taskVars>>

\* Mutant: the task is spawned as its event opens, before the list is known to be any good.
OpenThreadEager(w, t) ==
  /\ phase[w] = "scan" /\ t \notin scanned[w] /\ thr[t] # "unborn"
  /\ scanned' = [scanned EXCEPT ![w] = @ \cup {t}]
  /\ \/ /\ thr[t] = "alive"
        /\ opened' = [opened EXCEPT ![w] = @ \cup {t}]
        /\ task' = [task EXCEPT ![w][t] = "queued"]
     \/ UNCHANGED <<opened, task>>
  /\ UNCHANGED <<threadVars, phase, listed, stopVars, processed, pending, late>>

\* The iterator yields t; an error of PerfMap::new is logged and skipped.  A thread
\* may exit between being listed and being opened.
OpenThread(w, t) ==
  /\ phase[w] = "scan" /\ t \notin scanned[w] /\ thr[t] # "unborn"
  /\ scanned' = [scanned EXCEPT ![w] = @ \cup {t}]
  /\ \/ thr[t] = "alive" /\ opened' = [opened EXCEPT ![w] = @ \cup {t}]
     \/ UNCHANGED opened
  /\ UNCHANGED <<threadVars, phase, listed, stopVars, taskVars>>

\* One task per open event; a thread born during the listing may be missed.
Spawned(w, threads) == [t \in Tid |-> IF t \in threads THEN "queued" ELSE task[w][t]]

ListDone(w) == listed' = [listed EXCEPT ![w] = {}] /\ scanned' = [scanned EXCEPT ![w] = {}]

\* Mutant: an empty list of events is accepted.
FinishScanEmpty(w) ==
  /\ phase[w] = "scan"
  /\ \A t \in listed[w] : t \in scanned[w] \/ thr[t] = "dead"
  /\ phase' = [phase EXCEPT ![w] = "running"]
  /\ task' = [task EXCEPT ![w] = Spawned(w, opened[w])]
  /\ ListDone(w)
  /\ UNCHANGED <<threadVars, opened, stopVars, processed, pending, late>>

FinishScan(w) ==
  /\ phase[w] = "scan"
  /\ \A t \in listed[w] : t \in scanned[w] \/ thr[t] = "dead"
  /\ IF opened[w] = {}
     THEN phase' = [phase EXCEPT ![w] = "failed"] /\ UNCHANGED task
     ELSE /\ phase' = [phase EXCEPT ![w] = "running"]
          /\ task' = [task EXCEPT ![w] = Spawned(w, opened[w])]
  /\ ListDone(w)
  /\ UNCHANGED <<threadVars, opened, stopVars, processed, pending, late>>

\* config.thread: the pid argument is the one thread to watch.
StartThread(w, t) ==
  /\ phase[w] = "idle" /\ thr[t] = "alive"
  /\ phase' = [phase EXCEPT ![w] = "running"]
  /\ opened' = [opened EXCEPT ![w] = {t}]
  /\ task' = [task EXCEPT ![w] = Spawned(w, {t})]
  /\ UNCHANGED <<threadVars, startVars, stopVars, processed, pending, late>>

StartProcess(w) ==
  \/ StartFails(w)
  \/ StartScan(w)
  \/ \E t \in Tid : OpenThread(w, t)
  \/ FinishScan(w)

-----------------------------------------------------------------------------
(* The spawned task: PerfMap::events with start_watch's closure            *)
(*   none    not spawned                                                   *)
(*   queued  waiting for a runtime worker: just spawned, or yielded        *)
(*   wait    at readable().await, which may return at once                 *)
(*   parked  readable().await is pending                                   *)
(*   loop    at the head of the while loop, on a runtime worker            *)
(*   took    a record was read, the closure is about to look at cancel     *)
(*   handle  cancel was false and the filter matched: about to hand over   *)
(*   ended   finished or dropped; its PerfMap is closed                    *)

AtAwait(w, t) == task[w][t] \in {"queued", "parked"}
Live(w, t) == task[w][t] \notin {"none", "ended"}

Goto(w, t, where) == task' = [task EXCEPT ![w][t] = where]

\* A worker takes the task up, which goes to readable().
Poll(w, t) ==
  /\ task[w][t] = "queued" /\ t \notin aborted[w]
  /\ Goto(w, t, "wait")
  /\ UNCHANGED <<threadVars, phase, startVars, opened, stopVars, processed, pending, late>>

\* readable().await does not find the descriptor ready, though a record may just have come.
Park(w, t) ==
  /\ task[w][t] = "wait" /\ t \notin hup[w]
  /\ Goto(w, t, "parked")
  /\ UNCHANGED <<threadVars, phase, startVars, opened, stopVars, processed, pending, late>>

EnterLoop(w, t) ==
  /\ Goto(w, t, "loop")
  /\ processed' = [processed EXCEPT ![w][t] = 0]
  /\ UNCHANGED <<threadVars, phase, startVars, opened, stopVars, pending, late>>

\* readable() returns, at once or when the driver wakes the task.
Readable(w, t) ==
  /\ \/ task[w][t] = "wait"
     \/ task[w][t] = "parked" /\ t \notin aborted[w] /\ (pending[w][t] > 0 \/ t \in hup[w])
  /\ EnterLoop(w, t)

\* It is woken for a record that it had read before the driver knew of it (external).
StaleWake(w, t) == task[w][t] = "parked" /\ t \notin aborted[w] /\ EnterLoop(w, t)

TakeSample(w, t) ==
  /\ task[w][t] = "loop" /\ pending[w][t] > 0 /\ processed[w][t] < Batch
  /\ Goto(w, t, "took")
  /\ pending' = [pending EXCEPT ![w][t] = @ - 1]
  /\ processed' = [processed EXCEPT ![w][t] = @ + 1]
  /\ UNCHANGED <<threadVars, phase, startVars, opened, stopVars, late>>

\* Mutant: the closure asks the filter before it looks at cancel.
CheckCancelNever(w, t) ==
  /\ task[w][t] = "took"
  /\ Goto(w, t, "loop") \/ Goto(w, t, "handle")
  /\ UNCHANGED <<threadVars, phase, startVars, opened, stopVars, processed, pending, late>>

\* cancel set: the sample is thrown away.  Else the filter decides.  A report of lost samples,
\* or a sample without registers, does not get as far.
CheckCancel(w, t) ==
  /\ task[w][t] = "took"
  /\ \/ Goto(w, t, "loop")
     \/ ~cancel[w] /\ Goto(w, t, "handle")
  /\ UNCHANGED <<threadVars, phase, startVars, opened, stopVars, processed, pending, late>>

\* The composing module says what handle_event does with the sample.
Handle(w, t) ==
  /\ task[w][t] = "handle"
  /\ Goto(w, t, "loop")
  /\ late' = [late EXCEPT ![w][t] = IF cancel[w] /\ @ < 2 THEN @ + 1 ELSE @]
  /\ UNCHANGED <<threadVars, phase, startVars, opened, stopVars, processed, pending>>

\* Mutant: the task goes, its perf event stays open.
DropLeak(w, t) ==
  /\ Goto(w, t, "ended")
  /\ pending' = [pending EXCEPT ![w][t] = 0]
  /\ processed' = [processed EXCEPT ![w][t] = 0]
  /\ UNCHANGED <<threadVars, phase, startVars, opened, stopVars, late>>

\* The task is dropped with its PerfMap: the event is closed, the ring unmapped.
Drop(w, t) ==
  /\ Goto(w, t, "ended")
  /\ opened' = [opened EXCEPT ![w] = @ \ {t}]
  /\ pending' = [pending EXCEPT ![w][t] = 0]
  /\ processed' = [processed EXCEPT ![w][t] = 0]
  /\ UNCHANGED <<threadVars, phase, startVars, stopVars, late>>

\* println! panics when stdout is gone; the panic ends this task only.
HandlePanics(w, t) == task[w][t] = "handle" /\ Drop(w, t)

\* Mutant: a task with work left goes on without yielding.
LeaveLoopNoYield(w, t) ==
  /\ task[w][t] = "loop"
  /\ pending[w][t] = 0 \/ processed[w][t] = Batch
  /\ Goto(w, t, "wait")
  /\ processed' = [processed EXCEPT ![w][t] = 0]
  /\ UNCHANGED <<threadVars, phase, startVars, opened, stopVars, pending, late>>

\* The while loop is over.  A full batch yields; with the ring drained the task is back at
\* readable().  With the fd known to be at EPOLLHUP that returns at once, and a task with
\* nothing to read never returns to the runtime.
LeaveLoop(w, t) ==
  /\ task[w][t] = "loop"
  /\ \/ processed[w][t] = Batch /\ Goto(w, t, "queued")
     \/ processed[w][t] < Batch /\ pending[w][t] = 0 /\ Goto(w, t, "wait")
  /\ processed' = [processed EXCEPT ![w][t] = 0]
  /\ UNCHANGED <<threadVars, phase, startVars, opened, stopVars, pending, late>>

\* abort() reaches a task that is waiting: the runtime drops it.
Cancelled(w, t) == t \in aborted[w] /\ AtAwait(w, t) /\ Drop(w, t)

TaskStep(w, t) ==
  \/ Poll(w, t) \/ Park(w, t) \/ Readable(w, t)
  \/ TakeSample(w, t) \/ CheckCancel(w, t) \/ LeaveLoop(w, t) \/ Cancelled(w, t)

-----------------------------------------------------------------------------
(* RunningWatch::stop                                                      *)

StopBegin(w) ==
  /\ phase[w] = "running"
  /\ cancel' = [cancel EXCEPT ![w] = TRUE]
  /\ phase' = [phase EXCEPT ![w] = "aborting"]
  /\ UNCHANGED <<threadVars, startVars, opened, aborted, taskVars>>

HasTask(w) == {t \in Tid : task[w][t] # "none"}

AbortTask(w, t) ==
  /\ phase[w] = "aborting" /\ t \in HasTask(w) \ aborted[w]
  /\ aborted' = [aborted EXCEPT ![w] = @ \cup {t}]
  /\ phase' = [phase EXCEPT ![w] = IF HasTask(w) \subseteq aborted'[w] THEN "joining" ELSE @]
  /\ UNCHANGED <<threadVars, startVars, opened, cancel, taskVars>>

\* Mutant: stop() returns without awaiting the handles.
JoinNoWait(w) ==
  /\ phase[w] = "joining"
  /\ phase' = [phase EXCEPT ![w] = "stopped"]
  /\ UNCHANGED <<threadVars, startVars, opened, stopVars, taskVars>>

\* Every JoinHandle was awaited; it does not matter how its task ended.
Join(w) ==
  /\ phase[w] = "joining" /\ \A t \in HasTask(w) : task[w][t] = "ended"
  /\ phase' = [phase EXCEPT ![w] = "stopped"]
  /\ UNCHANGED <<threadVars, startVars, opened, stopVars, taskVars>>

StopStep(w) == (\E t \in Tid : AbortTask(w, t)) \/ Join(w)

-----------------------------------------------------------------------------
Env ==
  \/ \E t \in Tid : ThreadSpawn(t) \/ ThreadExit(t)
  \/ \E w \in WatchId, t \in Tid : Fire(w, t) \/ SeeExit(w, t) \/ StaleWake(w, t)

Next ==
  \/ Env
  \/ \E w \in WatchId :
       \/ StartProcess(w)
       \/ \E t \in Tid : StartThread(w, t)
       \/ StopBegin(w)
       \/ StopStep(w)
  \/ \E w \in WatchId, t \in Tid : TaskStep(w, t) \/ Handle(w, t)

\* Parking with nothing to read.
ParkDrained(w, t) == pending[w][t] = 0 /\ Park(w, t)

\* The runtime polls every runnable task and carries a started stop() on; nothing
\* obliges the target to run or a caller to stop.  A task that keeps draining its ring is
\* not beaten to readable() by a new sample each time.
Fairness ==
  /\ \A w \in WatchId, t \in Tid :
       WF_vars(TaskStep(w, t) \/ Handle(w, t)) /\ SF_vars(ParkDrained(w, t))
  /\ \A w \in WatchId : WF_vars(StopStep(w))

Spec == Init /\ [][Next]_vars /\ Fairness

-----------------------------------------------------------------------------
Phases == {"idle", "scan", "running", "failed", "aborting", "joining", "stopped"}
Places == {"none", "queued", "wait", "parked", "loop", "took", "handle", "ended"}
Stopping(w) == phase[w] \in {"aborting", "joining"}

TypeOK ==
  /\ thr \in [Tid -> {"unborn", "alive", "dead"}]
  /\ hup \in [WatchId -> SUBSET Tid]
  /\ phase \in [WatchId -> Phases]
  /\ listed \in [WatchId -> SUBSET Tid] /\ scanned \in [WatchId -> SUBSET Tid]
  /\ opened \in [WatchId -> SUBSET Tid] /\ aborted \in [WatchId -> SUBSET Tid]
  /\ task \in [WatchId -> [Tid -> Places]]
  /\ processed \in [WatchId -> [Tid -> 0..Batch]]
  /\ pending \in [WatchId -> [Tid -> 0..RingCap]]
  /\ cancel \in [WatchId -> BOOLEAN]
  /\ late \in [WatchId -> [Tid -> 0..2]]

\* An open perf event always has a task that reads it, from the end of start_watch to
\* the end of the task, and none survives a failed start or a stop(): no debug
\* register of the target is left armed with nobody to release it (watch.rs:132-163,
\* 35-48, perf.rs:190-199).
EventsHaveReaders ==
  \A w \in WatchId :
    /\ phase[w] \in {"idle", "failed", "stopped"} => opened[w] = {}
    /\ phase[w] # "scan" => \A t \in Tid : t \in opened[w] <=> Live(w, t)

\* Once stop() has returned nothing of the watch moves any more; in particular no
\* sample is handed over (watch.rs:41-47).
QuietAfterStop ==
  [][\A w \in WatchId : phase[w] = "stopped" =>
       phase'[w] = "stopped" /\ task'[w] = task[w] /\ opened'[w] = opened[w]]_vars

\* Raising the flag cuts a flood short: a task hands over at most the one sample whose
\* check came before (watch.rs:149-157).
AtMostOneLate == \A w \in WatchId, t \in Tid : late[w][t] <= 1

\* stop() returns, however fast the target keeps hitting the watchpoint, as long as no
\* watched thread has exited (perf.rs:143-145, watch.rs:36-48).
StopReturns ==
  \A w \in WatchId :
    Stopping(w) ~> (phase[w] = "stopped" \/ \E t \in Tid : Exited(t))
=============================================================================

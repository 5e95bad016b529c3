-------------------------------- MODULE Cli --------------------------------
(***************************************************************************)
(* `pwatch watch` (main.rs): parse the arguments, start one watch, wait    *)
(* for the timeout or for ever, stop the watch, return.  The watch is the  *)
(* one of Watch.tla; its handler prints the sample.                        *)
(***************************************************************************)
EXTENDS Naturals, FiniteSets

CONSTANTS
  TheWatch,    \* the single start_watch call
  Tid,         \* threads of the target
  RingCap,     \* unread samples a perf ring holds
  Batch        \* MAX_EVENTS_PER_READINESS

ASSUME CliAssumption == RingCap \in Nat \ {0} /\ Batch \in Nat \ {0}

VARIABLES
  main,        \* where the main task is
  timeout,     \* whether --timeout is not 0
  panics,      \* history: some print failed
  thr, hup, phase, listed, scanned, opened, task, processed, pending, cancel, aborted, late

watchVars == <<thr, hup, phase, listed, scanned, opened, task, processed, pending,
               cancel, aborted, late>>
vars == <<main, timeout, panics, watchVars>>

W == INSTANCE Watch WITH WatchId <- {TheWatch}

Init ==
  /\ W!Init
  /\ main = "args" /\ timeout \in BOOLEAN /\ panics = FALSE

Stay == UNCHANGED <<main, timeout, panics>>

-----------------------------------------------------------------------------
(* into_mode and the first half of run_watch                               *)

\* A missing argument, a bad type, address or filter: main returns the error.
ArgsBad ==
  /\ main = "args"
  /\ main' = "exit"
  /\ UNCHANGED <<timeout, panics, watchVars>>

ArgsOk ==
  /\ main = "args"
  /\ main' = "starting"
  /\ UNCHANGED <<timeout, panics, watchVars>>

Starting ==
  /\ main = "starting"
  /\ W!StartProcess(TheWatch) \/ \E t \in Tid : W!StartThread(TheWatch, t)
  /\ Stay

\* "no valid perf map" is logged and returns Ok, any other error is returned.
StartFailed ==
  /\ main = "starting" /\ phase[TheWatch] = "failed"
  /\ main' = "exit"
  /\ UNCHANGED <<timeout, panics, watchVars>>

Started ==
  /\ main = "starting" /\ phase[TheWatch] = "running"
  /\ main' = IF timeout THEN "sleeping" ELSE "forever"
  /\ UNCHANGED <<timeout, panics, watchVars>>

-----------------------------------------------------------------------------
(* The second half: sleep, then running.stop().await                       *)

TimerFires ==
  /\ main = "sleeping"
  /\ W!StopBegin(TheWatch)
  /\ main' = "stopping"
  /\ UNCHANGED <<timeout, panics>>

Stopping == main = "stopping" /\ W!StopStep(TheWatch) /\ Stay

\* main returns; with it the runtime and every task of the process are gone.
Exit ==
  /\ main = "stopping" /\ phase[TheWatch] = "stopped"
  /\ main' = "exit"
  /\ UNCHANGED <<timeout, panics, watchVars>>

Main ==
  ArgsBad \/ ArgsOk \/ Starting \/ StartFailed \/ Started \/ TimerFires \/ Stopping \/ Exit

-----------------------------------------------------------------------------
(* The watch tasks; handle_event prints                                    *)

PrintSample(t) == W!Handle(TheWatch, t) /\ Stay

PrintFails(t) ==
  /\ W!HandlePanics(TheWatch, t)
  /\ panics' = TRUE
  /\ UNCHANGED <<main, timeout>>

Task(t) == (W!TaskStep(TheWatch, t) /\ Stay) \/ PrintSample(t)

Target == main # "exit" /\ W!Env /\ Stay

Next ==
  \/ Main
  \/ Target
  \/ \E t \in Tid : Task(t) \/ PrintFails(t)

\* The main task and the watch tasks are polled whenever they can run, and the timer
\* fires; the target does as it likes.  Parking is as in Watch.
Spec ==
  /\ Init /\ [][Next]_vars
  /\ WF_vars(Main)
  /\ \A t \in Tid : WF_vars(Task(t)) /\ SF_vars(W!ParkDrained(TheWatch, t) /\ Stay)

-----------------------------------------------------------------------------
\* pwatch sits waiting only over perf events that are open and read, unless a failed
\* print has killed a task (watch.rs:132-134, main.rs:158-172).
WaitingMeansWatching ==
  main \in {"sleeping", "forever"} /\ ~panics =>
    /\ opened[TheWatch] # {}
    /\ \A t \in Tid : t \in opened[TheWatch] <=> W!Live(TheWatch, t)

\* Once main has returned, nothing it started is left: no task runs, no event is open
\* and no sample is printed (main.rs:167-173).
NothingOutlivesMain ==
  main = "exit" => opened[TheWatch] = {} /\ \A t \in Tid : ~W!Live(TheWatch, t)

\* With --timeout, pwatch exits, provided no thread of the target exits first.
TimeoutExitsWhileThreadsLive ==
  main = "sleeping" ~> (main = "exit" \/ \E t \in Tid : W!Exited(t))

\* "exit after this many seconds" (main.rs:32, README.md:30): with --timeout, pwatch exits.
TimeoutExits == main = "sleeping" ~> main = "exit"
=============================================================================

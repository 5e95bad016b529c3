----------------------------- MODULE CliProofs -----------------------------
(***************************************************************************)
(* Proofs about Cli.tla, for any number of threads and of unread samples:  *)
(* while pwatch waits its watch is alive, and nothing of it is left when   *)
(* main has returned.  Both follow from which phases of the watch each     *)
(* place of the main task goes with, and from the watch keeping inside     *)
(* pwatch what it keeps on its own (WatchProofs.tla), although a failed    *)
(* print ends a task there.                                                *)
(* Then about the register filter a command line may hold (Filter.tla), of *)
(* any length: the tokenizer and the parser read it as it is written; and  *)
(* about its predicates (Registers.tla), on either processor: they read    *)
(* the register they name.                                                 *)
(***************************************************************************)
EXTENDS Cli, Filter, Registers, SequenceTheorems, FiniteSetTheorems, WellFoundedInduction,
        TLAPS

WP == INSTANCE WatchProofs WITH WatchId <- {TheWatch}

-----------------------------------------------------------------------------
(* The watch inside pwatch                                                 *)

LEMMA StartIsWatch ==
  W!StartProcess(TheWatch) \/ (\E t \in Tid : W!StartThread(TheWatch, t)) => WP!Next
<1> USE DEF W!threadVars, W!startVars, W!stopVars, W!taskVars,
            WP!threadVars, WP!startVars, WP!stopVars, WP!taskVars
<1>1. ASSUME W!StartFails(TheWatch) PROVE WP!Next
  BY <1>1 DEF W!StartFails, WP!StartFails, WP!Next, WP!StartProcess
<1>2. ASSUME W!StartScan(TheWatch) PROVE WP!Next
  BY <1>2 DEF W!StartScan, WP!StartScan, WP!Next, WP!StartProcess
<1>3. ASSUME NEW t \in Tid, W!OpenThread(TheWatch, t) PROVE WP!Next
  <2>1. WP!OpenThread(TheWatch, t)
    BY <1>3 DEF W!OpenThread, WP!OpenThread
  <2> QED
    BY <2>1 DEF WP!Next, WP!StartProcess
<1>4. ASSUME W!FinishScan(TheWatch) PROVE WP!Next
  BY <1>4 DEF W!FinishScan, W!ListDone, W!Spawned, WP!FinishScan, WP!ListDone, WP!Spawned, WP!Next,
              WP!StartProcess
<1>5. ASSUME NEW t \in Tid, W!StartThread(TheWatch, t) PROVE WP!Next
  <2>1. WP!StartThread(TheWatch, t)
    BY <1>5 DEF W!StartThread, W!Spawned, WP!StartThread, WP!Spawned
  <2> QED
    BY <2>1 DEF WP!Next
<1> QED
  BY <1>1, <1>2, <1>3, <1>4, <1>5 DEF W!StartProcess

LEMMA StopIsWatch == W!StopBegin(TheWatch) \/ W!StopStep(TheWatch) => WP!Next
<1> USE DEF W!threadVars, W!startVars, W!stopVars, W!taskVars,
            WP!threadVars, WP!startVars, WP!stopVars, WP!taskVars
<1>1. ASSUME W!StopBegin(TheWatch) PROVE WP!Next
  BY <1>1 DEF W!StopBegin, WP!StopBegin, WP!Next
<1>2. ASSUME NEW t \in Tid, W!AbortTask(TheWatch, t) PROVE WP!Next
  BY <1>2 DEF W!AbortTask, W!HasTask, WP!AbortTask, WP!HasTask, WP!Next, WP!StopStep
<1>3. ASSUME W!Join(TheWatch) PROVE WP!Next
  BY <1>3 DEF W!Join, W!HasTask, WP!Join, WP!HasTask, WP!Next, WP!StopStep
<1> QED
  BY <1>1, <1>2, <1>3 DEF W!StopStep

LEMMA TaskIsWatch ==
  ASSUME NEW t \in Tid, W!TaskStep(TheWatch, t) \/ W!Handle(TheWatch, t)
  PROVE  (WP!TaskStep(TheWatch, t) \/ WP!Handle(TheWatch, t)) /\ WP!Next
<1> USE DEF W!Goto, W!threadVars, W!startVars, W!stopVars, W!taskVars,
            WP!Goto, WP!threadVars, WP!startVars, WP!stopVars, WP!taskVars
<1>1. CASE W!Poll(TheWatch, t) \/ W!Park(TheWatch, t) \/ W!Readable(TheWatch, t)
  BY <1>1 DEF W!Poll, W!Park, W!Readable, W!EnterLoop, WP!Poll, WP!Park, WP!Readable, WP!EnterLoop,
              WP!TaskStep, WP!Next
<1>2. CASE W!TakeSample(TheWatch, t)
  BY <1>2 DEF W!TakeSample, WP!TakeSample, WP!TaskStep, WP!Next
<1>3. CASE W!CheckCancel(TheWatch, t)
  BY <1>3 DEF W!CheckCancel, WP!CheckCancel, WP!TaskStep, WP!Next
<1>4. CASE W!LeaveLoop(TheWatch, t)
  BY <1>4 DEF W!LeaveLoop, WP!LeaveLoop, WP!TaskStep, WP!Next
<1>5. CASE W!Cancelled(TheWatch, t)
  BY <1>5 DEF W!Cancelled, W!AtAwait, W!Drop, WP!Cancelled, WP!AtAwait, WP!Drop, WP!TaskStep, WP!Next
<1>6. CASE W!Handle(TheWatch, t)
  BY <1>6 DEF W!Handle, WP!Handle, WP!Next
<1> QED
  BY <1>1, <1>2, <1>3, <1>4, <1>5, <1>6 DEF W!TaskStep

LEMMA EnvIsWatch == W!Env => WP!Next
<1> USE DEF W!threadVars, W!startVars, W!stopVars, W!taskVars, W!Exited,
            WP!threadVars, WP!startVars, WP!stopVars, WP!taskVars, WP!Exited
<1>1. ASSUME NEW t \in Tid, W!ThreadSpawn(t) \/ W!ThreadExit(t) PROVE WP!Env
  BY <1>1 DEF W!ThreadSpawn, W!ThreadExit, WP!ThreadSpawn, WP!ThreadExit, WP!Env
<1>2. ASSUME NEW w \in {TheWatch}, NEW t \in Tid, W!Fire(w, t) \/ W!SeeExit(w, t) PROVE WP!Env
  BY <1>2 DEF W!Fire, W!SeeExit, WP!Fire, WP!SeeExit, WP!Env
<1>3. ASSUME NEW w \in {TheWatch}, NEW t \in Tid, W!StaleWake(w, t) PROVE WP!Env
  BY <1>3 DEF W!StaleWake, W!EnterLoop, W!Goto, WP!StaleWake, WP!EnterLoop, WP!Goto, WP!Env
<1> QED
  BY <1>1, <1>2, <1>3 DEF W!Env, WP!Next

\* A failed print is a step of the watch that Watch.tla does not have.
LEMMA PanicIsDrop ==
  ASSUME NEW t \in Tid, PrintFails(t)
  PROVE  WP!Live(TheWatch, t) /\ WP!Drop(TheWatch, t)
<1>1. task[TheWatch][t] = "handle" /\ W!Drop(TheWatch, t)
  BY DEF PrintFails, W!HandlePanics
<1>2. WP!Live(TheWatch, t)
  BY <1>1 DEF WP!Live
<1>3. WP!Drop(TheWatch, t)
  BY <1>1 DEF W!Drop, W!Goto, W!threadVars, W!startVars, W!stopVars,
              WP!Drop, WP!Goto, WP!threadVars, WP!startVars, WP!stopVars
<1> QED
  BY <1>2, <1>3

LEMMA DropTyped ==
  ASSUME WP!TypeOK, NEW t \in Tid, WP!Drop(TheWatch, t)
  PROVE  WP!TypeOK'
<1> USE DEF WP!TypeOK
<1>1. task' \in [{TheWatch} -> [Tid -> WP!Places]]
  BY DEF WP!Drop, WP!Goto, WP!Places
<1>2. opened' \in [{TheWatch} -> SUBSET Tid]
  BY DEF WP!Drop
<1>3. /\ processed' \in [{TheWatch} -> [Tid -> 0..Batch]]
      /\ pending' \in [{TheWatch} -> [Tid -> 0..RingCap]]
  BY CliAssumption DEF CliAssumption, WP!Drop
<1>4. UNCHANGED <<thr, hup, phase, listed, scanned, cancel, aborted, late>>
  BY DEF WP!Drop, WP!threadVars, WP!startVars, WP!stopVars
<1> QED
  BY <1>1, <1>2, <1>3, <1>4

LEMMA WatchKept ==
  WP!TypeOK /\ WP!Fits /\ [Next]_vars => (WP!TypeOK /\ WP!Fits)'
<1> SUFFICES ASSUME WP!TypeOK, WP!Fits, [Next]_vars PROVE (WP!TypeOK /\ WP!Fits)'
  OBVIOUS
<1>1. ASSUME [WP!Next]_WP!vars PROVE (WP!TypeOK /\ WP!Fits)'
  BY <1>1, CliAssumption, WP!NextTypeOK, WP!NextFits DEF CliAssumption
<1>2. ASSUME UNCHANGED watchVars PROVE (WP!TypeOK /\ WP!Fits)'
  BY <1>1, <1>2 DEF watchVars, WP!vars, WP!threadVars, WP!startVars, WP!stopVars, WP!taskVars
<1>3. CASE Main
  BY <1>1, <1>2, <1>3, StartIsWatch, StopIsWatch
     DEF Main, ArgsBad, ArgsOk, Starting, StartFailed, Started, TimerFires, Stopping, Exit
<1>4. CASE Target
  BY <1>1, <1>4, EnvIsWatch DEF Target
<1>5. ASSUME NEW t \in Tid, Task(t) PROVE (WP!TypeOK /\ WP!Fits)'
  BY <1>1, <1>5, TaskIsWatch DEF Task, PrintSample
<1>6. ASSUME NEW t \in Tid, PrintFails(t) PROVE (WP!TypeOK /\ WP!Fits)'
  BY <1>6, CliAssumption, PanicIsDrop, DropTyped, WP!TaskEnds DEF CliAssumption
<1>7. CASE UNCHANGED vars
  BY <1>2, <1>7 DEF vars
<1> QED
  BY <1>3, <1>4, <1>5, <1>6, <1>7 DEF Next

-----------------------------------------------------------------------------
(* What the main task knows of the watch                                   *)

stage == phase[TheWatch]

\* The phases of the watch that each place of the main task goes with.
MainFits ==
  /\ main = "args" => stage = "idle"
  /\ main = "starting" => stage \in {"idle", "scan", "running", "failed"}
  /\ main \in {"sleeping", "forever"} => stage = "running"
  /\ main = "stopping" => stage \in {"aborting", "joining", "stopped"}
  /\ main = "exit" => stage \in {"idle", "failed", "stopped"}
  /\ main \in {"args", "starting", "sleeping", "forever", "stopping", "exit"}

\* Nobody aborts a task before stop(), and tasks that are not aborted end by a failed print
\* only.
TasksGoOn ==
  /\ stage \in {"idle", "scan", "running", "failed"} => aborted[TheWatch] = {}
  /\ stage = "running" /\ ~panics => opened[TheWatch] # {}

CliInv == WP!TypeOK /\ WP!Fits /\ MainFits /\ TasksGoOn

LEMMA InitCli == Init => CliInv
<1> SUFFICES ASSUME Init PROVE CliInv
  OBVIOUS
<1>1. WP!Init
  BY DEF Init, W!Init, WP!Init
<1>2. WP!TypeOK /\ WP!Fits
  BY <1>1, CliAssumption, WP!InitTypeOK, WP!InitFits DEF CliAssumption
<1>3. MainFits /\ TasksGoOn
  BY DEF Init, W!Init, MainFits, TasksGoOn, stage
<1> QED
  BY <1>2, <1>3 DEF CliInv

\* What a step of a task, or its end by a failed print, does to the watch.
LEMMA TaskEffect ==
  ASSUME CliInv, NEW t \in Tid, Task(t) \/ PrintFails(t)
  PROVE  /\ WP!Live(TheWatch, t)
         /\ UNCHANGED <<main, phase, aborted>>
         /\ panics => panics'
         /\ UNCHANGED opened \/ t \in aborted[TheWatch] \/ panics'
<1>1. CASE W!Cancelled(TheWatch, t) /\ Stay
  BY <1>1 DEF W!Cancelled, W!AtAwait, W!Drop, W!stopVars, Stay, WP!Live
<1>2. CASE PrintFails(t)
  BY <1>2 DEF PrintFails, W!HandlePanics, W!Drop, W!stopVars, WP!Live
<1>3. CASE /\ \/ W!TakeSample(TheWatch, t) \/ W!CheckCancel(TheWatch, t)
              \/ W!LeaveLoop(TheWatch, t) \/ W!Handle(TheWatch, t)
           /\ Stay
  BY <1>3 DEF W!TakeSample, W!CheckCancel, W!LeaveLoop, W!Handle, W!stopVars, Stay, WP!Live
<1>4. CASE /\ W!Poll(TheWatch, t) \/ W!Park(TheWatch, t) \/ W!Readable(TheWatch, t)
           /\ Stay
  BY <1>4 DEF W!Poll, W!Park, W!Readable, W!EnterLoop, W!stopVars, Stay, WP!Live
<1> QED
  BY <1>1, <1>2, <1>3, <1>4 DEF Task, PrintSample, W!TaskStep

LEMMA NextMain == CliInv /\ [Next]_vars => (MainFits /\ TasksGoOn)'
<1> SUFFICES ASSUME CliInv, [Next]_vars PROVE (MainFits /\ TasksGoOn)'
  OBVIOUS
<1> DEFINE Good == (MainFits /\ TasksGoOn)'
<1>0. /\ phase \in [{TheWatch} -> WP!Phases] /\ opened \in [{TheWatch} -> SUBSET Tid]
      /\ aborted \in [{TheWatch} -> SUBSET Tid]
      /\ MainFits /\ TasksGoOn
  BY DEF CliInv, WP!TypeOK
<1>1. ASSUME UNCHANGED <<main, panics, phase, opened, aborted>> PROVE Good
  BY <1>0, <1>1 DEF MainFits, TasksGoOn, stage
<1>2. CASE ArgsBad \/ ArgsOk \/ StartFailed \/ Started \/ Exit
  BY <1>0, <1>2 DEF ArgsBad, ArgsOk, StartFailed, Started, Exit, watchVars, MainFits, TasksGoOn, stage
<1>3. CASE Starting
  <2>1. main = "starting" /\ UNCHANGED <<main, panics>>
    BY <1>3 DEF Starting, Stay
  <2>2. CASE W!StartFails(TheWatch) \/ W!StartScan(TheWatch)
    BY <1>0, <2>1, <2>2 DEF W!StartFails, W!StartScan, W!stopVars, MainFits, TasksGoOn, stage
  <2>3. ASSUME NEW t \in Tid, W!OpenThread(TheWatch, t) PROVE Good
    BY <1>0, <2>1, <2>3 DEF W!OpenThread, W!stopVars, MainFits, TasksGoOn, stage
  <2>4. CASE W!FinishScan(TheWatch)
    <3>1. UNCHANGED <<aborted, opened>> /\ stage = "scan"
      BY <2>4 DEF W!FinishScan, W!stopVars, stage
    <3>2. stage' = IF opened[TheWatch] = {} THEN "failed" ELSE "running"
      BY <1>0, <2>4 DEF W!FinishScan, stage
    <3> QED
      BY <1>0, <2>1, <3>1, <3>2 DEF MainFits, TasksGoOn
  <2>5. ASSUME NEW t \in Tid, W!StartThread(TheWatch, t) PROVE Good
    <3>1. aborted' = aborted /\ stage = "idle"
      BY <2>5 DEF W!StartThread, W!stopVars, stage
    <3>2. stage' = "running" /\ opened'[TheWatch] = {t}
      BY <1>0, <2>5 DEF W!StartThread, stage
    <3> QED
      BY <1>0, <2>1, <3>1, <3>2 DEF MainFits, TasksGoOn
  <2> QED
    BY <1>3, <2>2, <2>3, <2>4, <2>5 DEF Starting, W!StartProcess
<1>4. CASE TimerFires
  <2>1. main = "sleeping" /\ main' = "stopping"
    BY <1>4 DEF TimerFires
  <2>2. stage' = "aborting"
    BY <1>0, <1>4 DEF TimerFires, W!StopBegin, stage
  <2> QED
    BY <2>1, <2>2 DEF MainFits, TasksGoOn
<1>5. CASE Stopping
  <2>1. main = "stopping" /\ main' = main
    BY <1>5 DEF Stopping, Stay
  <2>2. stage' \in {"aborting", "joining", "stopped"}
    <3>1. ASSUME NEW t \in Tid, W!AbortTask(TheWatch, t)
          PROVE  stage' \in {"aborting", "joining", "stopped"}
      <4>1. stage = "aborting" /\ (stage' = "joining" \/ stage' = stage)
        BY <1>0, <3>1 DEF W!AbortTask, stage
      <4> QED
        BY <4>1
    <3>2. ASSUME W!Join(TheWatch) PROVE stage' = "stopped"
      BY <1>0, <3>2 DEF W!Join, stage
    <3> QED
      BY <1>5, <3>1, <3>2 DEF Stopping, W!StopStep
  <2> QED
    BY <2>1, <2>2 DEF MainFits, TasksGoOn
<1>6. CASE Target
  <2>1. UNCHANGED <<main, panics>> /\ W!Env
    BY <1>6 DEF Target, Stay
  <2>2. ASSUME NEW t \in Tid, W!ThreadSpawn(t) \/ W!ThreadExit(t)
        PROVE  UNCHANGED <<phase, opened, aborted>>
    BY <2>2 DEF W!ThreadSpawn, W!ThreadExit, W!stopVars
  <2>3. ASSUME NEW w \in {TheWatch}, NEW t \in Tid,
               W!Fire(w, t) \/ W!SeeExit(w, t) \/ W!StaleWake(w, t)
        PROVE  UNCHANGED <<phase, opened, aborted>>
    BY <2>3 DEF W!Fire, W!SeeExit, W!StaleWake, W!EnterLoop, W!stopVars
  <2> QED
    BY <1>1, <2>1, <2>2, <2>3 DEF W!Env
<1>7. ASSUME NEW t \in Tid, Task(t) \/ PrintFails(t) PROVE Good
  <2>1. /\ UNCHANGED <<main, phase, aborted>>
        /\ panics => panics'
        /\ UNCHANGED opened \/ t \in aborted[TheWatch] \/ panics'
    BY <1>7, TaskEffect
  <2> QED
    BY <1>0, <2>1 DEF MainFits, TasksGoOn, stage
<1>8. CASE UNCHANGED vars
  BY <1>1, <1>8 DEF vars, watchVars
<1> QED
  BY <1>2, <1>3, <1>4, <1>5, <1>6, <1>7, <1>8 DEF Next, Main

LEMMA CliInvariance == Spec => []CliInv
<1>1. CliInv /\ [Next]_vars => CliInv'
  BY WatchKept, NextMain DEF CliInv
<1> QED
  BY <1>1, InitCli, PTL DEF Spec

-----------------------------------------------------------------------------
\* While pwatch sleeps or waits for ever, its watch has open perf events and each has its
\* task, unless a failed print killed one (watch.rs:132-134, main.rs:158-172).
THEOREM WaitingIsWatching == Spec => []WaitingMeansWatching
<1>1. CliInv => WaitingMeansWatching
  BY DEF CliInv, MainFits, TasksGoOn, stage, WaitingMeansWatching, WP!Fits,
         WP!EventsHaveReaders, WP!Live, W!Live
<1> QED
  BY <1>1, CliInvariance, PTL

\* When main has returned, by whichever of its ways, no perf event of the watch is open and
\* no task of it runs (main.rs:167-173).
THEOREM MainLeavesNothing == Spec => []NothingOutlivesMain
<1>1. CliInv => NothingOutlivesMain
  BY DEF CliInv, MainFits, stage, NothingOutlivesMain, WP!Fits, WP!EventsHaveReaders, WP!Live, W!Live
<1> QED
  BY <1>1, CliInvariance, PTL

-----------------------------------------------------------------------------
(* The tokenizer of register filters                                       *)

\* Tokens lie in what has been read.
Placed ==
  \A k \in 1..Len(tokens) : tokens[k][1] <= tokens[k][2] /\ tokens[k][2] <= pos

\* No token holds a character that can be in none.
Clean == \A k \in 1..Len(tokens) : \A i \in Span(k) : text[i] # "other"

TokenInv == TokenTypeOK /\ Placed /\ Clean /\ EveryCharacterRead /\ LongestTokens

LEMMA InitTokens == TokenInit => TokenInv
<1> SUFFICES ASSUME TokenInit PROVE TokenInv
  OBVIOUS
<1>1. PICK n \in 0..MaxText : text \in [1..n -> Char]
  BY DEF TokenInit
<1>2. n \in Nat /\ text \in Seq(Char) /\ Len(text) = n
  BY <1>1, TokenAssumption DEF TokenAssumption
<1>3. tokens = <<>> /\ pos = 0 /\ status = "running"
  BY DEF TokenInit
<1>4. tokens \in Seq((1..Len(text)) \X (1..Len(text))) /\ Len(tokens) = 0
  BY <1>3, EmptySeq
<1> QED
  BY <1>2, <1>3, <1>4 DEF TokenInv, TokenTypeOK, Placed, Clean, EveryCharacterRead, LongestTokens

LEMMA SecondSign == \A c \in Sign : Second(c) = IF c \in {"eq", "cmp"} THEN "eq" ELSE c
BY DEF Sign, Second

\* What a lexeme looks like, character by character.
LEMMA LexemeIs ==
  ASSUME NEW s \in Seq(Char)
  PROVE  Lexeme(s) <=> \/ Len(s) = 1 /\ s[1] \in Sign
                       \/ Len(s) = 2 /\ s[1] \in Sign /\ s[2] = Second(s[1])
                       \/ Len(s) > 0 /\ \A i \in 1..Len(s) : s[i] = "word"
<1>1. Len(s) \in Nat
  OBVIOUS
<1>2. s \in {<<c>> : c \in Sign} <=> Len(s) = 1 /\ s[1] \in Sign
  <2>1. ASSUME Len(s) = 1 PROVE s = <<s[1]>>
    BY <2>1
  <2> QED
    BY <2>1
<1>3. s \in {<<"eq", "eq">>, <<"cmp", "eq">>, <<"amp", "amp">>, <<"bar", "bar">>}
        <=> Len(s) = 2 /\ s[1] \in Sign /\ s[2] = Second(s[1])
  <2>1. ASSUME Len(s) = 2 PROVE s = <<s[1], s[2]>>
    BY <2>1
  <2> QED
    BY <2>1, SecondSign DEF Sign
<1> QED
  BY <1>2, <1>3 DEF Lexeme

LEMMA Piece ==
  ASSUME NEW s \in Seq(Char), NEW a \in Nat, NEW b \in a + 1..Len(s)
  PROVE  /\ SubSeq(s, a + 1, b) \in Seq(Char) /\ Len(SubSeq(s, a + 1, b)) = b - a
         /\ \A i \in 1..b - a : SubSeq(s, a + 1, b)[i] = s[a + i]
         /\ SubSeq(s, a + 1, b)[1] = s[a + 1]
         /\ b > a + 1 => SubSeq(s, a + 1, b)[2] = s[a + 2]
<1>1. a + 1 \in 1..Len(s) + 1 /\ b \in 0..Len(s) /\ Len(s) \in Nat /\ a + 1 <= b
  BY LenProperties
<1>2. /\ SubSeq(s, a + 1, b) \in Seq(Char) /\ Len(SubSeq(s, a + 1, b)) = b - a
      /\ \A i \in 1..b - a : SubSeq(s, a + 1, b)[i] = s[a + i]
  BY <1>1
<1>3. 1 \in 1..b - a /\ (b > a + 1 => 2 \in 1..b - a)
  BY <1>1
<1> QED
  BY <1>2, <1>3

LEMMA Pushed ==
  ASSUME TokenInv, NEW to \in pos + 1..Len(text), Push(to), UNCHANGED <<text, status>>,
         status = "running",
         \A i \in pos + 1..to : text[i] # "blank" /\ text[i] # "other",
         Lexeme(SubSeq(text, pos + 1, to)),
         to < Len(text) => ~Lexeme(SubSeq(text, pos + 1, to + 1))
  PROVE  TokenInv'
<1> DEFINE T == (1..Len(text)) \X (1..Len(text))
           token == <<pos + 1, to>>
           NewSpan(k) == tokens'[k][1]..tokens'[k][2]
<1>0. PICK n \in Nat : n = Len(tokens)
  <2>1. tokens \in Seq(T)
    BY DEF TokenInv, TokenTypeOK
  <2> QED
    BY <2>1, LenProperties
<1>1. text \in Seq(Char) /\ Len(text) \in Nat /\ pos \in Nat /\ pos <= Len(text) /\ to \in Nat
      /\ tokens \in Seq(T)
  BY DEF TokenInv, TokenTypeOK
<1>2. token \in T /\ pos' = to /\ pos < to /\ to <= Len(text)
  BY <1>1 DEF Push
<1>3. tokens' \in Seq(T) /\ Len(tokens') = n + 1
      /\ tokens'[n + 1] = token /\ \A k \in 1..n : tokens'[k] = tokens[k]
  <2>1. tokens' = Append(tokens, token)
    BY DEF Push
  <2> HIDE DEF T, token
  <2>2. /\ Append(tokens, token) \in Seq(T) /\ Len(Append(tokens, token)) = Len(tokens) + 1
        /\ Append(tokens, token)[Len(tokens) + 1] = token
        /\ \A k \in 1..Len(tokens) : Append(tokens, token)[k] = tokens[k]
    BY <1>1, <1>2, AppendProperties
  <2> QED
    BY <1>0, <2>1, <2>2
<1> HIDE DEF T, NewSpan
<1>4. TokenTypeOK'
  BY <1>1, <1>2, <1>3 DEF TokenInv, TokenTypeOK, T
<1>5. ASSUME NEW k \in 1..n
      PROVE  tokens[k][1] \in Nat /\ tokens[k][2] \in Nat
             /\ tokens[k][1] <= tokens[k][2] /\ tokens[k][2] <= pos
  <2>1. tokens[k] \in T
    BY <1>0, <1>1, <1>5
  <2> QED
    BY <1>0, <1>1, <1>5, <2>1 DEF TokenInv, Placed, T
<1>6. Placed'
  <2> SUFFICES ASSUME NEW k \in 1..n + 1
               PROVE  tokens'[k][1] <= tokens'[k][2] /\ tokens'[k][2] <= to
    BY <1>2, <1>3 DEF Placed
  <2>1. CASE k = n + 1
    BY <1>1, <1>2, <1>3, <2>1
  <2>2. CASE k \in 1..n
    <3>1. tokens'[k] = tokens[k]
      BY <1>3, <2>2
    <3>2. tokens[k][1] <= tokens[k][2] /\ tokens[k][2] <= to
      BY <1>1, <1>2, <1>5, <2>2
    <3> QED
      BY <3>1, <3>2
  <2> QED
    BY <2>1, <2>2
<1>spans. (\A k \in 1..n : NewSpan(k) = Span(k)) /\ NewSpan(n + 1) = pos + 1..to
  BY <1>3 DEF Span, NewSpan
<1>clean. Clean'
  <2> SUFFICES ASSUME NEW k \in 1..n + 1, NEW i \in NewSpan(k) PROVE text[i] # "other"
    BY <1>3 DEF Clean, Span, NewSpan
  <2>1. CASE k = n + 1
    BY <1>spans, <2>1
  <2>2. CASE k \in 1..n
    BY <1>0, <1>spans, <2>2 DEF TokenInv, Clean
  <2> QED
    BY <2>1, <2>2
<1>7. EveryCharacterRead'
  <2>1. \A k \in 1..n : NewSpan(k) = Span(k)
    BY <1>spans
  <2>2. NewSpan(n + 1) = pos + 1..to
    BY <1>spans
  <2>3. ASSUME NEW k \in 1..n, NEW i \in Span(k)
        PROVE  i \in Nat /\ i <= pos /\ i <= to /\ text[i] # "blank"
    <3>1. i <= pos /\ text[i] # "blank"
      BY <1>0, <2>3 DEF TokenInv, EveryCharacterRead
    <3>2. i \in Nat
      BY <1>5, <2>3 DEF Span
    <3> QED
      BY <1>1, <1>2, <3>1, <3>2
  <2>4. ASSUME NEW i \in 1..to
        PROVE  text[i] = "blank" <=> \A k \in 1..n + 1 : i \notin NewSpan(k)
    <3>1. CASE i \in 1..pos
      <4>1. text[i] = "blank" <=> \A k \in 1..n : i \notin Span(k)
        BY <1>0, <3>1 DEF TokenInv, EveryCharacterRead
      <4>2. i \notin NewSpan(n + 1)
        BY <1>1, <2>2, <3>1
      <4>3. (\A k \in 1..n + 1 : i \notin NewSpan(k)) <=> \A k \in 1..n : i \notin NewSpan(k)
        BY <4>2
      <4> QED
        BY <2>1, <4>1, <4>3
    <3>2. CASE i \in pos + 1..to
      <4>1. i \in NewSpan(n + 1)
        BY <2>2, <3>2
      <4>2. text[i] # "blank"
        BY <3>2
      <4>3. n + 1 \in 1..n + 1
        OBVIOUS
      <4> QED
        BY <4>1, <4>2, <4>3
    <3> QED
      BY <1>1, <3>1, <3>2
  <2>5. ASSUME NEW k \in 1..n + 1, NEW i \in NewSpan(k) PROVE i <= to /\ text[i] # "blank"
    <3>1. CASE k = n + 1
      <4>1. i \in pos + 1..to
        BY <2>2, <3>1
      <4> QED
        BY <1>1, <4>1
    <3>2. CASE k \in 1..n
      BY <2>1, <2>3, <3>2
    <3> QED
      BY <3>1, <3>2
  <2>6. ASSUME NEW k \in 2..n + 1 PROVE tokens'[k - 1][2] < tokens'[k][1]
    <3>1. CASE k = n + 1
      <4>1. k - 1 \in 1..n /\ k - 1 = n
        BY <3>1
      <4>2. tokens'[k - 1] = tokens[k - 1] /\ tokens'[k][1] = pos + 1
        BY <1>3, <3>1, <4>1
      <4> QED
        BY <1>1, <1>5, <4>1, <4>2
    <3>2. CASE k \in 2..n
      <4>1. k - 1 \in 1..n /\ k \in 1..n
        BY <3>2
      <4>2. tokens[k - 1][2] < tokens[k][1]
        BY <1>0, <3>2 DEF TokenInv, EveryCharacterRead
      <4> QED
        BY <1>3, <4>1, <4>2
    <3> QED
      BY <3>1, <3>2
  <2>7. status' # "done" /\ status' # "rejected" /\ text' = text
    OBVIOUS
  <2> QED
    BY <1>2, <1>3, <2>4, <2>5, <2>6, <2>7 DEF EveryCharacterRead, Span, NewSpan
<1>8. LongestTokens'
  <2> SUFFICES ASSUME NEW k \in 1..n + 1
               PROVE  /\ Lexeme(SubSeq(text, tokens'[k][1], tokens'[k][2]))
                      /\ tokens'[k][2] < Len(text) =>
                           ~Lexeme(SubSeq(text, tokens'[k][1], tokens'[k][2] + 1))
    BY <1>3 DEF LongestTokens
  <2>1. CASE k = n + 1
    BY <1>3, <2>1
  <2>2. CASE k \in 1..n
    BY <1>0, <1>3, <2>2 DEF TokenInv, LongestTokens
  <2> QED
    BY <2>1, <2>2
<1> QED
  BY <1>4, <1>6, <1>clean, <1>7, <1>8 DEF TokenInv

LEMMA NextTokens == TokenInv /\ [TokenNext]_tokenVars => TokenInv'
<1> SUFFICES ASSUME TokenInv, [TokenNext]_tokenVars PROVE TokenInv'
  OBVIOUS
<1>1. text \in Seq(Char) /\ Len(text) \in Nat /\ pos \in Nat /\ pos <= Len(text)
  BY DEF TokenInv, TokenTypeOK
<1>2. CASE Space
  <2>1. pos' = pos + 1 /\ pos + 1 <= Len(text) /\ text[pos + 1] = "blank" /\ status = "running"
        /\ UNCHANGED <<text, tokens, status>>
    BY <1>1, <1>2 DEF Space, More, Next1
  <2>2. TokenTypeOK' /\ LongestTokens'
    BY <1>1, <2>1 DEF TokenInv, TokenTypeOK, LongestTokens
  <2>3. \A k \in 1..Len(tokens) : tokens[k][1] \in Nat /\ tokens[k][2] \in Nat
    BY <1>1 DEF TokenInv, TokenTypeOK
  <2>4. Placed' /\ Clean'
    BY <1>1, <2>1, <2>3 DEF TokenInv, Placed, Clean, Span
  <2>5. EveryCharacterRead'
    <3>1. \A k : Span(k)' = Span(k)
      BY <2>1 DEF Span
    <3>2. \A k \in 1..Len(tokens) : \A i \in Span(k) : i \in Nat /\ i <= pos /\ text[i] # "blank"
      BY <2>3 DEF TokenInv, EveryCharacterRead, Span
    <3>3. ASSUME NEW i \in 1..pos + 1
          PROVE  text[i] = "blank" <=> \A k \in 1..Len(tokens) : i \notin Span(k)
      <4>1. CASE i = pos + 1
        BY <1>1, <2>1, <3>2, <4>1
      <4>2. CASE i \in 1..pos
        BY <4>2 DEF TokenInv, EveryCharacterRead
      <4> QED
        BY <1>1, <4>1, <4>2
    <3> QED
      BY <1>1, <2>1, <3>1, <3>2, <3>3 DEF TokenInv, EveryCharacterRead
  <2> QED
    BY <2>2, <2>4, <2>5 DEF TokenInv
<1>3. CASE Operator
  <2> DEFINE c == text[pos + 1]
             double == pos + 1 < Len(text) /\ text[pos + 2] = Second(c)
             to == IF double THEN pos + 2 ELSE pos + 1
  <2>1. c \in Sign /\ Push(to) /\ UNCHANGED <<text, status>> /\ status = "running"
        /\ pos + 1 <= Len(text)
    BY <1>1, <1>3 DEF Operator, More, Next1
  <2>2. to \in pos + 1..Len(text)
    BY <1>1, <2>1
  <2>3. c # "blank" /\ c # "other" /\ c # "word" /\ Second(c) \in Sign
    BY <2>1, SecondSign DEF Sign
  <2>4. \A i \in pos + 1..to : text[i] # "blank" /\ text[i] # "other"
    BY <1>1, <2>3 DEF Sign
  <2> DEFINE S(b) == SubSeq(text, pos + 1, b)
  <2>5. ASSUME NEW b \in pos + 1..Len(text)
        PROVE  /\ S(b) \in Seq(Char) /\ Len(S(b)) = b - pos /\ S(b)[1] = c
               /\ b > pos + 1 => S(b)[2] = text[pos + 2]
    BY <1>1, Piece
  <2> HIDE DEF S, c
  <2>6. Lexeme(S(to))
    <3>1. CASE double
      <4>1. to = pos + 2 /\ to - pos = 2 /\ to > pos + 1 /\ text[pos + 2] = Second(c)
        BY <1>1, <3>1
      <4>2. Len(S(to)) = 2 /\ S(to)[1] = c /\ S(to)[2] = Second(c)
        BY <2>2, <2>5, <4>1
      <4> QED
        BY <2>1, <2>2, <2>5, <4>2, LexemeIs
    <3>2. CASE ~double
      <4>1. to = pos + 1 /\ to - pos = 1
        BY <1>1, <3>2
      <4>2. Len(S(to)) = 1 /\ S(to)[1] = c
        BY <2>2, <2>5, <4>1
      <4> QED
        BY <2>1, <2>2, <2>5, <4>2, LexemeIs
    <3> QED
      BY <3>1, <3>2
  <2>7. ASSUME to < Len(text) PROVE ~Lexeme(S(to + 1))
    <3>1. to + 1 \in pos + 1..Len(text)
      BY <1>1, <2>2, <2>7
    <3>2. S(to + 1) \in Seq(Char) /\ S(to + 1)[1] # "word" /\ Len(S(to + 1)) >= 2
      BY <1>1, <2>3, <2>5, <3>1
    <3>3. CASE double
      <4>1. PICK b \in pos + 1..Len(text) : b = to + 1 /\ b - pos = 3
        BY <1>1, <3>1, <3>3
      <4>2. Len(S(to + 1)) = 3
        BY <2>5, <4>1
      <4> QED
        BY <3>2, <4>2, LexemeIs
    <3>4. CASE ~double
      <4>1. to + 1 > pos + 1 /\ text[pos + 2] # Second(c)
        BY <1>1, <2>7, <3>4
      <4>2. S(to + 1)[1] = c /\ S(to + 1)[2] # Second(c)
        BY <2>5, <3>1, <4>1
      <4> QED
        BY <3>2, <4>2, LexemeIs
    <3> QED
      BY <3>3, <3>4
  <2> QED
    BY <2>1, <2>2, <2>4, <2>6, <2>7, Pushed DEF S
<1>4. CASE Word
  <2>1. PICK to \in pos + 1..Len(text) :
          /\ \A i \in pos + 1..to : text[i] = "word"
          /\ to < Len(text) => text[to + 1] # "word"
          /\ Push(to)
    BY <1>4 DEF Word
  <2>2. UNCHANGED <<text, status>> /\ status = "running"
    BY <1>4 DEF Word, More
  <2> DEFINE S(b) == SubSeq(text, pos + 1, b)
  <2>3. ASSUME NEW b \in pos + 1..Len(text)
        PROVE  /\ S(b) \in Seq(Char) /\ Len(S(b)) = b - pos
               /\ \A i \in 1..b - pos : S(b)[i] = text[pos + i]
    BY <1>1, Piece
  <2> HIDE DEF S
  <2>4. Lexeme(S(to))
    <3>1. Len(S(to)) > 0 /\ \A i \in 1..Len(S(to)) : S(to)[i] = "word"
      <4>1. to - pos \in Nat /\ to - pos > 0 /\ \A i \in 1..to - pos : pos + i \in pos + 1..to
        BY <1>1
      <4> QED
        BY <2>1, <2>3, <4>1
    <3> QED
      BY <2>3, <3>1, LexemeIs
  <2>5. ASSUME to < Len(text) PROVE ~Lexeme(S(to + 1))
    <3>1. PICK b \in pos + 1..Len(text) : b = to + 1
      BY <1>1, <2>5
    <3>2. PICK d \in Nat : d = b - pos /\ d >= 2 /\ pos + d = b /\ 1 \in 1..d /\ d \in 1..d
      BY <1>1, <3>1
    <3>3. S(b) \in Seq(Char) /\ Len(S(b)) = d /\ \A i \in 1..d : S(b)[i] = text[pos + i]
      BY <2>3, <3>2
    <3>4. text[pos + 1] = "word" /\ text[pos + d] # "word"
      BY <1>1, <2>1, <2>5, <3>1, <3>2
    <3>5. S(b)[1] = "word" /\ S(b)[d] # "word"
      BY <3>2, <3>3, <3>4
    <3>6. ~Lexeme(S(b))
      BY <3>2, <3>3, <3>5, LexemeIs DEF Sign
    <3> QED
      BY <3>1, <3>6
  <2> QED
    BY <2>1, <2>2, <2>4, <2>5, Pushed DEF S
<1>5. CASE Unexpected
  <2>1. pos + 1 <= Len(text) /\ text[pos + 1] = "other" /\ status' = "rejected"
        /\ UNCHANGED <<text, pos, tokens>>
    BY <1>1, <1>5 DEF Unexpected, More, Next1
  <2> QED
    BY <2>1 DEF TokenInv, TokenTypeOK, Placed, Clean, EveryCharacterRead, LongestTokens, Span
<1>6. CASE End
  <2>1. pos = Len(text) /\ status' = "done" /\ UNCHANGED <<text, pos, tokens>>
    BY <1>6 DEF End
  <2>2. ASSUME NEW i \in 1..Len(text) PROVE text[i] # "other"
    <3>1. CASE text[i] = "blank"
      BY <3>1
    <3>2. CASE text[i] # "blank"
      <4>0. i \in 1..pos
        BY <2>1
      <4>1. \E k \in 1..Len(tokens) : i \in Span(k)
        BY <3>2, <4>0, Zenon DEF TokenInv, EveryCharacterRead
      <4> QED
        BY <4>1 DEF TokenInv, Clean
    <3> QED
      BY <3>1, <3>2
  <2>3. EveryCharacterRead'
    BY <2>1, <2>2 DEF TokenInv, EveryCharacterRead, Span
  <2> QED
    BY <2>1, <2>3 DEF TokenInv, TokenTypeOK, Placed, Clean, LongestTokens, Span
<1>7. CASE UNCHANGED tokenVars
  BY <1>7 DEF tokenVars, TokenInv, TokenTypeOK, Placed, Clean, EveryCharacterRead, LongestTokens, Span
<1> QED
  BY <1>2, <1>3, <1>4, <1>5, <1>6, <1>7 DEF TokenNext

-----------------------------------------------------------------------------
(* The grammar of register filters                                         *)

\* Every set of numbers has a smallest.
LEMMA SmallestExists ==
  ASSUME NEW S \in SUBSET Nat, S # {}
  PROVE  \E x \in S : \A y \in S : x <= y
<1> DEFINE R == {ss \in Nat \X Nat : ss[1] < ss[2]}
<1>1. IsWellFoundedOn(R, Nat)
  BY NatLessThanWellFounded DEF OpToRel
<1> HIDE DEF R
<1>2. PICK x \in S : \A y \in S : ~(<<y, x>> \in R)
  BY <1>1, WFMin, Zenon
<1>3. ASSUME NEW y \in S PROVE x <= y
  <2>1. x \in Nat /\ y \in Nat
    OBVIOUS
  <2>2. <<y, x>> \notin R
    BY <1>2
  <2>3. ~(y < x)
    BY <2>1, <2>2 DEF R
  <2> QED
    BY <2>1, <2>3
<1> QED
  BY <1>3

\* The filters of at most n predicates, by their number.
Levels(g, n) ==
  /\ g = [i \in 0..n |-> g[i]]
  /\ \A i \in 0..n : g[i] = IF i <= 1 THEN PredicateText ELSE Longer(g[i - 1])

LEMMA LevelsExist == \A n \in Nat : \E g : Levels(g, n)
<1> DEFINE S == {n \in Nat : ~\E g : Levels(g, n)}
<1> SUFFICES ASSUME S # {} PROVE FALSE
  OBVIOUS
<1>1. PICK m \in S : \A k \in S : m <= k
  BY SmallestExists
<1>2. m \in Nat /\ ~\E g : Levels(g, m)
  OBVIOUS
<1>3. CASE m = 0
  <2> DEFINE h == [i \in 0..0 |-> PredicateText]
  <2>1. h = [i \in 0..0 |-> h[i]] /\ \A i \in 0..0 : h[i] = PredicateText /\ i <= 1
    OBVIOUS
  <2> HIDE DEF h
  <2>2. Levels(h, 0)
    BY <2>1 DEF Levels
  <2> QED
    BY <1>2, <1>3, <2>2
<1>4. CASE m # 0
  <2>1. m - 1 \in Nat /\ m - 1 \notin S
    BY <1>1, <1>2, <1>4
  <2>2. PICK g : Levels(g, m - 1)
    BY <2>1
  <2> DEFINE h == [i \in 0..m |-> IF i = m THEN IF m <= 1 THEN PredicateText ELSE Longer(g[m - 1])
                                  ELSE g[i]]
  <2>3. \A i \in 0..m - 1 : h[i] = g[i]
    BY <1>2
  <2>4. h[m] = IF m <= 1 THEN PredicateText ELSE Longer(g[m - 1])
    BY <1>2
  <2>5. h = [i \in 0..m |-> h[i]]
    OBVIOUS
  <2> HIDE DEF h
  <2>6. ASSUME NEW i \in 0..m
        PROVE  h[i] = IF i <= 1 THEN PredicateText ELSE Longer(h[i - 1])
    <3>1. CASE i = m
      <4>1. m - 1 \in 0..m - 1
        BY <2>1
      <4> QED
        BY <2>3, <2>4, <3>1, <4>1
    <3>2. CASE i # m
      <4>1. i \in 0..m - 1 /\ (~(i <= 1) => i - 1 \in 0..m - 1)
        BY <1>2, <3>2
      <4>2. g[i] = IF i <= 1 THEN PredicateText ELSE Longer(g[i - 1])
        BY <2>2, <4>1 DEF Levels
      <4> QED
        BY <2>3, <4>1, <4>2
    <3> QED
      BY <3>1, <3>2
  <2>7. Levels(h, m)
    BY <2>5, <2>6 DEF Levels
  <2> QED
    BY <1>2, <2>7
<1> QED
  BY <1>3, <1>4

LEMMA LevelsAgree ==
  ASSUME NEW n \in Nat, NEW m \in Nat, n <= m, NEW g, Levels(g, n), NEW h, Levels(h, m),
         NEW i \in 0..n
  PROVE  g[i] = h[i]
<1> DEFINE S == {j \in 0..n : g[j] # h[j]}
<1> SUFFICES ASSUME S # {} PROVE FALSE
  OBVIOUS
<1>0. S \in SUBSET Nat
  OBVIOUS
<1>1. PICK k \in S : \A j \in S : k <= j
  <2> HIDE DEF S
  <2> QED
    BY <1>0, SmallestExists
<1>2. k \in 0..n /\ k \in 0..m /\ g[k] # h[k]
  OBVIOUS
<1>3. /\ g[k] = IF k <= 1 THEN PredicateText ELSE Longer(g[k - 1])
      /\ h[k] = IF k <= 1 THEN PredicateText ELSE Longer(h[k - 1])
  BY <1>2 DEF Levels
<1>4. ~(k <= 1)
  BY <1>2, <1>3
<1>5. k - 1 \in 0..n /\ k - 1 \notin S
  BY <1>1, <1>2, <1>4
<1>6. g[k - 1] = h[k - 1]
  BY <1>5
<1> QED
  BY <1>2, <1>3, <1>6

\* Texts is what its definition says.
LEMMA TextsDef ==
  \A n \in Nat : Texts[n] = IF n <= 1 THEN PredicateText ELSE Longer(Texts[n - 1])
<1> DEFINE G(n) == CHOOSE g : Levels(g, n)
           f == [n \in Nat |-> G(n)[n]]
<1>1. \A n \in Nat : Levels(G(n), n)
  BY LevelsExist
<1> HIDE DEF G
<1>2. ASSUME NEW n \in Nat
      PROVE  f[n] = IF n <= 1 THEN PredicateText ELSE Longer(f[n - 1])
  <2>1. n \in 0..n
    OBVIOUS
  <2>2. G(n)[n] = IF n <= 1 THEN PredicateText ELSE Longer(G(n)[n - 1])
    BY <1>1, <2>1 DEF Levels
  <2>3. CASE n <= 1
    BY <2>2, <2>3
  <2>4. CASE ~(n <= 1)
    <3>1. n - 1 \in Nat /\ n - 1 \in 0..n - 1 /\ n - 1 <= n
      BY <2>4
    <3>2. G(n - 1)[n - 1] = G(n)[n - 1]
      BY <1>1, <3>1, LevelsAgree
    <3>3. f[n] = G(n)[n] /\ f[n - 1] = G(n - 1)[n - 1]
      BY <3>1
    <3> QED
      BY <2>2, <2>4, <3>2, <3>3
  <2> QED
    BY <2>3, <2>4
<1>3. f = [n \in Nat |-> IF n <= 1 THEN PredicateText ELSE Longer(f[n - 1])]
  BY <1>2
<1> DEFINE Recursion(g) == g = [n \in Nat |-> IF n <= 1 THEN PredicateText ELSE Longer(g[n - 1])]
<1> HIDE DEF f
<1>4. Recursion(f)
  BY <1>3
<1>5. Texts = CHOOSE g : Recursion(g)
  BY DEF Texts
<1>6. Recursion(Texts)
  <2> HIDE DEF Recursion
  <2> QED
    BY <1>4, <1>5
<1> QED
  BY <1>6

\* The filters of any length.
Text == UNION {Texts[n] : n \in Nat \ {0}}

\* What there is before a predicate: nothing, or a filter and what joins it to the next.
Start == {<<>>} \cup {Append(t, c) : t \in Text, c \in Joint}

\* A predicate begins after the first q tokens.
PredicateAt(t, q) ==
  \/ /\ Len(t) >= q + 3
     /\ t[q + 1] = "reg" /\ t[q + 2] = "op" /\ t[q + 3] = "num"
  \/ /\ Len(t) >= q + 5
     /\ t[q + 1] = "reg" /\ t[q + 2] = "amp" /\ t[q + 3] = "num"
     /\ t[q + 4] = "op" /\ t[q + 5] = "num"

\* How long it is.
SizeAt(t, q) == IF t[q + 2] = "amp" THEN 5 ELSE 3

Prefix(u, t) == Len(u) <= Len(t) /\ \A i \in 1..Len(u) : t[i] = u[i]

LEMMA Predicates35 ==
  ASSUME NEW p \in PredicateText
  PROVE  /\ p \in Seq(Token) /\ PredicateAt(p, 0) /\ Len(p) = SizeAt(p, 0)
         /\ Len(p) \in {3, 5}
         /\ Len(p) = 3 => p[1] = "reg" /\ p[2] = "op" /\ p[3] = "num"
<1>1. CASE p = <<"reg", "op", "num">>
  <2>1. Len(p) = 3 /\ p[1] = "reg" /\ p[2] = "op" /\ p[3] = "num" /\ p \in Seq(Token)
    BY <1>1 DEF Token, Joint
  <2> QED
    BY <2>1 DEF PredicateAt, SizeAt
<1>2. CASE p = <<"reg", "amp", "num", "op", "num">>
  <2>1. /\ Len(p) = 5 /\ p[1] = "reg" /\ p[2] = "amp" /\ p[3] = "num" /\ p[4] = "op"
        /\ p[5] = "num" /\ p \in Seq(Token)
    BY <1>2 DEF Token, Joint
  <2> QED
    BY <2>1 DEF PredicateAt, SizeAt
<1> QED
  BY <1>1, <1>2 DEF PredicateText

\* A predicate is where it is in whatever the text goes on with.
LEMMA PredicateCarries ==
  ASSUME NEW u \in Seq(Token), NEW t \in Seq(Token), Len(u) <= Len(t),
         \A i \in 1..Len(u) : t[i] = u[i], NEW q \in Nat, PredicateAt(u, q)
  PROVE  PredicateAt(t, q) /\ SizeAt(t, q) = SizeAt(u, q) /\ Len(u) >= q + SizeAt(u, q)
<1>1. Len(u) \in Nat /\ Len(t) \in Nat
  OBVIOUS
<1>2. CASE SizeAt(u, q) = 5
  <2>1. Len(u) >= q + 5
    BY <1>2 DEF PredicateAt, SizeAt
  <2>2. /\ t[q + 1] = u[q + 1] /\ t[q + 2] = u[q + 2] /\ t[q + 3] = u[q + 3]
        /\ t[q + 4] = u[q + 4] /\ t[q + 5] = u[q + 5]
    BY <1>1, <2>1
  <2> QED
    BY <1>1, <1>2, <2>1, <2>2 DEF PredicateAt, SizeAt
<1>3. CASE SizeAt(u, q) # 5
  <2>1. Len(u) >= q + 3 /\ SizeAt(u, q) = 3 /\ u[q + 2] = "op"
    BY <1>3 DEF PredicateAt, SizeAt
  <2>2. t[q + 1] = u[q + 1] /\ t[q + 2] = u[q + 2] /\ t[q + 3] = u[q + 3]
    BY <1>1, <2>1
  <2> QED
    BY <1>1, <1>3, <2>1, <2>2 DEF PredicateAt, SizeAt
<1> QED
  BY <1>2, <1>3

\* A predicate after b.
LEMMA Joined ==
  ASSUME NEW b \in Seq(Token), NEW p \in PredicateText
  PROVE  /\ b \o p \in Seq(Token) /\ Prefix(b, b \o p)
         /\ Len(b \o p) = Len(b) + SizeAt(b \o p, Len(b))
         /\ SizeAt(b \o p, Len(b)) \in {3, 5}
         /\ PredicateAt(b \o p, Len(b))
<1>1. p \in Seq(Token) /\ PredicateAt(p, 0) /\ Len(p) = SizeAt(p, 0) /\ Len(p) \in {3, 5}
  BY Predicates35
<1> DEFINE t == b \o p
<1>2. t \in Seq(Token) /\ Len(t) = Len(b) + Len(p)
  BY <1>1, ConcatProperties
<1>3. /\ \A i \in 1..Len(b) : t[i] = b[i]
      /\ \A j \in 1..Len(p) : t[Len(b) + j] = p[j]
  BY <1>1, ConcatProperties
<1>4. Len(b) \in Nat
  OBVIOUS
<1> HIDE DEF t
<1>5. SizeAt(t, Len(b)) = Len(p) /\ PredicateAt(t, Len(b))
  <2>1. CASE Len(p) = 3
    <3>1. t[Len(b) + 1] = p[1] /\ t[Len(b) + 2] = p[2] /\ t[Len(b) + 3] = p[3]
      BY <1>3, <2>1
    <3>2. Len(t) = Len(b) + 3
      BY <1>2, <2>1
    <3>3. p[1] = "reg" /\ p[2] = "op" /\ p[3] = "num"
      BY <2>1, Predicates35
    <3> QED
      BY <1>4, <2>1, <3>1, <3>2, <3>3 DEF SizeAt, PredicateAt
  <2>2. CASE Len(p) = 5
    <3>1. /\ t[Len(b) + 1] = p[1] /\ t[Len(b) + 2] = p[2] /\ t[Len(b) + 3] = p[3]
          /\ t[Len(b) + 4] = p[4] /\ t[Len(b) + 5] = p[5]
      BY <1>3, <2>2
    <3> QED
      BY <1>1, <1>2, <1>4, <2>2, <3>1 DEF SizeAt, PredicateAt
  <2> QED
    BY <1>1, <2>1, <2>2
<1>6. Prefix(b, t)
  BY <1>1, <1>2, <1>3, <1>4 DEF Prefix
<1> QED
  BY <1>1, <1>2, <1>5, <1>6 DEF t

LEMMA LongerIs ==
  \A T, s : s \in Longer(T) <=> \E t \in T, c \in Joint, p \in PredicateText : s = Join(t, c, p)
BY DEF Longer

LEMMA TextSteps ==
  /\ Texts[1] = PredicateText
  /\ \A n \in Nat \ {0} : Texts[n + 1] = Longer(Texts[n])
<1>1. Texts[1] = PredicateText
  BY TextsDef
<1>2. ASSUME NEW n \in Nat \ {0} PROVE Texts[n + 1] = Longer(Texts[n])
  <2>1. n + 1 \in Nat /\ ~(n + 1 <= 1) /\ (n + 1) - 1 = n
    OBVIOUS
  <2> QED
    BY <2>1, TextsDef
<1> QED
  BY <1>1, <1>2

\* A filter has at least four tokens a predicate, but for the last.
LEMMA TextFacts ==
  ASSUME NEW n \in Nat \ {0}, NEW t \in Texts[n]
  PROVE  t \in Seq(Token) /\ Len(t) >= 4 * n - 1 /\ PredicateAt(t, 0)
<1> DEFINE Fine(k) == \A s \in Texts[k] :
                        s \in Seq(Token) /\ Len(s) >= 4 * k - 1 /\ PredicateAt(s, 0)
           S == {k \in Nat \ {0} : ~Fine(k)}
<1> HIDE DEF Fine
<1>0. S = {} => Fine(n)
  OBVIOUS
<1> SUFFICES ASSUME S # {} PROVE FALSE
  BY <1>0 DEF Fine
<1>1. PICK m \in S : \A k \in S : m <= k
  BY SmallestExists
<1>2. m \in Nat \ {0} /\ ~Fine(m)
  OBVIOUS
<1>3. CASE m = 1
  <2>1. ASSUME NEW s \in Texts[1] PROVE s \in Seq(Token) /\ Len(s) >= 3 /\ PredicateAt(s, 0)
    <3>1. s \in PredicateText
      BY TextSteps, Zenon
    <3>2. s \in Seq(Token) /\ Len(s) \in {3, 5} /\ PredicateAt(s, 0)
      BY <3>1, Predicates35, Zenon
    <3>3. \A k \in {3, 5} : k >= 3
      OBVIOUS
    <3> QED
      BY <3>2, <3>3, Zenon
  <2>2. Fine(1)
    BY <2>1 DEF Fine
  <2> QED
    BY <1>2, <1>3, <2>2
<1>4. CASE m # 1
  <2>1. PICK k \in Nat \ {0} : m = k + 1 /\ k \notin S
    <3>1. m - 1 \in Nat \ {0} /\ m = (m - 1) + 1 /\ m - 1 \notin S
      BY <1>1, <1>2, <1>4
    <3> QED
      BY <3>1
  <2>2. Fine(k) /\ Texts[m] = Longer(Texts[k])
    BY <2>1, TextSteps
  <2>3. PICK s \in Texts[m] : ~(s \in Seq(Token) /\ Len(s) >= 4 * m - 1 /\ PredicateAt(s, 0))
    BY <1>2 DEF Fine
  <2>4. PICK u \in Texts[k], c \in Joint, p \in PredicateText : s = Join(u, c, p)
    BY <2>2, <2>3, LongerIs
  <2>5. u \in Seq(Token) /\ Len(u) >= 4 * k - 1 /\ PredicateAt(u, 0)
    BY <2>2 DEF Fine
  <2>6. /\ Append(u, c) \in Seq(Token) /\ Len(Append(u, c)) = Len(u) + 1
        /\ \A i \in 1..Len(u) : Append(u, c)[i] = u[i]
    BY <2>5 DEF Token, Joint
  <2>7. s \in Seq(Token) /\ Prefix(Append(u, c), s) /\ Len(s) >= Len(u) + 4
    <3> DEFINE b == Append(u, c)
    <3>1. b \in Seq(Token) /\ Len(b) = Len(u) + 1 /\ s = b \o p /\ Len(u) \in Nat
      BY <2>4, <2>5, <2>6 DEF Join
    <3> HIDE DEF b
    <3>2. s \in Seq(Token) /\ Prefix(b, s) /\ Len(s) = Len(b) + SizeAt(s, Len(b))
          /\ SizeAt(s, Len(b)) \in {3, 5}
      BY <3>1, Joined
    <3> QED
      BY <3>1, <3>2 DEF b
  <2>8. \A i \in 1..Len(u) : s[i] = u[i]
    <3>1. \A i \in 1..Len(u) : i \in 1..Len(Append(u, c))
      BY <2>5, <2>6
    <3> QED
      BY <2>6, <2>7, <3>1 DEF Prefix
  <2>9. PredicateAt(s, 0)
    <3>1. Len(u) <= Len(s) /\ 0 \in Nat
      BY <2>5, <2>7
    <3> QED
      BY <2>5, <2>7, <2>8, <3>1, PredicateCarries
  <2> QED
    BY <2>1, <2>3, <2>5, <2>7, <2>9
<1> QED
  BY <1>3, <1>4

LEMMA TextIs ==
  ASSUME NEW t \in Text
  PROVE  t \in Seq(Token) /\ Len(t) \in Nat /\ PredicateAt(t, 0)
BY TextFacts DEF Text

LEMMA StartIs ==
  ASSUME NEW b \in Start
  PROVE  /\ b \in Seq(Token) /\ Len(b) \in Nat
         /\ \/ Len(b) = 0
            \/ \E t \in Text, c \in Joint :
                 /\ b = Append(t, c) /\ Len(b) = Len(t) + 1 /\ b[Len(b)] = c
                 /\ Prefix(t, b)
<1>1. CASE b = <<>>
  BY <1>1
<1>2. ASSUME NEW t \in Text, NEW c \in Joint, b = Append(t, c)
      PROVE  b \in Seq(Token) /\ Len(b) = Len(t) + 1 /\ b[Len(b)] = c /\ Prefix(t, b)
  BY <1>2, TextIs DEF Token, Joint, Prefix
<1> QED
  BY <1>1, <1>2, TextIs DEF Start

\* A filter is what may stand before a predicate, and a predicate.
LEMMA TextShape == \A t : t \in Text <=> \E b \in Start, p \in PredicateText : t = b \o p
<1>1. ASSUME NEW t \in Text PROVE \E b \in Start, p \in PredicateText : t = b \o p
  <2>1. PICK n \in Nat \ {0} : t \in Texts[n]
    BY DEF Text
  <2>2. CASE n = 1
    <3>1. t \in PredicateText /\ t \in Seq(Token) /\ <<>> \in Start
      BY <2>1, <2>2, TextSteps, Predicates35 DEF Start
    <3>2. t = <<>> \o t
      BY <3>1, ConcatEmptySeq
    <3> QED
      BY <3>1, <3>2
  <2>3. CASE n # 1
    <3>1. PICK k \in Nat \ {0} : n = k + 1
      <4>1. n - 1 \in Nat \ {0} /\ n = (n - 1) + 1
        BY <2>1, <2>3
      <4> QED
        BY <4>1
    <3>2. PICK u \in Texts[k], c \in Joint, p \in PredicateText : t = Join(u, c, p)
      BY <2>1, <3>1, TextSteps, LongerIs
    <3>3. Append(u, c) \in Start
      BY <3>1, <3>2 DEF Start, Text
    <3> QED
      BY <3>2, <3>3 DEF Join
  <2> QED
    BY <2>2, <2>3
<1>2. ASSUME NEW b \in Start, NEW p \in PredicateText PROVE b \o p \in Text
  <2>1. CASE b = <<>>
    <3>1. b \o p = p
      BY <2>1, Predicates35, ConcatEmptySeq
    <3>2. p \in Texts[1] /\ 1 \in Nat \ {0}
      BY TextSteps
    <3> QED
      BY <3>1, <3>2 DEF Text
  <2>2. ASSUME NEW t \in Text, NEW c \in Joint, b = Append(t, c) PROVE b \o p \in Text
    <3>1. PICK n \in Nat \ {0} : t \in Texts[n]
      BY DEF Text
    <3>2. Join(t, c, p) \in Texts[n + 1] /\ n + 1 \in Nat \ {0}
      BY <3>1, TextSteps, LongerIs
    <3> QED
      BY <2>2, <3>2 DEF Text, Join
  <2> QED
    BY <2>1, <2>2 DEF Start
<1> QED
  BY <1>1, <1>2

LEMMA Suffix ==
  ASSUME NEW t \in Text
  PROVE  \E b \in Start : /\ Prefix(b, t) /\ PredicateAt(t, Len(b))
                          /\ Len(t) = Len(b) + SizeAt(t, Len(b))
<1>1. PICK b \in Start, p \in PredicateText : t = b \o p
  BY TextShape
<1>2. b \in Seq(Token)
  BY StartIs
<1> QED
  BY <1>1, <1>2, Joined

\* Of two filters one of which begins the other, either they are the same length, or the
\* longer one goes on with "and" or "or" and a predicate: a filter that has been read is
\* never to be read otherwise.
Follows(u, t) ==
  \/ Len(t) = Len(u)
  \/ /\ Len(t) > Len(u)
     /\ t[Len(u) + 1] \in Joint /\ PredicateAt(t, Len(u) + 1)

LEMMA OneReading ==
  ASSUME NEW t \in Text, NEW u \in Text, Prefix(u, t)
  PROVE  Follows(u, t)
<1> DEFINE Bad(n) == \E x, y \in Text : /\ Len(x) + Len(y) = n
                                        /\ Prefix(y, x) /\ ~Follows(y, x)
           S == {n \in Nat : Bad(n)}
<1> HIDE DEF Bad
<1> SUFFICES ASSUME ~Follows(u, t) PROVE FALSE
  OBVIOUS
<1>1. S # {}
  <2>1. Len(t) + Len(u) \in Nat
    BY TextIs
  <2> QED
    BY <2>1 DEF Bad
<1>2. PICK n \in S : \A k \in S : n <= k
  BY <1>1, SmallestExists
<1>3. Bad(n) /\ n \in Nat
  OBVIOUS
<1>4. PICK x \in Text, y \in Text : /\ Len(x) + Len(y) = n
                                    /\ Prefix(y, x) /\ ~Follows(y, x)
  BY <1>3 DEF Bad
<1>5. ASSUME NEW v \in Text, NEW w \in Text, Prefix(w, v), Len(v) + Len(w) < n
      PROVE  Follows(w, v)
  <2> SUFFICES ASSUME ~Follows(w, v) PROVE FALSE
    OBVIOUS
  <2>1. PICK k \in Nat : k = Len(v) + Len(w)
    BY TextIs
  <2>2. Bad(k)
    BY <1>5, <2>1 DEF Bad
  <2>3. k \in S
    BY <2>2
  <2> QED
    BY <1>2, <1>3, <1>5, <2>1, <2>3
<1> HIDE DEF S
<1>6. /\ x \in Seq(Token) /\ Len(x) \in Nat /\ y \in Seq(Token) /\ Len(y) \in Nat
      /\ PredicateAt(y, 0)
  BY TextIs
<1>7. PICK b \in Start : /\ Prefix(b, x) /\ PredicateAt(x, Len(b))
                         /\ Len(x) = Len(b) + SizeAt(x, Len(b))
  BY Suffix
<1>8. SizeAt(x, Len(b)) \in {3, 5}
  BY DEF SizeAt
<1>9. ASSUME PredicateAt(y, Len(b)) PROVE FALSE
  <2>1. Len(b) \in Nat /\ Len(y) <= Len(x) /\ \A i \in 1..Len(y) : x[i] = y[i]
    BY <1>4, StartIs DEF Prefix
  <2>2. SizeAt(x, Len(b)) = SizeAt(y, Len(b)) /\ Len(y) >= Len(b) + SizeAt(y, Len(b))
    BY <1>6, <1>9, <2>1, PredicateCarries
  <2> QED
    BY <1>4, <1>6, <1>7, <1>8, <2>1, <2>2 DEF Follows
<1>10. Len(b) # 0
  BY <1>6, <1>9
<1>11. PICK v \in Text, c \in Joint : /\ Len(b) = Len(v) + 1 /\ b[Len(b)] = c /\ Prefix(v, b)
  BY <1>10, StartIs
<1>12. b \in Seq(Token) /\ v \in Seq(Token) /\ Len(v) \in Nat /\ Len(b) \in Nat
  BY StartIs, TextIs
<1>13. Prefix(v, x) /\ x[Len(v) + 1] \in Joint
  BY <1>6, <1>7, <1>11, <1>12 DEF Prefix
<1>14. Len(v) < Len(x)
  BY <1>6, <1>7, <1>8, <1>11, <1>12
<1>15. CASE Len(y) <= Len(v)
  <2>1. Prefix(y, v)
    BY <1>4, <1>6, <1>12, <1>13, <1>15 DEF Prefix
  <2>2. Follows(y, v)
    BY <1>4, <1>5, <1>6, <1>12, <1>14, <2>1
  <2>3. CASE Len(v) = Len(y)
    BY <1>4, <1>7, <1>11, <1>13, <1>14, <2>3 DEF Follows
  <2>4. CASE Len(v) > Len(y)
    <3>1. v[Len(y) + 1] \in Joint /\ PredicateAt(v, Len(y) + 1) /\ Len(y) + 1 \in Nat
      BY <1>6, <1>12, <2>2, <2>4 DEF Follows
    <3>2. Len(v) <= Len(x) /\ \A i \in 1..Len(v) : x[i] = v[i]
      BY <1>13 DEF Prefix
    <3>3. PredicateAt(x, Len(y) + 1)
      BY <1>6, <1>12, <3>1, <3>2, PredicateCarries
    <3>4. x[Len(y) + 1] = v[Len(y) + 1]
      BY <1>6, <1>12, <2>4, <3>2
    <3> QED
      BY <1>4, <1>6, <1>12, <1>14, <2>4, <3>1, <3>3, <3>4 DEF Follows
  <2> QED
    BY <2>2, <2>3, <2>4 DEF Follows
<1>16. CASE Len(y) > Len(v)
  <2>1. Prefix(v, y)
    BY <1>4, <1>6, <1>12, <1>13, <1>16 DEF Prefix
  <2>2. Follows(v, y)
    BY <1>4, <1>5, <1>6, <1>12, <1>14, <2>1
  <2>3. PredicateAt(y, Len(b))
    BY <1>6, <1>11, <1>12, <1>16, <2>2 DEF Follows
  <2> QED
    BY <1>9, <2>3
<1> QED
  BY <1>6, <1>12, <1>15, <1>16

\* What the grammar lets stand after b is a predicate.
LEMMA PredicateFollows ==
  ASSUME NEW b \in Start, NEW t \in Text, Prefix(b, t)
  PROVE  PredicateAt(t, Len(b))
<1>1. b \in Seq(Token) /\ Len(b) \in Nat /\ t \in Seq(Token) /\ Len(t) \in Nat
  BY StartIs, TextIs
<1>2. CASE Len(b) = 0
  BY <1>2, TextIs
<1>3. CASE Len(b) # 0
  <2>1. PICK u \in Text : Len(b) = Len(u) + 1 /\ Prefix(u, b)
    BY <1>3, StartIs
  <2>2. Len(u) \in Nat
    BY TextIs
  <2>3. Prefix(u, t) /\ Len(t) > Len(u)
    BY <1>1, <2>1, <2>2 DEF Prefix
  <2>4. Follows(u, t)
    BY <2>3, OneReading
  <2> QED
    BY <1>1, <2>1, <2>2, <2>3, <2>4 DEF Follows
<1> QED
  BY <1>2, <1>3

-----------------------------------------------------------------------------
(* The invariant of the parser                                             *)

\* The first q tokens are followed by those of the predicate the parser is in, or has just
\* completed.
Since(q) ==
  LET n == Len(consumed)
  IN  \/ place = "reg" /\ n = q
      \/ place = "amp" /\ n = q + 1 /\ consumed[q + 1] = "reg"
      \/ /\ place = "mask" /\ masked /\ n = q + 2
         /\ consumed[q + 1] = "reg" /\ consumed[q + 2] = "amp"
      \/ place = "op" /\ ~masked /\ n = q + 1 /\ consumed[q + 1] = "reg"
      \/ /\ place = "op" /\ masked /\ n = q + 3
         /\ consumed[q + 1] = "reg" /\ consumed[q + 2] = "amp" /\ consumed[q + 3] = "num"
      \/ /\ place = "value" /\ ~masked /\ n = q + 2
         /\ consumed[q + 1] = "reg" /\ consumed[q + 2] = "op"
      \/ /\ place = "value" /\ masked /\ n = q + 4
         /\ consumed[q + 1] = "reg" /\ consumed[q + 2] = "amp" /\ consumed[q + 3] = "num"
         /\ consumed[q + 4] = "op"
      \/ /\ place \in {"and", "or", "finish", "accepted"}
         /\ PredicateAt(consumed, q) /\ n = q + SizeAt(consumed, q)

Pred == [at : Nat, masked : BOOLEAN]

OrsIn(c, p) == Cardinality({i \in 1..p : c[i] = "or"})

\* The first r tokens of c are in gs: every predicate of theirs in the group its "or"s give
\* it, with its mask, and nothing else.
Grouped(c, gs, r) ==
  /\ Len(gs) = OrsIn(c, r) + 1
  /\ \A g \in 1..Len(gs) : \A i \in 1..Len(gs[g]) :
       LET p == gs[g][i]
       IN  /\ p.at \in 1..r /\ p.at < r /\ c[p.at] = "reg" /\ g = OrsIn(c, p.at) + 1
           /\ p.masked <=> c[p.at + 1] = "amp"
  /\ \A a \in 1..r : c[a] = "reg" =>
       LET g == OrsIn(c, a) + 1
       IN  g \in 1..Len(gs) /\ \E i \in 1..Len(gs[g]) : gs[g][i].at = a

\* The places inside a predicate, and those after one.
Inside == {"reg", "amp", "mask", "op", "value"}
Done == {"and", "or", "finish", "accepted"}

\* What the places reached by not reading a token know of it.
LookedAt ==
  /\ place = "op" /\ ~masked => look \notin {"unread", "amp"}
  /\ place = "or" => look \notin {"unread", "and"}
  /\ place = "finish" => look \notin {"unread", "and", "or"}
  /\ place = "accepted" => look = "end"

\* The input is no longer than its bound.
InBounds ==
  /\ Len(consumed) <= MaxTokens
  /\ look \notin {"unread", "end"} => Len(consumed) < MaxTokens

\* What is read is a beginning of a filter, and all but its last predicate is in its group.
Begun(b) ==
  /\ Prefix(b, consumed) /\ Since(Len(b))
  /\ Grouped(consumed, groups, IF place \in Inside THEN Len(b) ELSE Len(consumed))

\* No filter is what was read, or begins with it and the token looked at.
RightlyRejected ==
  IF look = "end" THEN consumed \notin Legal
  ELSE \A t \in Legal : ~StartsWith(t, Append(consumed, look))

ParseInv ==
  /\ ParseTypeOK /\ groups \in Seq(Seq(Pred))
  /\ InBounds /\ LookedAt
  /\ place # "rejected" => \E b \in Start : Begun(b)
  /\ place = "rejected" => RightlyRejected

-----------------------------------------------------------------------------
(* Predicates and their groups                                             *)

LEMMA OrsSame ==
  ASSUME NEW c, NEW d, NEW p \in Nat, \A i \in 1..p : c[i] = d[i]
  PROVE  OrsIn(c, p) = OrsIn(d, p)
<1>1. {i \in 1..p : c[i] = "or"} = {i \in 1..p : d[i] = "or"}
  OBVIOUS
<1> QED
  BY <1>1 DEF OrsIn

LEMMA OrsStep ==
  ASSUME NEW c, NEW p \in Nat
  PROVE  /\ OrsIn(c, p) \in Nat
         /\ c[p + 1] = "or" => OrsIn(c, p + 1) = OrsIn(c, p) + 1
         /\ c[p + 1] # "or" => OrsIn(c, p + 1) = OrsIn(c, p)
<1> DEFINE S == {i \in 1..p : c[i] = "or"}
           T == {i \in 1..p + 1 : c[i] = "or"}
<1>1. IsFiniteSet(S)
  <2>1. IsFiniteSet(1..p) /\ S \in SUBSET (1..p)
    BY FS_Interval
  <2> HIDE DEF S
  <2> QED
    BY <2>1, FS_Subset
<1>2. Cardinality(S) \in Nat
  <2> HIDE DEF S
  <2> QED
    BY <1>1, FS_CardinalityType
<1>3. T = IF c[p + 1] = "or" THEN S \cup {p + 1} ELSE S
  OBVIOUS
<1>4. p + 1 \notin S
  OBVIOUS
<1>5. OrsIn(c, p) = Cardinality(S) /\ OrsIn(c, p + 1) = Cardinality(T)
  BY DEF OrsIn
<1> HIDE DEF S, T
<1>6. Cardinality(S \cup {p + 1}) = Cardinality(S) + 1
  BY <1>1, <1>4, FS_AddElement
<1> QED
  BY <1>2, <1>3, <1>5, <1>6

\* Inside a predicate no group begins.
LEMMA OrsInPredicate ==
  ASSUME NEW c \in Seq(Token), NEW q \in Nat, PredicateAt(c, q)
  PROVE  /\ OrsIn(c, q + 1) = OrsIn(c, q) /\ OrsIn(c, q + SizeAt(c, q)) = OrsIn(c, q)
         /\ \A a \in q + 2..q + SizeAt(c, q) : c[a] # "reg"
<1>1. \A n \in Nat : OrsIn(c, n) \in Nat
                     /\ (c[n + 1] # "or" => OrsIn(c, n + 1) = OrsIn(c, n))
  BY OrsStep, Zenon
<1> DEFINE O(n) == OrsIn(c, n)
<1> HIDE DEF O
<1>2. /\ c[q + 1] # "or" => O(q + 1) = O(q)
      /\ c[q + 2] # "or" => O(q + 2) = O(q + 1)
      /\ c[q + 3] # "or" => O(q + 3) = O(q + 2)
      /\ c[q + 4] # "or" => O(q + 4) = O(q + 3)
      /\ c[q + 5] # "or" => O(q + 5) = O(q + 4)
  <2>1. \A n \in Nat : c[n + 1] # "or" => O(n + 1) = O(n)
    BY <1>1 DEF O
  <2>2. /\ q + 1 \in Nat /\ q + 2 \in Nat /\ q + 3 \in Nat /\ q + 4 \in Nat
        /\ (q + 1) + 1 = q + 2 /\ (q + 2) + 1 = q + 3 /\ (q + 3) + 1 = q + 4
        /\ (q + 4) + 1 = q + 5
    OBVIOUS
  <2>3. c[q + 2] # "or" => O(q + 2) = O(q + 1)
    BY <2>1, <2>2, Zenon
  <2>4. c[q + 3] # "or" => O(q + 3) = O(q + 2)
    BY <2>1, <2>2, Zenon
  <2>5. c[q + 4] # "or" => O(q + 4) = O(q + 3)
    BY <2>1, <2>2, Zenon
  <2>6. c[q + 5] # "or" => O(q + 5) = O(q + 4)
    BY <2>1, <2>2, Zenon
  <2>7. c[q + 1] # "or" => O(q + 1) = O(q)
    BY <2>1, Zenon
  <2> QED
    BY <2>3, <2>4, <2>5, <2>6, <2>7
<1>3. CASE SizeAt(c, q) = 5
  <2>1. /\ c[q + 1] = "reg" /\ c[q + 2] = "amp" /\ c[q + 3] = "num" /\ c[q + 4] = "op"
        /\ c[q + 5] = "num"
    BY <1>3 DEF PredicateAt, SizeAt
  <2>2. O(q + 1) = O(q) /\ O(q + 5) = O(q)
    BY <1>2, <2>1
  <2> QED
    BY <1>3, <2>1, <2>2 DEF O
<1>4. CASE SizeAt(c, q) # 5
  <2>1. SizeAt(c, q) = 3 /\ c[q + 1] = "reg" /\ c[q + 2] = "op" /\ c[q + 3] = "num"
    BY <1>4 DEF PredicateAt, SizeAt
  <2>2. O(q + 1) = O(q) /\ O(q + 3) = O(q)
    BY <1>2, <2>1
  <2> QED
    BY <2>1, <2>2 DEF O
<1> QED
  BY <1>3, <1>4

LEMMA GroupedGrows ==
  ASSUME NEW c \in Seq(Token), NEW d \in Seq(Token), NEW gs, NEW r \in 0..Len(c),
         Prefix(c, d), Grouped(c, gs, r)
  PROVE  Grouped(d, gs, r)
<1>1. Len(c) \in Nat /\ \A i \in 1..r : d[i] = c[i]
  BY DEF Prefix
<1>2. ASSUME NEW p \in 0..r PROVE OrsIn(d, p) = OrsIn(c, p)
  BY <1>1, OrsSame
<1>3. Len(gs) = OrsIn(d, r) + 1
  BY <1>2 DEF Grouped
<1>4. ASSUME NEW g \in 1..Len(gs), NEW i \in 1..Len(gs[g])
      PROVE  LET p == gs[g][i]
             IN  /\ p.at \in 1..r /\ p.at < r /\ d[p.at] = "reg" /\ g = OrsIn(d, p.at) + 1
                 /\ p.masked <=> d[p.at + 1] = "amp"
  <2>1. PICK x : x = gs[g][i].at
    OBVIOUS
  <2>2. /\ x \in 1..r /\ x < r /\ c[x] = "reg" /\ g = OrsIn(c, x) + 1
        /\ gs[g][i].masked <=> c[x + 1] = "amp"
    BY <2>1 DEF Grouped
  <2>3. d[x] = c[x] /\ d[x + 1] = c[x + 1] /\ OrsIn(d, x) = OrsIn(c, x)
    <3>1. x \in 1..r /\ x + 1 \in 1..r /\ x \in 0..r
      BY <1>1, <2>2
    <3> QED
      BY <1>1, <1>2, <3>1
  <2> QED
    BY <2>1, <2>2, <2>3
<1>5. ASSUME NEW a \in 1..r, d[a] = "reg"
      PROVE  LET g == OrsIn(d, a) + 1
             IN  g \in 1..Len(gs) /\ \E i \in 1..Len(gs[g]) : gs[g][i].at = a
  <2>1. c[a] = "reg" /\ OrsIn(d, a) = OrsIn(c, a)
    BY <1>1, <1>2, <1>5
  <2> QED
    BY <2>1 DEF Grouped
<1> QED
  BY <1>3, <1>4, <1>5 DEF Grouped

LEMMA GroupedAnd ==
  ASSUME NEW c \in Seq(Token), NEW d \in Seq(Token), NEW gs, Grouped(c, gs, Len(c)),
         Prefix(c, d), Len(d) = Len(c) + 1, d[Len(d)] = "and"
  PROVE  Grouped(d, gs, Len(d))
<1>1. PICK n \in Nat : n = Len(c)
  OBVIOUS
<1>2. Grouped(d, gs, n) /\ OrsIn(d, n + 1) = OrsIn(d, n) /\ d[n + 1] = "and"
  <2>1. Grouped(d, gs, n)
    BY <1>1, GroupedGrows
  <2>2. d[n + 1] = "and"
    BY <1>1
  <2>3. OrsIn(d, n + 1) = OrsIn(d, n)
    BY <2>2, OrsStep, Zenon
  <2> QED
    BY <2>1, <2>2, <2>3
<1>3. \A g, i : gs[g][i].at \in 1..n => gs[g][i].at \in 1..n + 1
  BY <1>1
<1>4. \A a \in 1..n + 1 : d[a] = "reg" => a \in 1..n
  BY <1>1, <1>2
<1>5. Grouped(d, gs, n + 1)
  BY <1>1, <1>2, <1>3, <1>4 DEF Grouped
<1> QED
  BY <1>1, <1>5

LEMMA GroupedOr ==
  ASSUME NEW c \in Seq(Token), NEW d \in Seq(Token), NEW gs \in Seq(Seq(Pred)),
         Grouped(c, gs, Len(c)), Prefix(c, d), Len(d) = Len(c) + 1, d[Len(d)] = "or"
  PROVE  Grouped(d, Append(gs, <<>>), Len(d)) /\ Append(gs, <<>>) \in Seq(Seq(Pred))
<1>1. PICK n \in Nat : n = Len(c)
  OBVIOUS
<1>2. PICK k \in Nat : k = Len(gs)
  OBVIOUS
<1>3. <<>> \in Seq(Pred) /\ Len(<<>>) = 0
  BY EmptySeq
<1>4. PICK hs : hs = Append(gs, <<>>)
  OBVIOUS
<1>5. /\ hs \in Seq(Seq(Pred)) /\ Len(hs) = k + 1 /\ hs[k + 1] = <<>>
      /\ \A g \in 1..k : hs[g] = gs[g]
  <2> HIDE DEF Pred
  <2> QED
    BY <1>2, <1>3, <1>4, AppendProperties
<1>6. Grouped(d, gs, n) /\ OrsIn(d, n + 1) = OrsIn(d, n) + 1 /\ d[n + 1] = "or"
  BY <1>1, GroupedGrows, OrsStep
<1>7. \A g \in 1..k + 1 : \A i \in 1..Len(hs[g]) : g \in 1..k /\ hs[g][i] = gs[g][i]
                                                     /\ i \in 1..Len(gs[g])
  <2> SUFFICES ASSUME NEW g \in 1..k + 1, NEW i \in 1..Len(hs[g])
               PROVE  g \in 1..k /\ hs[g][i] = gs[g][i] /\ i \in 1..Len(gs[g])
    OBVIOUS
  <2>1. g # k + 1
    BY <1>3, <1>5
  <2>2. g \in 1..k
    BY <2>1
  <2>3. hs[g] = gs[g]
    BY <1>5, <2>2
  <2> QED
    BY <2>2, <2>3
<1>8. \A a \in 1..n + 1 : d[a] = "reg" => a \in 1..n
  BY <1>6
<1>9. Grouped(d, hs, n + 1)
  <2>1. Len(hs) = OrsIn(d, n + 1) + 1
    <3>1. OrsIn(d, n) \in Nat
      BY OrsStep
    <3> QED
      BY <1>2, <1>5, <1>6, <3>1 DEF Grouped
  <2>2. ASSUME NEW g \in 1..k + 1, NEW i \in 1..Len(hs[g])
        PROVE  LET p == hs[g][i]
               IN  /\ p.at \in 1..n + 1 /\ p.at < n + 1 /\ d[p.at] = "reg"
                   /\ g = OrsIn(d, p.at) + 1 /\ (p.masked <=> d[p.at + 1] = "amp")
    <3>1. g \in 1..Len(gs) /\ hs[g][i] = gs[g][i] /\ i \in 1..Len(gs[g])
      BY <1>2, <1>7
    <3>2. PICK x : x = gs[g][i]
      OBVIOUS
    <3>3. /\ x.at \in 1..n /\ x.at < n /\ d[x.at] = "reg" /\ g = OrsIn(d, x.at) + 1
          /\ x.masked <=> d[x.at + 1] = "amp"
      BY <1>6, <3>1, <3>2 DEF Grouped
    <3>4. x.at \in 1..n + 1 /\ x.at < n + 1
      BY <3>3
    <3> QED
      BY <3>1, <3>2, <3>3, <3>4
  <2>3. ASSUME NEW a \in 1..n + 1, d[a] = "reg"
        PROVE  LET g == OrsIn(d, a) + 1
               IN  g \in 1..Len(hs) /\ \E i \in 1..Len(hs[g]) : hs[g][i].at = a
    <3>0. /\ a \in 1..n /\ OrsIn(d, a) + 1 \in 1..Len(gs)
          /\ \E i \in 1..Len(gs[OrsIn(d, a) + 1]) : gs[OrsIn(d, a) + 1][i].at = a
      BY <1>6, <1>8, <2>3 DEF Grouped
    <3>1. PICK g : /\ g = OrsIn(d, a) + 1 /\ g \in 1..k
                   /\ \E i \in 1..Len(gs[g]) : gs[g][i].at = a
      BY <1>2, <3>0
    <3>2. hs[g] = gs[g]
      BY <1>5, <3>1, Zenon
    <3>3. \E i \in 1..Len(hs[g]) : hs[g][i].at = a
      BY <3>1, <3>2
    <3>4. OrsIn(d, a) + 1 \in 1..Len(hs)
      BY <1>5, <3>1
    <3> QED
      BY <3>1, <3>3, <3>4
  <2> QED
    BY <1>5, <2>1, <2>2, <2>3 DEF Grouped
<1> QED
  BY <1>1, <1>4, <1>5, <1>9

LEMMA Appended ==
  ASSUME NEW S, NEW s \in Seq(S), NEW e \in S, NEW t, t = Append(s, e)
  PROVE  /\ t \in Seq(S) /\ Len(t) = Len(s) + 1 /\ t[Len(s) + 1] = e
         /\ \A i \in 1..Len(s) : t[i] = s[i]
BY AppendProperties

LEMMA GroupedPredicate ==
  ASSUME NEW d \in Seq(Token), NEW gs \in Seq(Seq(Pred)), NEW q \in Nat,
         Grouped(d, gs, q), PredicateAt(d, q), Len(d) = q + SizeAt(d, q),
         NEW m \in BOOLEAN, m <=> d[q + 2] = "amp"
  PROVE  LET hs == AddTo(gs, [at |-> q + 1, masked |-> m])
         IN  Grouped(d, hs, Len(d)) /\ hs \in Seq(Seq(Pred))
<1>1. PICK k \in Nat : k = Len(gs) /\ k = OrsIn(d, q) + 1 /\ k \in 1..Len(gs)
  BY OrsStep DEF Grouped
<1>2. PICK p \in Pred : p = [at |-> q + 1, masked |-> m]
  <2>1. PICK n \in Nat : n = q + 1
    OBVIOUS
  <2>2. [at |-> n, masked |-> m] \in Pred
    BY Zenon DEF Pred
  <2> QED
    BY <2>1, <2>2, Zenon
<1> HIDE DEF Pred
<1>3. PICK hs : hs = AddTo(gs, p)
  OBVIOUS
<1>4. PICK old \in Seq(Pred) : old = gs[k] /\ Len(old) \in Nat
  <2> DEFINE G == Seq(Pred)
  <2>1. gs \in Seq(G)
    OBVIOUS
  <2> HIDE DEF G
  <2>2. gs[k] \in G
    BY <1>1, <2>1, ElementOfSeq, Zenon
  <2>3. gs[k] \in Seq(Pred)
    BY <2>2 DEF G
  <2> QED
    BY <2>3, LenProperties, Zenon
<1>5. PICK last : last = Append(old, p)
  OBVIOUS
<1>last. /\ last \in Seq(Pred) /\ Len(last) = Len(old) + 1
        /\ last[Len(old) + 1] = p /\ \A i \in 1..Len(old) : last[i] = old[i]
  BY <1>5, Appended
<1>6. /\ hs \in Seq(Seq(Pred)) /\ Len(hs) = k /\ hs[k] = last
      /\ \A g \in 1..k : g # k => hs[g] = gs[g]
  <2>1. hs = [gs EXCEPT ![k] = last]
    BY <1>1, <1>3, <1>4, <1>5 DEF AddTo
  <2> DEFINE G == Seq(Pred)
  <2>2. gs \in Seq(G) /\ last \in G
    BY <1>last
  <2> HIDE DEF G
  <2>3. /\ hs \in Seq(G) /\ Len(hs) = Len(gs) /\ hs[k] = last
        /\ \A i \in 1..Len(gs) : i # k => hs[i] = gs[i]
    <3>1. k \in 1..Len(gs)
      BY <1>1
    <3> QED
      BY <2>1, <2>2, <3>1
  <2> QED
    BY <1>1, <2>3 DEF G
<1>7. PICK n \in Nat : n = Len(d) /\ n = q + SizeAt(d, q) /\ n >= q + 3
  BY DEF SizeAt
<1>8. /\ OrsIn(d, q + 1) = OrsIn(d, q) /\ OrsIn(d, n) = OrsIn(d, q) /\ d[q + 1] = "reg"
      /\ \A a \in q + 2..n : d[a] # "reg"
  BY <1>7, OrsInPredicate DEF PredicateAt
<1>9. ASSUME NEW g \in 1..k, NEW i \in 1..Len(hs[g])
      PROVE  LET x == hs[g][i]
             IN  /\ x.at \in 1..n /\ x.at < n /\ d[x.at] = "reg" /\ g = OrsIn(d, x.at) + 1
                 /\ x.masked <=> d[x.at + 1] = "amp"
  <2>1. CASE g = k /\ i = Len(old) + 1
    <3>1. hs[g][i].at = q + 1 /\ hs[g][i].masked = m
      BY <1>2, <1>last, <1>6, <2>1
    <3>2. (q + 1) + 1 = q + 2
      OBVIOUS
    <3> QED
      BY <1>1, <1>7, <1>8, <2>1, <3>1, <3>2
  <2>2. CASE ~(g = k /\ i = Len(old) + 1)
    <3>1. g \in 1..Len(gs) /\ hs[g][i] = gs[g][i] /\ i \in 1..Len(gs[g])
      <4>1. CASE g = k
        <5>1. i \in 1..Len(old)
          BY <1>4, <1>last, <1>6, <1>9, <2>2, <4>1
        <5> QED
          BY <1>1, <1>4, <1>last, <1>6, <4>1, <5>1
      <4>2. CASE g # k
        BY <1>1, <1>6, <4>2
      <4> QED
        BY <4>1, <4>2
    <3>2. PICK x : x = gs[g][i]
      OBVIOUS
    <3>3. /\ x.at \in 1..q /\ x.at < q /\ d[x.at] = "reg" /\ g = OrsIn(d, x.at) + 1
          /\ x.masked <=> d[x.at + 1] = "amp"
      BY <3>1, <3>2 DEF Grouped
    <3>4. x.at \in 1..n /\ x.at < n
      BY <1>7, <3>3
    <3> QED
      BY <3>1, <3>2, <3>3, <3>4
  <2> QED
    BY <2>1, <2>2
<1>10. ASSUME NEW a \in 1..n, d[a] = "reg"
       PROVE  LET g == OrsIn(d, a) + 1
              IN  g \in 1..k /\ \E i \in 1..Len(hs[g]) : hs[g][i].at = a
  <2>1. CASE a = q + 1
    <3>1. Len(old) + 1 \in 1..Len(hs[k]) /\ hs[k][Len(old) + 1].at = q + 1
      BY <1>2, <1>4, <1>last, <1>6
    <3> QED
      BY <1>1, <1>8, <2>1, <3>1
  <2>2. CASE a # q + 1
    <3>1. a \in 1..q
      BY <1>7, <1>8, <1>10, <2>2
    <3>0. /\ OrsIn(d, a) + 1 \in 1..Len(gs)
          /\ \E i \in 1..Len(gs[OrsIn(d, a) + 1]) : gs[OrsIn(d, a) + 1][i].at = a
      BY <1>10, <3>1 DEF Grouped
    <3>2. PICK g \in 1..k : g = OrsIn(d, a) + 1 /\ \E i \in 1..Len(gs[g]) : gs[g][i].at = a
      BY <1>1, <3>0
    <3>3. PICK i \in 1..Len(gs[g]) : gs[g][i].at = a
      BY <3>2
    <3>4. hs[g][i] = gs[g][i] /\ i \in 1..Len(hs[g])
      <4>1. CASE g = k
        BY <1>4, <1>last, <1>6, <4>1
      <4>2. CASE g # k
        BY <1>6, <4>2
      <4> QED
        BY <4>1, <4>2
    <3> QED
      BY <3>2, <3>3, <3>4
  <2> QED
    BY <2>1, <2>2
<1>11. Grouped(d, hs, n)
  BY <1>1, <1>6, <1>8, <1>9, <1>10 DEF Grouped
<1> QED
  BY <1>2, <1>3, <1>6, <1>7, <1>11

\* A predicate read after a start makes a filter.
LEMMA EndsInText ==
  ASSUME NEW b \in Start, NEW c \in Seq(Token), Prefix(b, c), PredicateAt(c, Len(b)),
         Len(c) = Len(b) + SizeAt(c, Len(b))
  PROVE  c \in Text
<1>1. b \in Seq(Token)
  BY StartIs
<1>2. PICK n \in Nat : n = Len(b)
  BY StartIs
<1>3. \A i \in 1..n : c[i] = b[i]
  BY <1>2 DEF Prefix
<1>4. CASE SizeAt(c, n) = 5
  <2>1. /\ c[n + 1] = "reg" /\ c[n + 2] = "amp" /\ c[n + 3] = "num" /\ c[n + 4] = "op"
        /\ c[n + 5] = "num" /\ Len(c) = n + 5
    BY <1>2, <1>4 DEF PredicateAt, SizeAt
  <2>2. PICK p : p = <<"reg", "amp", "num", "op", "num">>
    OBVIOUS
  <2>3. p \in PredicateText /\ p \in Seq(Token) /\ Len(p) = 5
    BY <2>2, Predicates35 DEF PredicateText, Token
  <2>4. c = b \o p
    <3>1. /\ b \o p \in Seq(Token) /\ Len(b \o p) = n + 5
          /\ \A i \in 1..n + 5 : (b \o p)[i] = IF i <= n THEN b[i] ELSE p[i - n]
      <4>1. /\ b \o p \in Seq(Token) /\ Len(b \o p) = Len(b) + Len(p)
            /\ \A i \in 1..Len(b) + Len(p) :
                 (b \o p)[i] = IF i <= Len(b) THEN b[i] ELSE p[i - Len(b)]
        BY <1>1, <2>3, ConcatProperties
      <4> QED
        BY <1>2, <2>3, <4>1
    <3>2. ASSUME NEW i \in 1..n + 5 PROVE c[i] = (b \o p)[i]
      <4>1. CASE i \in 1..n
        BY <1>3, <3>1, <4>1
      <4>2. CASE i \notin 1..n
        <5>1. PICK j \in 1..5 : i = n + j /\ j = i - n
          <6>1. i - n \in 1..5
            BY <4>2
          <6> QED
            BY <6>1
        <5>2. (b \o p)[i] = p[j]
          BY <3>1, <5>1
        <5>3. c[n + j] = p[j]
          BY <2>1, <2>2
        <5> QED
          BY <5>1, <5>2, <5>3
      <4> QED
        BY <4>1, <4>2
    <3> QED
      BY <2>1, <3>1, <3>2, SeqEqual
  <2> QED
    BY <2>3, <2>4, TextShape
<1>5. CASE SizeAt(c, n) # 5
  <2>1. /\ c[n + 1] = "reg" /\ c[n + 2] = "op" /\ c[n + 3] = "num" /\ Len(c) = n + 3
    BY <1>2, <1>5 DEF PredicateAt, SizeAt
  <2>2. PICK p : p = <<"reg", "op", "num">>
    OBVIOUS
  <2>3. p \in PredicateText /\ p \in Seq(Token) /\ Len(p) = 3
    BY <2>2, Predicates35 DEF PredicateText, Token
  <2>4. c = b \o p
    <3>1. /\ b \o p \in Seq(Token) /\ Len(b \o p) = n + 3
          /\ \A i \in 1..n + 3 : (b \o p)[i] = IF i <= n THEN b[i] ELSE p[i - n]
      <4>1. /\ b \o p \in Seq(Token) /\ Len(b \o p) = Len(b) + Len(p)
            /\ \A i \in 1..Len(b) + Len(p) :
                 (b \o p)[i] = IF i <= Len(b) THEN b[i] ELSE p[i - Len(b)]
        BY <1>1, <2>3, ConcatProperties
      <4> QED
        BY <1>2, <2>3, <4>1
    <3>2. ASSUME NEW i \in 1..n + 3 PROVE c[i] = (b \o p)[i]
      <4>1. CASE i \in 1..n
        BY <1>3, <3>1, <4>1
      <4>2. CASE i \notin 1..n
        <5>1. PICK j \in 1..3 : i = n + j /\ j = i - n
          <6>1. i - n \in 1..3
            BY <4>2
          <6> QED
            BY <6>1
        <5>2. (b \o p)[i] = p[j]
          BY <3>1, <5>1
        <5>3. c[n + j] = p[j]
          BY <2>1, <2>2
        <5> QED
          BY <5>1, <5>2, <5>3
      <4> QED
        BY <4>1, <4>2
    <3> QED
      BY <2>1, <3>1, <3>2, SeqEqual
  <2> QED
    BY <2>3, <2>4, TextShape
<1> QED
  BY <1>2, <1>4, <1>5

LEMMA DoneIsText ==
  ASSUME consumed \in Seq(Token), NEW b \in Start, Begun(b), place \in Done
  PROVE  consumed \in Text
BY EndsInText DEF Begun, Since, Done

\* What a filter that begins with what is read goes on with.
LEMMA Expected ==
  ASSUME consumed \in Seq(Token), NEW b \in Start, Begun(b),
         NEW t \in Text, Prefix(consumed, t)
  PROVE  LET n == Len(consumed)
         IN  /\ place \in Inside => Len(t) > n
             /\ place = "reg" => t[n + 1] = "reg"
             /\ place = "mask" => t[n + 1] = "num"
             /\ place = "op" => t[n + 1] \in {"op", "amp"}
             /\ place = "op" /\ masked => t[n + 1] = "op"
             /\ place = "value" => t[n + 1] = "num"
             /\ place \in Done => Len(t) = n \/ t[n + 1] \in Joint
<1>1. b \in Seq(Token) /\ t \in Seq(Token) /\ Len(t) \in Nat /\ Len(consumed) \in Nat
  BY StartIs, TextIs
<1>2. PICK q \in Nat : q = Len(b)
  BY StartIs
<1>3. PICK n \in Nat : n = Len(consumed)
  BY <1>1
<1>4. n <= Len(t) /\ \A i \in 1..n : t[i] = consumed[i]
  BY <1>3 DEF Prefix
<1>5. Prefix(b, t)
  <2>1. q <= n /\ \A i \in 1..q : consumed[i] = b[i]
    BY <1>2, <1>3 DEF Begun, Prefix
  <2> QED
    BY <1>1, <1>2, <1>4, <2>1 DEF Prefix
<1>6. PredicateAt(t, q)
  BY <1>2, <1>5, PredicateFollows
<1>7. Since(q)
  BY <1>2 DEF Begun
<1>8. CASE place = "reg"
  BY <1>1, <1>3, <1>6, <1>7, <1>8 DEF Since, PredicateAt, Done
<1>9. CASE place = "amp"
  BY <1>1, <1>3, <1>6, <1>7, <1>9 DEF Since, PredicateAt, Done
<1>10. CASE place = "mask"
  <2>1. n = q + 2 /\ consumed[q + 2] = "amp"
    BY <1>3, <1>7, <1>10 DEF Since
  <2>2. t[q + 2] = "amp"
    BY <1>4, <2>1
  <2> QED
    BY <1>1, <1>3, <1>6, <1>10, <2>1, <2>2 DEF PredicateAt, Done
<1>11. CASE place = "op" /\ masked
  <2>1. n = q + 3 /\ consumed[q + 2] = "amp"
    BY <1>3, <1>7, <1>11 DEF Since
  <2>2. t[q + 2] = "amp"
    BY <1>4, <2>1
  <2> QED
    BY <1>1, <1>3, <1>6, <1>11, <2>1, <2>2 DEF PredicateAt, Done
<1>12. CASE place = "op" /\ ~masked
  BY <1>1, <1>3, <1>6, <1>7, <1>12 DEF Since, PredicateAt, Done
<1>13. CASE place = "value" /\ masked
  <2>1. n = q + 4 /\ consumed[q + 2] = "amp"
    BY <1>3, <1>7, <1>13 DEF Since
  <2>2. t[q + 2] = "amp"
    BY <1>4, <2>1
  <2> QED
    BY <1>1, <1>3, <1>6, <1>13, <2>1, <2>2 DEF PredicateAt, Done
<1>14. CASE place = "value" /\ ~masked
  <2>1. n = q + 2 /\ consumed[q + 2] = "op"
    BY <1>3, <1>7, <1>14 DEF Since
  <2>2. t[q + 2] = "op"
    BY <1>4, <2>1
  <2> QED
    BY <1>1, <1>3, <1>6, <1>14, <2>1, <2>2 DEF PredicateAt, Done
<1>15. CASE place \in Done
  <2>1. Follows(consumed, t)
    BY <1>15, DoneIsText, OneReading
  <2> QED
    BY <1>15, <2>1 DEF Follows, Done, Inside
<1>16. CASE place \notin Inside /\ place \notin Done
  BY <1>16 DEF Inside
<1> QED
  BY <1>8, <1>9, <1>10, <1>11, <1>12, <1>13, <1>14, <1>15, <1>16 DEF Inside

\* A token with which no filter goes on, or an end where none ends, is rightly rejected.
LEMMA Rejectable ==
  ASSUME consumed \in Seq(Token), look \in Token \cup {"end"},
         \A t \in Text : Prefix(consumed, t) =>
           IF look = "end" THEN Len(t) # Len(consumed)
           ELSE Len(t) = Len(consumed) \/ t[Len(consumed) + 1] # look
  PROVE  RightlyRejected
<1>0. Legal \subseteq Text
  <2> SUFFICES ASSUME NEW t \in Legal PROVE t \in Text
    OBVIOUS
  <2>1. PICK n \in 1..(MaxTokens \div 4) + 2 : t \in Texts[n]
    BY DEF Legal
  <2>2. n \in Nat \ {0}
    BY <2>1, ParseAssumption DEF ParseAssumption
  <2> QED
    BY <2>1, <2>2 DEF Text
<1>1. CASE look = "end"
  <2>1. Prefix(consumed, consumed)
    BY DEF Prefix
  <2>2. consumed \notin Text
    BY <1>1, <2>1
  <2> QED
    BY <1>0, <1>1, <2>2 DEF RightlyRejected
<1>2. CASE look # "end"
  <2> SUFFICES ASSUME NEW t \in Text, StartsWith(t, Append(consumed, look)) PROVE FALSE
    BY <1>0, <1>2 DEF RightlyRejected
  <2>1. look \in Token /\ t \in Seq(Token) /\ Len(t) \in Nat
    BY <1>2, TextIs
  <2>2. PICK n \in Nat : n = Len(consumed)
    OBVIOUS
  <2>3. PICK d : d = Append(consumed, look)
    OBVIOUS
  <2>4. /\ Len(d) = n + 1 /\ d[n + 1] = look /\ \A i \in 1..n : d[i] = consumed[i]
    BY <2>1, <2>2, <2>3
  <2>5. n + 1 <= Len(t) /\ SubSeq(t, 1, n + 1) = d
    BY <2>3, <2>4 DEF StartsWith
  <2>6. \A i \in 1..n + 1 : SubSeq(t, 1, n + 1)[i] = t[i]
    BY <2>1, <2>5
  <2>7. t[n + 1] = look /\ \A i \in 1..n : t[i] = consumed[i]
    BY <2>4, <2>5, <2>6
  <2>8. Prefix(consumed, t)
    BY <2>1, <2>2, <2>5, <2>7 DEF Prefix
  <2> QED
    BY <1>2, <2>1, <2>2, <2>5, <2>7, <2>8
<1> QED
  BY <1>1, <1>2

-----------------------------------------------------------------------------
(* The steps of the parser                                                 *)

LEMMA InitParse == ParseInit => ParseInv
<1> SUFFICES ASSUME ParseInit PROVE ParseInv
  OBVIOUS
<1>1. /\ consumed = <<>> /\ look = "unread" /\ place = "reg" /\ groups = << <<>> >>
      /\ masked = FALSE /\ consumed \in Seq(Token) /\ Len(consumed) = 0
  BY DEF ParseInit
<1>2. <<>> \in Seq(Pred) /\ Len(<<>>) = 0
  BY EmptySeq
<1>3. groups \in Seq(Seq(Pred)) /\ Len(groups) = 1 /\ groups[1] = <<>>
  BY <1>1, <1>2
<1>4. ParseTypeOK /\ InBounds /\ LookedAt
  <2>1. \A g \in 1..Len(groups) : groups[g] \in Seq(Pred)
    BY <1>2, <1>3
  <2>2. ParseTypeOK
    BY <1>1, <2>1 DEF ParseTypeOK, Pred
  <2>3. InBounds /\ LookedAt
    BY <1>1, ParseAssumption DEF InBounds, LookedAt, ParseAssumption
  <2> QED
    BY <2>2, <2>3
<1>5. <<>> \in Start
  BY DEF Start
<1>6. OrsIn(consumed, 0) = 0
  <2>1. {i \in 1..0 : consumed[i] = "or"} = {}
    OBVIOUS
  <2> QED
    BY <2>1, FS_EmptySet DEF OrsIn
<1>7. Grouped(consumed, groups, 0)
  BY <1>2, <1>3, <1>6 DEF Grouped
<1>8. Begun(<<>>)
  BY <1>1, <1>2, <1>7 DEF Begun, Prefix, Since, Inside
<1> QED
  BY <1>1, <1>3, <1>4, <1>5, <1>8 DEF ParseInv

\* What reading the token that was looked at does.
LEMMA Reading ==
  ASSUME ParseInv, Consume, look \notin {"unread", "end"}
  PROVE  /\ consumed' \in Seq(Token) /\ Len(consumed') = Len(consumed) + 1
         /\ consumed'[Len(consumed) + 1] = look
         /\ \A i \in 1..Len(consumed) : consumed'[i] = consumed[i]
         /\ Prefix(consumed, consumed') /\ look' = "unread" /\ InBounds'
         /\ \A b \in Start : Prefix(b, consumed) => Prefix(b, consumed')
<1>1. consumed \in Seq(Token) /\ look \in Token /\ Len(consumed) \in Nat
  BY DEF ParseInv, ParseTypeOK
<1>2. /\ consumed' \in Seq(Token) /\ Len(consumed') = Len(consumed) + 1
      /\ consumed'[Len(consumed) + 1] = look
      /\ \A i \in 1..Len(consumed) : consumed'[i] = consumed[i]
  BY <1>1 DEF Consume
<1>3. look' = "unread" /\ InBounds'
  BY <1>1, <1>2, ParseAssumption DEF Consume, ParseInv, InBounds, ParseAssumption
<1>4. Prefix(consumed, consumed')
  BY <1>1, <1>2 DEF Prefix
<1>5. ASSUME NEW b \in Start, Prefix(b, consumed) PROVE Prefix(b, consumed')
  <2>1. Len(b) \in Nat
    BY StartIs
  <2> QED
    BY <1>1, <1>2, <1>5, <2>1 DEF Prefix
<1> QED
  BY <1>2, <1>3, <1>4, <1>5

\* Inside a predicate nothing is added to a group.
LEMMA ReadsOn ==
  ASSUME ParseInv, NEW b \in Start, Begun(b), Consume, look \notin {"unread", "end"},
         place \in Inside, place' \in Inside, groups' = groups, masked' = masked,
         Since(Len(b))', place' = "op" => masked
  PROVE  ParseInv'
<1>1. /\ consumed' \in Seq(Token) /\ Prefix(consumed, consumed') /\ look' = "unread"
      /\ InBounds' /\ Prefix(b, consumed')
  BY Reading DEF Begun
<1>2. consumed \in Seq(Token) /\ Len(b) \in 0..Len(consumed)
  BY StartIs DEF Begun, Prefix, ParseInv, ParseTypeOK
<1>3. Grouped(consumed', groups, Len(b))
  BY <1>1, <1>2, GroupedGrows DEF Begun
<1>4. Begun(b)'
  BY <1>1, <1>3 DEF Begun
<1>5. ParseTypeOK'
  BY <1>1 DEF ParseInv, ParseTypeOK, Inside
<1>6. place' # "rejected" /\ place' \notin {"or", "finish", "accepted"}
  BY DEF Inside
<1>7. ~(place' = "op" /\ ~masked')
  OBVIOUS
<1> QED
  BY <1>1, <1>4, <1>5, <1>6, <1>7 DEF ParseInv, LookedAt

LEMMA Rejects ==
  ASSUME ParseInv, look # "unread", Reject,
         \/ place = "reg" /\ look # "reg"
         \/ place = "mask" /\ look # "num"
         \/ place = "op" /\ look # "op"
         \/ place = "value" /\ look # "num"
  PROVE  ParseInv'
<1>1. consumed \in Seq(Token) /\ look \in Token \cup {"end"} /\ place \in Inside
  BY DEF ParseInv, ParseTypeOK, Inside
<1>2. PICK b \in Start : Begun(b)
  BY DEF ParseInv
<1>3. ASSUME NEW t \in Text, Prefix(consumed, t)
      PROVE  Len(t) # Len(consumed) /\ t[Len(consumed) + 1] # look
  <2>1. Len(t) \in Nat /\ Len(consumed) \in Nat
    BY <1>1, TextIs
  <2>2. place = "op" /\ ~masked => look # "amp"
    BY DEF ParseInv, LookedAt
  <2>3. /\ Len(t) > Len(consumed)
        /\ place = "reg" => t[Len(consumed) + 1] = "reg"
        /\ place = "mask" => t[Len(consumed) + 1] = "num"
        /\ place = "op" => t[Len(consumed) + 1] \in {"op", "amp"}
        /\ place = "op" /\ masked => t[Len(consumed) + 1] = "op"
        /\ place = "value" => t[Len(consumed) + 1] = "num"
    BY <1>1, <1>2, <1>3, Expected
  <2> QED
    BY <2>1, <2>2, <2>3
<1>4. RightlyRejected
  BY <1>1, <1>3, Rejectable
<1>5. place' = "rejected" /\ UNCHANGED <<consumed, look, groups, masked>>
  BY DEF Reject, LeaveInput
<1>6. RightlyRejected'
  BY <1>4, <1>5 DEF RightlyRejected
<1> QED
  BY <1>5, <1>6 DEF ParseInv, ParseTypeOK, InBounds, LookedAt

\* A step of the parser that reads nothing and adds nothing.
LEMMA MovesOn ==
  ASSUME ParseInv, NEW b \in Start, Begun(b), UNCHANGED <<consumed, groups>>,
         look' \in Token \cup {"unread", "end"}, masked' \in BOOLEAN, InBounds', LookedAt',
         place' \in {"reg", "amp", "mask", "op", "value", "and", "or", "finish", "accepted"},
         (place \in Inside) = (place' \in Inside), Since(Len(b))'
  PROVE  ParseInv'
<1>1. Begun(b)'
  BY DEF Begun
<1>2. ParseTypeOK'
  BY DEF ParseInv, ParseTypeOK
<1> QED
  BY <1>1, <1>2 DEF ParseInv

\* Between two predicates: what joins them is read.
LEMMA Joins ==
  ASSUME ParseInv, place \in Done, Consume, look \in Joint, place' = "reg", masked' = masked,
         groups' = IF look = "or" THEN Append(groups, <<>>) ELSE groups
  PROVE  ParseInv'
<1>1. /\ consumed' \in Seq(Token) /\ Len(consumed') = Len(consumed) + 1
      /\ consumed'[Len(consumed) + 1] = look
      /\ Prefix(consumed, consumed') /\ look' = "unread" /\ InBounds'
  BY Reading DEF Joint
<1>2. consumed \in Seq(Token) /\ Len(consumed) \in Nat /\ groups \in Seq(Seq(Pred))
  BY DEF ParseInv, ParseTypeOK
<1>3. PICK b \in Start : Begun(b)
  BY DEF ParseInv, Done
<1>4. consumed \in Text
  BY <1>2, <1>3, DoneIsText
<1>5. consumed' \in Start
  BY <1>4 DEF Start, Consume
<1>6. Grouped(consumed, groups, Len(consumed))
  BY <1>3 DEF Begun, Done, Inside
<1>7. Grouped(consumed', groups', Len(consumed')) /\ groups' \in Seq(Seq(Pred))
  <2>1. CASE look = "or"
    BY <1>1, <1>2, <1>6, <2>1, GroupedOr
  <2>2. CASE look = "and"
    BY <1>1, <1>2, <1>6, <2>2, GroupedAnd
  <2> QED
    BY <2>1, <2>2 DEF Joint
<1>8. PICK c \in Start : c = consumed'
  BY <1>5
<1>9. Begun(c)'
  <2>1. Prefix(c, consumed') /\ Len(c) = Len(consumed')
    BY <1>1, <1>8 DEF Prefix
  <2>2. Since(Len(c))'
    BY <2>1 DEF Since
  <2>3. Grouped(consumed', groups', IF place' \in Inside THEN Len(c) ELSE Len(consumed'))
    BY <1>7, <2>1
  <2> QED
    BY <2>1, <2>2, <2>3 DEF Begun
<1>10. ParseTypeOK'
  <2>1. \A g \in 1..Len(groups') : groups'[g] \in Seq(Pred)
    <3> DEFINE G == Seq(Pred)
    <3>1. groups' \in Seq(G)
      BY <1>7
    <3> HIDE DEF G
    <3>2. \A g \in 1..Len(groups') : groups'[g] \in G
      BY <3>1, ElementOfSeq
    <3> QED
      BY <3>2 DEF G
  <2> QED
    BY <1>1, <2>1 DEF ParseInv, ParseTypeOK, Pred
<1>11. LookedAt'
  BY DEF LookedAt
<1> QED
  BY <1>1, <1>7, <1>9, <1>10, <1>11 DEF ParseInv

LEMMA NextParse == ParseInv /\ [ParseNext]_parseVars => ParseInv'
<1> SUFFICES ASSUME ParseInv, [ParseNext]_parseVars PROVE ParseInv'
  OBVIOUS
<1>1. /\ consumed \in Seq(Token) /\ Len(consumed) \in Nat /\ masked \in BOOLEAN
      /\ look \in Token \cup {"unread", "end"} /\ groups \in Seq(Seq(Pred))
      /\ InBounds /\ LookedAt
  BY DEF ParseInv, ParseTypeOK
<1>2. CASE Look
  <2>1. PICK b \in Start : Begun(b)
    BY <1>2 DEF Look, ParseInv
  <2>2. /\ look = "unread" /\ UNCHANGED <<consumed, place, groups, masked>>
        /\ look' \in IF Len(consumed) < MaxTokens THEN Token \cup {"end"} ELSE {"end"}
        /\ place \notin {"accepted", "rejected"}
    BY <1>2 DEF Look
  <2>3. InBounds' /\ look' \in Token \cup {"end"}
    BY <1>1, <2>2 DEF InBounds
  <2>4. LookedAt'
    BY <1>1, <2>2, <2>3 DEF LookedAt
  <2>5. Since(Len(b))'
    BY <2>1, <2>2 DEF Begun, Since
  <2>6. place \in {"reg", "amp", "mask", "op", "value", "and", "or", "finish"}
    BY <2>2 DEF ParseInv, ParseTypeOK
  <2> QED
    BY <1>1, <2>1, <2>2, <2>3, <2>4, <2>5, <2>6, MovesOn
<1>3. CASE RegisterName
  <2>1. PICK b \in Start : Begun(b)
    BY <1>3 DEF RegisterName, ParseInv
  <2>2. CASE look = "reg"
    <3>1. /\ place = "reg" /\ Consume /\ place' = "amp" /\ groups' = groups
          /\ masked' = masked
      BY <1>3, <2>2 DEF RegisterName, Expect
    <3>2. Since(Len(b))'
      BY <2>1, <2>2, <3>1, Reading DEF Begun, Since
    <3> QED
      BY <2>1, <2>2, <3>1, <3>2, ReadsOn DEF Inside
  <2>3. CASE look # "reg"
    BY <1>3, <2>3, Rejects DEF RegisterName, Expect
  <2> QED
    BY <2>2, <2>3
<1>4. CASE Ampersand
  <2>1. PICK b \in Start : Begun(b)
    BY <1>4 DEF Ampersand, ParseInv
  <2>2. CASE look = "amp"
    <3>1. /\ place = "amp" /\ Consume /\ place' = "mask" /\ groups' = groups /\ masked' = TRUE
      BY <1>4, <2>2 DEF Ampersand
    <3>2. /\ consumed' \in Seq(Token) /\ Len(consumed') = Len(consumed) + 1
          /\ consumed'[Len(consumed) + 1] = "amp"
          /\ \A i \in 1..Len(consumed) : consumed'[i] = consumed[i]
          /\ Prefix(consumed, consumed') /\ look' = "unread" /\ InBounds'
          /\ Prefix(b, consumed')
      BY <2>1, <2>2, <3>1, Reading DEF Begun
    <3>3. PICK q \in Nat : q = Len(b)
      BY StartIs
    <3>4. Since(q)'
      <4>1. Len(consumed) = q + 1 /\ consumed[q + 1] = "reg"
        BY <2>1, <3>1, <3>3 DEF Begun, Since
      <4>2. Len(consumed') = q + 2 /\ consumed'[q + 1] = "reg" /\ consumed'[q + 2] = "amp"
        BY <3>2, <3>3, <4>1
      <4> QED
        BY <3>1, <4>2 DEF Since
    <3>5. Grouped(consumed', groups, q)
      <4>1. q \in 0..Len(consumed)
        BY <1>1, <2>1, <3>3 DEF Begun, Prefix
      <4> QED
        BY <1>1, <2>1, <3>1, <3>2, <3>3, <4>1, GroupedGrows DEF Begun, Inside
    <3>6. Begun(b)'
      BY <3>1, <3>2, <3>3, <3>4, <3>5 DEF Begun, Inside
    <3>7. ParseTypeOK' /\ LookedAt'
      BY <3>1, <3>2 DEF ParseInv, ParseTypeOK, LookedAt
    <3> QED
      BY <1>1, <3>1, <3>2, <3>6, <3>7 DEF ParseInv
  <2>3. CASE look # "amp"
    <3>1. /\ place = "amp" /\ look # "unread" /\ place' = "op" /\ masked' = FALSE
          /\ UNCHANGED <<consumed, look, groups>>
      BY <1>4, <2>3 DEF Ampersand, LeaveInput
    <3>2. Since(Len(b))'
      BY <2>1, <3>1 DEF Begun, Since
    <3>3. InBounds' /\ LookedAt'
      BY <1>1, <2>3, <3>1 DEF InBounds, LookedAt
    <3> QED
      <4>1. masked' \in BOOLEAN
        BY <3>1
      <4>2. (place \in Inside) = (place' \in Inside)
        BY <3>1 DEF Inside
      <4> QED
        BY <1>1, <2>1, <3>1, <3>2, <3>3, <4>1, <4>2, MovesOn
  <2> QED
    BY <2>2, <2>3
<1>5. CASE Mask
  <2>1. PICK b \in Start : Begun(b)
    BY <1>5 DEF Mask, ParseInv
  <2>2. CASE look = "num"
    <3>1. /\ place = "mask" /\ Consume /\ place' = "op" /\ groups' = groups
          /\ masked' = masked
      BY <1>5, <2>2 DEF Mask, Expect
    <3>2. Since(Len(b))' /\ masked
      <4>1. PICK q \in Nat : q = Len(b)
        BY StartIs
      <4>2. /\ Len(consumed) = q + 2 /\ consumed[q + 1] = "reg" /\ consumed[q + 2] = "amp"
            /\ masked
        BY <2>1, <3>1, <4>1 DEF Begun, Since
      <4>3. /\ Len(consumed') = q + 3 /\ consumed'[q + 1] = "reg" /\ consumed'[q + 2] = "amp"
            /\ consumed'[q + 3] = "num"
        BY <2>2, <3>1, <4>2, Reading
      <4> QED
        BY <3>1, <4>1, <4>2, <4>3 DEF Since
    <3> QED
      BY <2>1, <2>2, <3>1, <3>2, ReadsOn DEF Inside
  <2>3. CASE look # "num"
    BY <1>5, <2>3, Rejects DEF Mask, Expect
  <2> QED
    BY <2>2, <2>3
<1>6. CASE Comparison
  <2>1. PICK b \in Start : Begun(b)
    BY <1>6 DEF Comparison, ParseInv
  <2>2. CASE look = "op"
    <3>1. /\ place = "op" /\ Consume /\ place' = "value" /\ groups' = groups
          /\ masked' = masked
      BY <1>6, <2>2 DEF Comparison, Expect
    <3>2. PICK q \in Nat : q = Len(b)
      BY StartIs
    <3>3. CASE masked
      <4>1. /\ Len(consumed) = q + 3 /\ consumed[q + 1] = "reg" /\ consumed[q + 2] = "amp"
            /\ consumed[q + 3] = "num"
        BY <2>1, <3>1, <3>2, <3>3 DEF Begun, Since
      <4>2. /\ Len(consumed') = q + 4 /\ consumed'[q + 1] = "reg" /\ consumed'[q + 2] = "amp"
            /\ consumed'[q + 3] = "num" /\ consumed'[q + 4] = "op"
        BY <2>2, <3>1, <4>1, Reading
      <4>3. Since(Len(b))'
        BY <3>1, <3>2, <3>3, <4>2 DEF Since
      <4> QED
        BY <2>1, <2>2, <3>1, <4>3, ReadsOn DEF Inside
    <3>4. CASE ~masked
      <4>1. Len(consumed) = q + 1 /\ consumed[q + 1] = "reg"
        BY <2>1, <3>1, <3>2, <3>4 DEF Begun, Since
      <4>2. Len(consumed') = q + 2 /\ consumed'[q + 1] = "reg" /\ consumed'[q + 2] = "op"
        BY <2>2, <3>1, <4>1, Reading
      <4>3. Since(Len(b))'
        BY <3>1, <3>2, <3>4, <4>2 DEF Since
      <4> QED
        BY <2>1, <2>2, <3>1, <4>3, ReadsOn DEF Inside
    <3> QED
      BY <3>3, <3>4
  <2>3. CASE look # "op"
    BY <1>6, <2>3, Rejects DEF Comparison, Expect
  <2> QED
    BY <2>2, <2>3
<1>7. CASE Value
  <2>1. PICK b \in Start : Begun(b)
    BY <1>7 DEF Value, ParseInv
  <2>2. CASE look = "num"
    <3>1. /\ place = "value" /\ Consume /\ place' = "and" /\ masked' = masked
          /\ groups' = AddTo(groups, Predicate(IF masked THEN 5 ELSE 3))
      BY <1>7, <2>2 DEF Value
    <3>2. PICK q \in Nat : q = Len(b)
      BY StartIs
    <3>3. /\ consumed' \in Seq(Token) /\ Len(consumed') = Len(consumed) + 1
          /\ consumed'[Len(consumed) + 1] = "num"
          /\ \A i \in 1..Len(consumed) : consumed'[i] = consumed[i]
          /\ Prefix(consumed, consumed') /\ look' = "unread" /\ InBounds'
          /\ Prefix(b, consumed')
      BY <2>1, <2>2, <3>1, Reading DEF Begun
    <3>4. /\ PredicateAt(consumed', q) /\ Len(consumed') = q + SizeAt(consumed', q)
          /\ masked <=> consumed'[q + 2] = "amp"
          /\ Len(consumed) + 2 - (IF masked THEN 5 ELSE 3) = q + 1
      <4>1. CASE masked
        <5>1. /\ Len(consumed) = q + 4 /\ consumed[q + 1] = "reg" /\ consumed[q + 2] = "amp"
              /\ consumed[q + 3] = "num" /\ consumed[q + 4] = "op"
          BY <2>1, <3>1, <3>2, <4>1 DEF Begun, Since
        <5>2. /\ Len(consumed') = q + 5 /\ consumed'[q + 1] = "reg"
              /\ consumed'[q + 2] = "amp" /\ consumed'[q + 3] = "num"
              /\ consumed'[q + 4] = "op" /\ consumed'[q + 5] = "num"
          BY <3>3, <5>1
        <5> QED
          BY <4>1, <5>1, <5>2 DEF PredicateAt, SizeAt
      <4>2. CASE ~masked
        <5>1. Len(consumed) = q + 2 /\ consumed[q + 1] = "reg" /\ consumed[q + 2] = "op"
          BY <2>1, <3>1, <3>2, <4>2 DEF Begun, Since
        <5>2. /\ Len(consumed') = q + 3 /\ consumed'[q + 1] = "reg"
              /\ consumed'[q + 2] = "op" /\ consumed'[q + 3] = "num"
          BY <3>3, <5>1
        <5> QED
          BY <4>2, <5>1, <5>2 DEF PredicateAt, SizeAt
      <4> QED
        BY <4>1, <4>2
    <3>5. groups' = AddTo(groups, [at |-> q + 1, masked |-> masked])
      BY <3>1, <3>4 DEF Predicate
    <3>6. Grouped(consumed', groups, q)
      <4>1. q \in 0..Len(consumed)
        BY <1>1, <2>1, <3>2 DEF Begun, Prefix
      <4> QED
        BY <1>1, <2>1, <3>1, <3>2, <3>3, <4>1, GroupedGrows DEF Begun, Inside
    <3>7. Grouped(consumed', groups', Len(consumed')) /\ groups' \in Seq(Seq(Pred))
      BY <1>1, <3>2, <3>3, <3>4, <3>5, <3>6, GroupedPredicate
    <3>8. Begun(b)'
      <4>1. Since(Len(b))'
        BY <3>1, <3>2, <3>4 DEF Since
      <4>2. place' \notin Inside
        BY <3>1 DEF Inside
      <4> QED
        BY <3>3, <3>7, <4>1, <4>2 DEF Begun
    <3>9. ParseTypeOK'
      <4>1. \A g \in 1..Len(groups') : groups'[g] \in Seq(Pred)
        <5> DEFINE G == Seq(Pred)
        <5>1. groups' \in Seq(G)
          BY <3>7
        <5> HIDE DEF G
        <5>2. \A g \in 1..Len(groups') : groups'[g] \in G
          BY <5>1, ElementOfSeq
        <5> QED
          BY <5>2 DEF G
      <4> QED
        BY <3>1, <3>3, <4>1 DEF ParseInv, ParseTypeOK, Pred
    <3>10. LookedAt' /\ place' # "rejected"
      BY <3>1 DEF LookedAt
    <3> QED
      BY <3>3, <3>7, <3>8, <3>9, <3>10 DEF ParseInv
  <2>3. CASE look # "num"
    BY <1>7, <2>3, Rejects DEF Value
  <2> QED
    BY <2>2, <2>3
<1>8. CASE AndPredicate
  <2>1. PICK b \in Start : Begun(b)
    BY <1>8 DEF AndPredicate, ParseInv
  <2>2. CASE look = "and"
    <3>1. place \in Done /\ Consume /\ place' = "reg" /\ UNCHANGED <<groups, masked>>
      BY <1>8, <2>2 DEF AndPredicate, Done
    <3> QED
      BY <2>2, <3>1, Joins DEF Joint
  <2>3. CASE look # "and"
    <3>1. /\ place = "and" /\ place' = "or" /\ look # "unread"
          /\ UNCHANGED <<consumed, look, groups, masked>>
      BY <1>8, <2>3 DEF AndPredicate, LeaveInput
    <3>2. Since(Len(b))'
      BY <2>1, <3>1 DEF Begun, Since
    <3>3. InBounds' /\ LookedAt'
      BY <1>1, <2>3, <3>1 DEF InBounds, LookedAt
    <3> QED
      BY <1>1, <2>1, <3>1, <3>2, <3>3, MovesOn DEF Inside
  <2> QED
    BY <2>2, <2>3
<1>9. CASE OrGroup
  <2>1. PICK b \in Start : Begun(b)
    BY <1>9 DEF OrGroup, ParseInv
  <2>2. CASE look = "or"
    <3>1. /\ place \in Done /\ Consume /\ place' = "reg" /\ masked' = masked
          /\ groups' = Append(groups, <<>>)
      BY <1>9, <2>2 DEF OrGroup, Done
    <3> QED
      BY <2>2, <3>1, Joins DEF Joint
  <2>3. CASE look # "or"
    <3>1. /\ place = "or" /\ place' = "finish" /\ look # "unread"
          /\ UNCHANGED <<consumed, look, groups, masked>>
      BY <1>9, <2>3 DEF OrGroup, LeaveInput
    <3>2. Since(Len(b))'
      BY <2>1, <3>1 DEF Begun, Since
    <3>3. InBounds' /\ LookedAt'
      BY <1>1, <2>3, <3>1 DEF InBounds, LookedAt
    <3> QED
      BY <1>1, <2>1, <3>1, <3>2, <3>3, MovesOn DEF Inside
  <2> QED
    BY <2>2, <2>3
<1>10. CASE Finish
  <2>1. PICK b \in Start : Begun(b)
    BY <1>10 DEF Finish, ParseInv
  <2>2. place = "finish" /\ UNCHANGED <<consumed, look, groups, masked>>
    BY <1>10 DEF Finish
  <2>3. CASE look = "end"
    <3>1. place' = "accepted"
      BY <1>10, <2>3 DEF Finish
    <3>2. Since(Len(b))'
      BY <2>1, <2>2, <3>1 DEF Begun, Since
    <3>3. InBounds' /\ LookedAt'
      BY <1>1, <2>2, <2>3, <3>1 DEF InBounds, LookedAt
    <3> QED
      BY <1>1, <2>1, <2>2, <3>1, <3>2, <3>3, MovesOn DEF Inside
  <2>4. CASE look # "end"
    <3>1. place' = "rejected"
      BY <1>10, <2>4 DEF Finish
    <3>2. look \in Token /\ look \notin Joint
      BY <1>1, <2>2, <2>4 DEF LookedAt, Joint
    <3>3. ASSUME NEW t \in Text, Prefix(consumed, t)
          PROVE  Len(t) = Len(consumed) \/ t[Len(consumed) + 1] # look
      BY <1>1, <2>1, <2>2, <3>2, <3>3, Expected DEF Done
    <3>4. RightlyRejected
      BY <1>1, <2>4, <3>2, <3>3, Rejectable
    <3>5. RightlyRejected'
      BY <2>2, <3>4 DEF RightlyRejected
    <3> QED
      BY <2>2, <3>1, <3>5 DEF ParseInv, ParseTypeOK, InBounds, LookedAt
  <2> QED
    BY <2>3, <2>4
<1>11. CASE UNCHANGED parseVars
  BY <1>11 DEF parseVars, ParseInv, ParseTypeOK, InBounds, LookedAt, Begun, Since,
               RightlyRejected
<1> QED
  BY <1>2, <1>3, <1>4, <1>5, <1>6, <1>7, <1>8, <1>9, <1>10, <1>11 DEF ParseNext

-----------------------------------------------------------------------------
(* What the invariants give                                                *)

LEMMA ParsedFilters == ParseInv => ParseTypeOK /\ ParsesTheGrammar /\ MatchesTheText
<1> SUFFICES ASSUME ParseInv PROVE ParsesTheGrammar /\ MatchesTheText
  BY DEF ParseInv
<1>1. consumed \in Seq(Token) /\ Len(consumed) \in Nat
  BY DEF ParseInv, ParseTypeOK
<1>2. ParsesTheGrammar
  <2>1. ASSUME place = "accepted" PROVE consumed \in Legal
    <3>1. PICK b \in Start : Begun(b)
      BY <2>1 DEF ParseInv
    <3>2. consumed \in Text
      BY <1>1, <2>1, <3>1, DoneIsText DEF Done
    <3>3. PICK n \in Nat \ {0} : consumed \in Texts[n]
      BY <3>2 DEF Text
    <3>4. 4 * n - 1 <= Len(consumed) /\ Len(consumed) <= MaxTokens
      BY <3>3, TextFacts DEF ParseInv, InBounds
    <3>5. n \in 1..(MaxTokens \div 4) + 2
      BY <1>1, <3>4, ParseAssumption DEF ParseAssumption
    <3> QED
      BY <3>3, <3>5 DEF Legal
  <2> QED
    BY <2>1 DEF ParseInv, LookedAt, RightlyRejected, ParsesTheGrammar
<1>3. ASSUME place = "accepted" PROVE MatchesTheText
  <2>1. PICK n \in Nat : n = Len(consumed)
    BY <1>1
  <2>2. Grouped(consumed, groups, n)
    BY <1>3, <2>1 DEF ParseInv, Begun, Inside
  <2>3. \A p : Ors(p) = OrsIn(consumed, p)
    BY DEF Ors, OrsIn
  <2>4. PICK k \in Nat : k = Ors(n) /\ Len(groups) = k + 1
    BY <2>2, <2>3, OrsStep DEF Grouped
  <2>5. ASSUME NEW p \in Predicates PROVE p \in 1..n /\ consumed[p] = "reg"
    BY <2>1 DEF Predicates
  <2>6. ASSUME NEW g \in 1..k + 1, NEW i \in 1..Len(groups[g])
        PROVE  /\ groups[g][i].at \in Predicates /\ Ors(groups[g][i].at) = g - 1
               /\ groups[g][i].masked <=> consumed[groups[g][i].at + 1] = "amp"
    <3>1. PICK a : a = groups[g][i].at
      OBVIOUS
    <3>2. /\ a \in 1..n /\ consumed[a] = "reg" /\ g = OrsIn(consumed, a) + 1
          /\ groups[g][i].masked <=> consumed[a + 1] = "amp"
      BY <2>2, <2>4, <3>1 DEF Grouped
    <3>3. OrsIn(consumed, a) \in Nat
      BY <3>2, OrsStep
    <3>4. a \in Predicates
      BY <2>1, <3>2 DEF Predicates
    <3>5. Ors(a) = g - 1
      BY <2>3, <3>2, <3>3
    <3> QED
      BY <3>1, <3>2, <3>4, <3>5
  <2>7. ASSUME NEW p \in Predicates
        PROVE  /\ Ors(p) \in 0..k
               /\ \E i \in 1..Len(groups[Ors(p) + 1]) : groups[Ors(p) + 1][i].at = p
    <3>1. /\ OrsIn(consumed, p) + 1 \in 1..k + 1
          /\ \E i \in 1..Len(groups[OrsIn(consumed, p) + 1]) :
               groups[OrsIn(consumed, p) + 1][i].at = p
      BY <2>2, <2>4, <2>5 DEF Grouped
    <3>2. OrsIn(consumed, p) \in Nat
      BY <2>5, OrsStep
    <3> QED
      BY <2>3, <3>1, <3>2
  <2>8. ASSUME NEW holds \in SUBSET Predicates PROVE Matches(groups, holds) <=> TextMatches(holds)
    <3>1. ASSUME NEW g \in 1..k + 1, \A i \in 1..Len(groups[g]) : groups[g][i].at \in holds
          PROVE  TextMatches(holds)
      <4>1. PICK j \in 0..k : g = j + 1
        <5>1. g - 1 \in 0..k /\ g = (g - 1) + 1
          OBVIOUS
        <5> QED
          BY <5>1
      <4>2. ASSUME NEW p \in Predicates, Ors(p) = j PROVE p \in holds
        BY <2>7, <3>1, <4>1, <4>2
      <4> QED
        BY <2>1, <2>4, <4>2 DEF TextMatches
    <3>2. ASSUME NEW j \in 0..k, \A p \in Predicates : Ors(p) = j => p \in holds
          PROVE  Matches(groups, holds)
      <4>1. PICK g \in 1..k + 1 : g = j + 1 /\ j = g - 1
        <5>1. j + 1 \in 1..k + 1 /\ j = (j + 1) - 1
          OBVIOUS
        <5> QED
          BY <5>1
      <4>2. \A i \in 1..Len(groups[g]) : groups[g][i].at \in holds
        BY <2>6, <3>2, <4>1
      <4> QED
        BY <2>4, <4>2 DEF Matches
    <3> QED
      BY <2>1, <2>4, <3>1, <3>2 DEF Matches, TextMatches
  <2> QED
    BY <2>4, <2>6, <2>8 DEF MatchesTheText
<1> QED
  BY <1>2, <1>3 DEF MatchesTheText

\* A register filter is read as it is written, for any bound on its length: the tokenizer
\* loses no character and takes every token as long as it can be, the parser accepts the
\* grammar and nothing else, and what it builds is what the text means
\* (filter.rs:27-58, 67-112, 138-178).
THEOREM FiltersAreAlwaysRead == TokenSpec /\ ParseSpec => []FiltersAreRead
<1>1. TokenSpec => []TokenInv
  BY InitTokens, NextTokens, PTL DEF TokenSpec
<1>2. ParseSpec => []ParseInv
  BY InitParse, NextParse, PTL DEF ParseSpec
<1>3. TokenInv /\ ParseInv => FiltersAreRead
  BY ParsedFilters DEF TokenInv, FiltersAreRead
<1> QED
  BY <1>1, <1>2, <1>3, PTL

-----------------------------------------------------------------------------
(* The registers of a sample                                               *)

\* The bits of a mask below one of its bits.
Below(a, b) == {c \in SampleRegsUser(a) : c < b}

\* The bit under which the kernel knows the i-th register of a sample.
BitOf(a, i) == IF a = "x86_64" /\ i > 12 THEN i + 3 ELSE i - 1

LEMMA Interval ==
  ASSUME NEW a \in Int, NEW b \in Int, a <= b + 1
  PROVE  IsFiniteSet(a..b) /\ Cardinality(a..b) = b - a + 1
<1>1. IsFiniteSet(a..b) /\ Cardinality(a..b) = IF a > b THEN 0 ELSE b - a + 1
  BY FS_Interval
<1> QED
  BY <1>1

\* The masks have no other holes than the segments of x86.
LEMMA TwoIntervals ==
  ASSUME NEW b \in 16..24
  PROVE  Cardinality((0..11) \cup (16..b - 1)) = b - 4
<1>1. IsFiniteSet(0..11) /\ Cardinality(0..11) = 12
  <2>1. 0 \in Int /\ 11 \in Int /\ 0 <= 11 + 1 /\ 11 - 0 + 1 = 12
    OBVIOUS
  <2>2. IsFiniteSet(0..11) /\ Cardinality(0..11) = 11 - 0 + 1
    BY <2>1, Interval, Zenon
  <2> QED
    BY <2>1, <2>2, Zenon
<1>2. IsFiniteSet(16..b - 1) /\ Cardinality(16..b - 1) = b - 16
  <2>1. b - 1 \in Int /\ 16 <= (b - 1) + 1 /\ (b - 1) - 16 + 1 = b - 16
    OBVIOUS
  <2> QED
    BY <2>1, Interval
<1>3. (0..11) \cap (16..b - 1) = {}
  OBVIOUS
<1>4. Cardinality((0..11) \cap (16..b - 1)) = 0
  BY <1>3, FS_EmptySet, Zenon
<1> DEFINE low == 0..11
           high == 16..b - 1
<1>5. Cardinality(low \cup high) = Cardinality(low) + Cardinality(high) - Cardinality(low \cap high)
  BY <1>1, <1>2, FS_Union, Zenon
<1>6. Cardinality(low \cup high) = 12 + (b - 16) - 0
  BY <1>1, <1>2, <1>4, <1>5, Zenon
<1>7. 12 + (b - 16) - 0 = b - 4
  OBVIOUS
<1> QED
  BY <1>6, <1>7, Zenon

LEMMA Counts == RegsCount("x86_64") = 20 /\ RegsCount("aarch64") = 33
<1>1. SampleRegsUser("x86_64") = (0..11) \cup (16..24 - 1)
  BY DEF SampleRegsUser
<1>2. SampleRegsUser("aarch64") = 0..32
  BY DEF SampleRegsUser
<1>3. Cardinality((0..11) \cup (16..24 - 1)) = 24 - 4
  <2>1. 24 \in 16..24
    OBVIOUS
  <2> QED
    BY <2>1, TwoIntervals, Zenon
<1>4. Cardinality(0..32) = 33
  <2>1. 0 \in Int /\ 32 \in Int /\ 0 <= 32 + 1 /\ 32 - 0 + 1 = 33
    OBVIOUS
  <2>2. Cardinality(0..32) = 32 - 0 + 1
    BY <2>1, Interval, Zenon
  <2> QED
    BY <2>1, <2>2, Zenon
<1>5. RegsCount("x86_64") = 24 - 4 /\ RegsCount("aarch64") = 33
  BY <1>1, <1>2, <1>3, <1>4, Zenon DEF RegsCount
<1> QED
  BY <1>5

\* How many bits of the mask are below one of its bits.
LEMMA BelowIs ==
  ASSUME NEW a \in Arch, NEW b \in SampleRegsUser(a)
  PROVE  Cardinality(Below(a, b)) = IF a = "x86_64" /\ b > 11 THEN b - 4 ELSE b
<1>1. CASE b \in 0..11 \/ a # "x86_64"
  <2>1. b \in Nat
    BY DEF SampleRegsUser
  <2>2. Below(a, b) = 0..b - 1
    BY <1>1 DEF Below, SampleRegsUser
  <2>3. Cardinality(0..b - 1) = b
    BY <2>1, Interval, b - 1 \in Int, 0 <= (b - 1) + 1, (b - 1) - 0 + 1 = b
  <2> QED
    BY <1>1, <2>1, <2>2, <2>3
<1>2. CASE a = "x86_64" /\ b \notin 0..11
  <2>1. b \in 16..23
    BY <1>2 DEF SampleRegsUser
  <2>2. Below(a, b) = (0..11) \cup (16..b - 1)
    BY <1>2, <2>1 DEF Below, SampleRegsUser
  <2>3. Cardinality(Below(a, b)) = b - 4
    <3>1. b \in 16..24
      BY <2>1
    <3> QED
      BY <2>2, <3>1, TwoIntervals, Zenon
  <2> QED
    BY <1>2, <2>1, <2>3
<1> QED
  BY <1>1, <1>2

LEMMA BitIs ==
  ASSUME NEW a \in Arch, NEW i \in 1..RegsCount(a)
  PROVE  (CHOOSE b \in SampleRegsUser(a) : Cardinality(Below(a, b)) = i - 1) = BitOf(a, i)
<1>1. BitOf(a, i) \in SampleRegsUser(a)
  BY Counts DEF Arch, BitOf, SampleRegsUser
<1>2. Cardinality(Below(a, BitOf(a, i))) = i - 1
  <2>1. Cardinality(Below(a, BitOf(a, i)))
          = IF a = "x86_64" /\ BitOf(a, i) > 11 THEN BitOf(a, i) - 4 ELSE BitOf(a, i)
    BY <1>1, BelowIs
  <2>2. i \in 1..33
    BY Counts DEF Arch
  <2> QED
    BY <2>1, <2>2 DEF BitOf
<1>3. ASSUME NEW b \in SampleRegsUser(a), Cardinality(Below(a, b)) = i - 1
      PROVE  b = BitOf(a, i)
  <2>1. i - 1 = IF a = "x86_64" /\ b > 11 THEN b - 4 ELSE b
    BY <1>3, BelowIs
  <2>2. i \in 1..33 /\ b \in Nat /\ (a = "x86_64" /\ b > 11 => b >= 16)
    BY Counts DEF Arch, SampleRegsUser
  <2> QED
    BY <2>1, <2>2 DEF BitOf
<1> QED
  BY <1>1, <1>2, <1>3

LEMMA Tables ==
  /\ Len(Table["x86_64"]) = 20 /\ Len(Table["aarch64"]) = 33
  /\ Len(KernelRegs["x86_64"]) = 24 /\ Len(KernelRegs["aarch64"]) = 33
  /\ DOMAIN Table = Arch /\ DOMAIN KernelRegs = Arch
BY DEF Table, KernelRegs, Arch

LEMMA X86Names ==
  \A i \in 1..20 : KernelRegs["x86_64"][BitOf("x86_64", i) + 1] = KernelName(Table["x86_64"][i])
BY DEF KernelRegs, Table, Arch, BitOf, KernelName

LEMMA ArmNames ==
  \A i \in 1..33 : KernelRegs["aarch64"][BitOf("aarch64", i) + 1] = KernelName(Table["aarch64"][i])
BY DEF KernelRegs, Table, Arch, BitOf, KernelName

\* What the kernel packs under an index is the register the program knows by that index.
LEMMA DumpedIs ==
  ASSUME NEW a \in Arch
  PROVE  /\ DOMAIN Dumped[a] = 1..RegsCount(a)
         /\ \A i \in 1..RegsCount(a) : Dumped[a][i] = KernelName(Table[a][i])
<1>1. Dumped[a] = [i \in 1..RegsCount(a) |->
                     KernelRegs[a][(CHOOSE b \in SampleRegsUser(a) :
                                      Cardinality(Below(a, b)) = i - 1) + 1]]
  BY DEF Dumped, Below
<1>2. ASSUME NEW i \in 1..RegsCount(a) PROVE Dumped[a][i] = KernelRegs[a][BitOf(a, i) + 1]
  BY <1>1, BitIs
<1>3. ASSUME NEW i \in 1..RegsCount(a)
      PROVE  KernelRegs[a][BitOf(a, i) + 1] = KernelName(Table[a][i])
  <2>1. CASE a = "x86_64"
    BY <2>1, Counts, X86Names
  <2>2. CASE a = "aarch64"
    BY <2>2, Counts, ArmNames
  <2> QED
    BY <2>1, <2>2 DEF Arch
<1>4. \A i \in 1..RegsCount(a) : Dumped[a][i] = KernelName(Table[a][i])
  BY <1>2, <1>3
<1> QED
  BY <1>1, <1>4

\* The names under which the kernel knows its registers.
KernelNames(a) == {KernelRegs[a][b] : b \in 1..Len(KernelRegs[a])}

LEMMA NameKnown ==
  ASSUME NEW a \in Arch, NEW i \in 1..RegsCount(a)
  PROVE  KernelName(Table[a][i]) \in KernelNames(a)
<1>1. KernelName(Table[a][i]) = KernelRegs[a][BitOf(a, i) + 1]
  BY Counts, X86Names, ArmNames DEF Arch
<1>2. BitOf(a, i) + 1 \in 1..Len(KernelRegs[a])
  <2>1. CASE a = "x86_64"
    BY <2>1, Counts, Tables DEF BitOf
  <2>2. CASE a = "aarch64"
    BY <2>2, Counts, Tables DEF BitOf
  <2> QED
    BY <2>1, <2>2 DEF Arch
<1> QED
  BY <1>1, <1>2 DEF KernelNames

LEMMA IdsAreTable ==
  ASSUME NEW a \in Arch, NEW i \in 0..RegsCount(a) - 1
  PROVE  IdToStr(a, i) = Table[a][i + 1]
<1>1. RegsCount(a) = Len(Table[a]) /\ RegsCount(a) \in Nat
  <2>1. CASE a = "x86_64"
    BY <2>1, Counts, Tables
  <2>2. CASE a = "aarch64"
    BY <2>2, Counts, Tables
  <2> QED
    BY <2>1, <2>2 DEF Arch
<1> QED
  BY <1>1 DEF IdToStr

LEMMA CountIsNat == \A a \in Arch : RegsCount(a) \in Nat
BY Counts DEF Arch

-----------------------------------------------------------------------------
(* Predicates and hits read the register they name                         *)

\* What the thread's registers hold, in the order in which a sample has them.
Held == [i \in 1..RegsCount(arch) |-> cpu[KernelName(Table[arch][i])]]

RegInv ==
  /\ arch \in Arch /\ pc \in {"running", "sampled", "skipped", "matched", "done"}
  /\ asked.name \in {Table[arch][i] : i \in 1..RegsCount(arch)}
  /\ asked.mask \in RegWord \cup {NoMask} /\ asked.op \in Compare /\ asked.value \in RegWord
  /\ cpu \in [KernelNames(arch) -> RegWord]
  /\ regs = IF pc \in {"sampled", "matched", "done"} THEN Held ELSE <<>>
  /\ verdict \in BOOLEAN
  /\ FilterReadsItsRegister
  /\ shown = IF pc = "done"
              THEN [i \in 1..RegsCount(arch) |-> [name |-> Table[arch][i], value |-> Held[i]]]
              ELSE <<>>

LEMMA InitRegs == RegInit => RegInv
<1> SUFFICES ASSUME RegInit PROVE RegInv
  OBVIOUS
<1>1. arch \in Arch /\ pc = "running" /\ regs = <<>> /\ verdict = FALSE /\ shown = <<>>
  BY DEF RegInit
<1>2. PICK k \in 0..RegsCount(arch) - 1 :
        asked \in [name : {IdToStr(arch, k)}, mask : RegWord \cup {NoMask},
                   op : Compare, value : RegWord]
  BY DEF RegInit
<1>3. /\ asked.name = IdToStr(arch, k) /\ asked.mask \in RegWord \cup {NoMask}
      /\ asked.op \in Compare /\ asked.value \in RegWord
  BY <1>2
<1>4. IdToStr(arch, k) = Table[arch][k + 1] /\ k + 1 \in 1..RegsCount(arch)
  BY <1>1, IdsAreTable, CountIsNat
<1>5. cpu \in [KernelNames(arch) -> RegWord]
  <2>1. PICK this \in RegWord, other \in RegWord :
          cpu = [r \in KernelNames(arch) |-> IF r = KernelName(asked.name) THEN this ELSE other]
    BY DEF RegInit, KernelNames
  <2> QED
    BY <2>1
<1> QED
  BY <1>1, <1>3, <1>4, <1>5 DEF RegInv, FilterReadsItsRegister

LEMMA HeldTyped ==
  ASSUME RegInv
  PROVE  /\ RegsCount(arch) \in Nat
         /\ \A i \in 1..RegsCount(arch) :
              Held[i] = cpu[KernelName(Table[arch][i])] /\ Held[i] \in RegWord
         /\ Held \in Seq(RegWord) /\ Len(Held) = RegsCount(arch)
<1>1. arch \in Arch /\ cpu \in [KernelNames(arch) -> RegWord]
  BY DEF RegInv
<1>2. RegsCount(arch) \in Nat
  BY <1>1, CountIsNat
<1>3. \A i \in 1..RegsCount(arch) : cpu[KernelName(Table[arch][i])] \in RegWord
  BY <1>1, NameKnown
<1> QED
  BY <1>2, <1>3 DEF Held

\* The index parse_reg finds is one of that name.
LEMMA ParseRegFinds ==
  ASSUME NEW a \in Arch, arch = a, NEW name \in {Table[a][i] : i \in 1..RegsCount(a)}
  PROVE  ParseReg(name) \in 0..RegsCount(a) - 1 /\ Table[a][ParseReg(name) + 1] = name
<1> DEFINE S == {i \in 0..RegsCount(a) - 1 : IdToStr(a, i) = name}
<1>1. PICK k \in 1..RegsCount(a) : Table[a][k] = name
  OBVIOUS
<1>2. RegsCount(a) \in Nat
  BY CountIsNat
<1>3. k - 1 \in 0..RegsCount(a) - 1 /\ (k - 1) + 1 = k
  BY <1>2
<1>4. k - 1 \in S
  BY <1>1, <1>3, IdsAreTable
<1>5. PICK x \in S : \A y \in S : x <= y
  <2>1. S \in SUBSET Nat /\ S # {}
    BY <1>2, <1>4
  <2> HIDE DEF S
  <2> QED
    BY <2>1, SmallestExists
<1>6. \A j \in 0..x - 1 : IdToStr(a, j) # name
  BY <1>2, <1>5
<1>7. \E i \in 0..RegsCount(arch) - 1 :
        IdToStr(arch, i) = name /\ \A j \in 0..i - 1 : IdToStr(arch, j) # name
  BY <1>5, <1>6
<1>8. ParseReg(name) \in 0..RegsCount(a) - 1 /\ IdToStr(a, ParseReg(name)) = name
  BY <1>7, Zenon DEF ParseReg
<1> QED
  BY <1>8, IdsAreTable

LEMMA HoldsIsBoolean ==
  ASSUME NEW op, NEW lhs, NEW value
  PROVE  Holds(op, lhs, value) \in BOOLEAN
BY DEF Holds

LEMMA NextRegs == RegInv /\ [RegNext]_registerVars => RegInv'
<1> SUFFICES ASSUME RegInv, [RegNext]_registerVars PROVE RegInv'
  OBVIOUS
<1>1. arch \in Arch /\ verdict \in BOOLEAN
  BY DEF RegInv
<1>2. CASE Sample
  <2>1. UNCHANGED <<arch, asked, cpu, verdict, shown>> /\ pc = "running"
    BY <1>2 DEF Sample
  <2>2. regs = <<>> /\ shown = <<>>
    BY <2>1 DEF RegInv
  <2>3. Held' = Held
    BY <2>1 DEF Held
  <2>4. CASE pc' = "sampled"
    <3>1. regs' = [i \in 1..RegsCount(arch) |-> cpu[Dumped[arch][i]]]
      BY <1>2, <2>4 DEF Sample
    <3>2. regs' = Held
      BY <1>1, <3>1, DumpedIs DEF Held
    <3> QED
      BY <2>1, <2>2, <2>3, <2>4, <3>2 DEF RegInv, FilterReadsItsRegister
  <2>5. CASE pc' = "skipped" /\ UNCHANGED regs
    BY <2>1, <2>2, <2>5 DEF RegInv, FilterReadsItsRegister
  <2> QED
    BY <1>2, <2>4, <2>5 DEF Sample
<1>3. CASE Match
  <2> DEFINE i == ParseReg(asked.name)
  <2>1. UNCHANGED <<arch, asked, cpu, regs, shown>> /\ pc = "sampled" /\ pc' = "matched"
    BY <1>3 DEF Match
  <2>2. regs = Held /\ shown = <<>>
    BY <2>1 DEF RegInv
  <2>3. Held' = Held
    BY <2>1 DEF Held
  <2>4. i \in 0..RegsCount(arch) - 1 /\ Table[arch][i + 1] = asked.name
    BY <1>1, ParseRegFinds DEF RegInv
  <2>5. i < Len(regs) /\ regs[i + 1] = cpu[KernelName(asked.name)]
    <3>1. i + 1 \in 1..RegsCount(arch) /\ i < RegsCount(arch)
      BY <2>4, HeldTyped
    <3> QED
      BY <2>2, <2>4, <3>1, HeldTyped
  <2>6. verdict' = (i < Len(regs) /\ Holds(asked.op, Masked(regs[i + 1], asked.mask), asked.value))
    BY <1>3 DEF Match
  <2>7. verdict' \in BOOLEAN
    <3>1. Holds(asked.op, Masked(regs[i + 1], asked.mask), asked.value) \in BOOLEAN
      BY HoldsIsBoolean
    <3> QED
      BY <2>5, <2>6, <3>1
  <2>8. verdict' = Holds(asked.op, Masked(cpu[KernelName(asked.name)], asked.mask), asked.value)
    <3> DEFINE answer == Holds(asked.op, Masked(cpu[KernelName(asked.name)], asked.mask), asked.value)
    <3>1. answer \in BOOLEAN
      BY HoldsIsBoolean
    <3>2. verdict' = (i < Len(regs) /\ answer)
      BY <2>5, <2>6
    <3> HIDE DEF answer
    <3>3. verdict' = answer
      BY <2>5, <3>1, <3>2
    <3> QED
      BY <3>3 DEF answer
  <2>9. FilterReadsItsRegister'
    BY <2>1, <2>8 DEF FilterReadsItsRegister
  <2> QED
    BY <2>1, <2>2, <2>3, <2>7, <2>9 DEF RegInv
<1>4. CASE MakeHit
  <2>1. UNCHANGED <<arch, asked, cpu, regs, verdict>> /\ pc = "matched" /\ pc' = "done"
    BY <1>4 DEF MakeHit
  <2>2. regs = Held
    BY <2>1 DEF RegInv
  <2>3. Held' = Held
    BY <2>1 DEF Held
  <2>4. FilterReadsItsRegister'
    BY <2>1 DEF FilterReadsItsRegister, RegInv
  <2>5. shown' = [i \in 1..RegsCount(arch) |-> [name |-> Table[arch][i], value |-> Held[i]]]
    <3>1. shown' = [i \in 1..RegsCount(arch) |->
                      [name |-> IdToStr(arch, i - 1), value |-> Held[i]]]
      BY <1>4, <2>2, HeldTyped DEF MakeHit
    <3>2. \A i \in 1..RegsCount(arch) : IdToStr(arch, i - 1) = Table[arch][i]
      <4> SUFFICES ASSUME NEW i \in 1..RegsCount(arch) PROVE IdToStr(arch, i - 1) = Table[arch][i]
        OBVIOUS
      <4>1. i - 1 \in 0..RegsCount(arch) - 1 /\ (i - 1) + 1 = i
        BY HeldTyped
      <4> QED
        BY <1>1, <4>1, IdsAreTable
    <3> QED
      BY <3>1, <3>2
  <2> QED
    BY <2>1, <2>2, <2>3, <2>4, <2>5 DEF RegInv
<1>5. CASE UNCHANGED registerVars
  <2>1. UNCHANGED <<arch, asked, cpu, pc, regs, verdict, shown>>
    BY <1>5 DEF registerVars
  <2> QED
    BY <2>1 DEF RegInv, Held, FilterReadsItsRegister
<1> QED
  BY <1>2, <1>3, <1>4, <1>5 DEF RegNext

LEMMA ListOf ==
  ASSUME NEW S, NEW n \in Nat, NEW f \in [1..n -> S]
  PROVE  f \in Seq(S) /\ Len(f) = n
OBVIOUS

LEMMA RegsAreRead == RegInv => PredicatesReadRegisters
<1> SUFFICES ASSUME RegInv PROVE PredicatesReadRegisters
  OBVIOUS
<1>1. arch \in Arch
  BY DEF RegInv
<1> DEFINE list == [i \in 1..RegsCount(arch) |-> [name |-> Table[arch][i], value |-> Held[i]]]
<1> DEFINE Ids == {IdToStr(arch, i) : i \in 0..RegsCount(arch) - 1}
<1>2. list \in Seq([name : Ids, value : RegWord]) /\ Len(list) = RegsCount(arch)
  <2>1. ASSUME NEW i \in 1..RegsCount(arch) PROVE Table[arch][i] \in Ids
    <3>1. i - 1 \in 0..RegsCount(arch) - 1 /\ (i - 1) + 1 = i
      BY HeldTyped
    <3>2. IdToStr(arch, i - 1) = Table[arch][i]
      BY <1>1, <3>1, IdsAreTable
    <3> QED
      BY <3>1, <3>2
  <2> HIDE DEF Ids
  <2>2. \A i \in 1..RegsCount(arch) :
          [name |-> Table[arch][i], value |-> Held[i]] \in [name : Ids, value : RegWord]
    BY <2>1, HeldTyped
  <2>3. RegsCount(arch) \in Nat
    BY HeldTyped
  <2>4. list \in [1..RegsCount(arch) -> [name : Ids, value : RegWord]]
    BY <2>2, Zenon
  <2> HIDE DEF list
  <2> QED
    BY <2>3, <2>4, ListOf, Zenon
<1>3. RegTypeOK
  <2>1. regs \in Seq(RegWord)
    BY HeldTyped DEF RegInv
  <2>2. shown \in Seq([name : Ids, value : RegWord])
    BY <1>2 DEF RegInv
  <2> QED
    BY <2>1, <2>2 DEF RegInv, RegTypeOK
<1>4. FilterReadsItsRegister
  BY DEF RegInv
<1>5. FilterAgreesWithTheHit
  <2> SUFFICES ASSUME pc = "done"
               PROVE  /\ \A i \in 1..Len(shown) : shown[i].value = cpu[KernelName(shown[i].name)]
                      /\ \E i \in 1..Len(shown) :
                           /\ shown[i].name = asked.name
                           /\ verdict = Holds(asked.op, Masked(shown[i].value, asked.mask),
                                              asked.value)
    BY DEF FilterAgreesWithTheHit
  <2>1. shown = list /\ Len(shown) = RegsCount(arch)
    BY <1>2 DEF RegInv
  <2>2. ASSUME NEW i \in 1..RegsCount(arch)
        PROVE  shown[i].name = Table[arch][i] /\ shown[i].value = cpu[KernelName(Table[arch][i])]
    BY <2>1, HeldTyped
  <2>3. PICK k \in 1..RegsCount(arch) : Table[arch][k] = asked.name
    BY DEF RegInv
  <2>4. verdict = Holds(asked.op, Masked(cpu[KernelName(asked.name)], asked.mask), asked.value)
    BY <1>4 DEF FilterReadsItsRegister
  <2>5. /\ shown[k].name = asked.name
        /\ verdict = Holds(asked.op, Masked(shown[k].value, asked.mask), asked.value)
    BY <2>2, <2>3, <2>4
  <2> QED
    BY <2>1, <2>2, <2>3, <2>5
<1> QED
  BY <1>3, <1>4, <1>5 DEF PredicatesReadRegisters

\* On either processor, whatever the registers hold and whatever the filter asks, a predicate
\* speaks of the register it names and agrees with what the hit prints under that name
\* (filter.rs:41-58, 181-185, hit.rs:56-71, arch/).
THEOREM RegistersAreRead == RegSpec => []PredicatesReadRegisters
<1>1. RegInv /\ [RegNext]_registerVars => RegInv'
  BY NextRegs
<1> QED
  BY InitRegs, <1>1, RegsAreRead, PTL DEF RegSpec
=============================================================================

---------------------------- MODULE MCSequential ----------------------------
(* The parts that share no state with the rest, in one run: the set-up of a *)
(* perf event, the tokenizer, the parser and the predicates of register     *)
(* filters, the other texts a user writes, and the list of processes.  A    *)
(* behaviour is one of a single part; the variables of the others keep a    *)
(* value that means nothing.                                                *)
(*                                                                          *)
(* Perf events: a usize of six bits and pages of four bytes, so that sizes  *)
(* 0 to 3 fit, 4 and 5 overflow the product, 6 and 7 the shift; two callers *)
(* and one debug register between them.  Texts: every one of five           *)
(* characters or fewer, with a u64 of six bits, so that some numbers of two *)
(* digits fit and some do not.  Filters: fifteen tokens, which are four     *)
(* plain predicates, or two masked and one plain.  Registers: the words 0   *)
(* and 1, so that a mask may keep the bit or clear it; every register of    *)
(* both tables.  Processes: three pids and four births, so that a pid is    *)
(* used again.                                                              *)
EXTENDS PerfOpen, ProcessList, Filter, Registers, Arguments

VARIABLES part   \* the part that runs

allVars == <<part, openVars, tokenVars, parseVars, registerVars, written, listVars>>

\* What the variables hold in the parts they are not of.
OpenIdle ==
  /\ build = "debug" /\ buf = [c \in Call |-> 0] /\ setup = [c \in Call |-> "idle"]
  /\ fd = {} /\ mapped = [c \in Call |-> 0]
TokenIdle == text = <<>> /\ pos = 0 /\ tokens = <<>> /\ status = "done"
RegistersIdle ==
  /\ arch = "x86_64" /\ asked = [name |-> "ax", mask |-> NoMask, op |-> "==", value |-> 0]
  /\ cpu = <<>> /\ pc = "running"
  /\ regs = <<>> /\ verdict = FALSE /\ shown = <<>>
ListIdle ==
  /\ proc = [p \in Pid |-> Gone] /\ births = 0 /\ at = "idle" /\ limit = 0 /\ todo = {}
  /\ view = [pid |-> 1, status |-> Gone, comm |-> Gone, cmdline |-> Gone]
  /\ found = <<>> /\ answer = <<>> /\ through = {}

SeqInit ==
  \/ /\ part = "open" /\ OpenInit
     /\ TokenIdle /\ ParseInit /\ RegistersIdle /\ ArgInit /\ ListIdle
  \/ /\ part = "tokenize" /\ TokenInit
     /\ OpenIdle /\ ParseInit /\ RegistersIdle /\ ArgInit /\ ListIdle
  \/ /\ part = "parse" /\ ParseInit
     /\ OpenIdle /\ TokenIdle /\ RegistersIdle /\ ArgInit /\ ListIdle
  \/ /\ part = "match" /\ RegInit
     /\ OpenIdle /\ TokenIdle /\ ParseInit /\ ArgInit /\ ListIdle
  \/ /\ part = "argument" /\ ArgInit
     /\ OpenIdle /\ TokenIdle /\ ParseInit /\ RegistersIdle /\ ListIdle
  \/ /\ part = "list" /\ ListInit
     /\ OpenIdle /\ TokenIdle /\ ParseInit /\ RegistersIdle /\ ArgInit

SeqNext ==
  \/ /\ part = "open" /\ OpenNext
     /\ UNCHANGED <<part, tokenVars, parseVars, registerVars, written, listVars>>
  \/ /\ part = "tokenize" /\ TokenNext
     /\ UNCHANGED <<part, openVars, parseVars, registerVars, written, listVars>>
  \/ /\ part = "parse" /\ ParseNext
     /\ UNCHANGED <<part, openVars, tokenVars, registerVars, written, listVars>>
  \/ /\ part = "match" /\ RegNext
     /\ UNCHANGED <<part, openVars, tokenVars, parseVars, written, listVars>>
  \/ /\ part = "argument" /\ ArgNext
     /\ UNCHANGED <<part, openVars, tokenVars, parseVars, registerVars, listVars>>
  \/ /\ part = "list" /\ ListNext
     /\ UNCHANGED <<part, openVars, tokenVars, parseVars, registerVars, written>>

SeqSpec == SeqInit /\ [][SeqNext]_allVars
=============================================================================

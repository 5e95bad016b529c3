---------------------------- MODULE ProcessList ----------------------------
(***************************************************************************)
(* GET /processes (list_processes, server.rs): a walk over /proc while the *)
(* processes in it start and exit and their pids are used again, reading   *)
(* several files of each, and then the sort and the cut of the answer.     *)
(*                                                                         *)
(* A process is a pid and a birth number; its name and command line are    *)
(* that number, `Matching` the births whose text the query matches.  comm, *)
(* cmdline and exe stand for the files read; status for the fallback of    *)
(* comm and for ppid and state.  External: readdir gives pids in any order,*)
(* each at most once, every pid that is there from its beginning to its    *)
(* end among them.                                                         *)
(***************************************************************************)
EXTENDS Naturals, FiniteSets, Sequences

CONSTANTS
  MaxPid,    \* pids are 1..MaxPid
  MaxBirth,  \* bound on processes started
  Matching,  \* births whose name or command line holds the query
  MatchPid,  \* pids whose digits hold the query
  Limits,    \* values of ?limit=
  Cap        \* 4096

ASSUME ListAssumption ==
  /\ MaxPid \in Nat \ {0} /\ MaxBirth \in Nat /\ MaxPid <= MaxBirth
  /\ Limits \subseteq Nat /\ Cap \in Nat

Pid == 1..MaxPid
Birth == 1..MaxBirth
Gone == 0   \* no process; a file that cannot be read

VARIABLES
  proc,     \* per pid: the birth of the process that has it, or Gone
  births,   \* processes started so far
  at,       \* where the request is
  limit,    \* the request's limit
  todo,     \* pids readdir has still to give
  view,     \* the process being read: its pid and what each file said
  found,    \* processes, in the order of the walk
  answer,   \* what is returned
  through   \* history: pids whose process has been alive since the walk began

listVars == <<proc, births, at, limit, todo, view, found, answer, through>>

View == [pid : Pid, status : Birth \cup {Gone}, comm : Birth \cup {Gone},
         cmdline : Birth \cup {Gone}]

ListInit ==
  /\ births \in 0..MaxPid
  /\ proc = [p \in Pid |-> IF p <= births THEN p ELSE Gone]
  /\ at = "idle" /\ limit = 0 /\ todo = {}
  /\ view = [pid |-> 1, status |-> Gone, comm |-> Gone, cmdline |-> Gone]
  /\ found = <<>> /\ answer = <<>> /\ through = {}

-----------------------------------------------------------------------------
(* The system's processes (external)                                       *)

Start(p) ==
  /\ proc[p] = Gone /\ births < MaxBirth
  /\ births' = births + 1 /\ proc' = [proc EXCEPT ![p] = births']
  /\ UNCHANGED <<at, limit, todo, view, found, answer, through>>

Exit(p) ==
  /\ proc[p] # Gone
  /\ proc' = [proc EXCEPT ![p] = Gone] /\ through' = through \ {p}
  /\ UNCHANGED <<births, at, limit, todo, view, found, answer>>

-----------------------------------------------------------------------------
(* read_processes                                                          *)

ReadDir(n) ==
  /\ at = "idle"
  /\ \/ /\ at' = "walk" /\ todo' = Pid
        /\ through' = {p \in Pid : proc[p] # Gone}
     \/ at' = "error" /\ UNCHANGED <<todo, through>>   \* read_dir fails
  /\ limit' = IF n < Cap THEN n ELSE Cap
  /\ UNCHANGED <<proc, births, view, found, answer>>

\* The next entry.  Which process that was does not matter: its files are read by pid.
Entry(p) ==
  /\ at = "walk" /\ p \in todo /\ proc[p] # Gone
  /\ at' = "status" /\ todo' = todo \ {p}
  /\ view' = [pid |-> p, status |-> Gone, comm |-> Gone, cmdline |-> Gone]
  /\ UNCHANGED <<proc, births, limit, found, answer, through>>

\* One file of the process that has the pid now; an error is no text.
ReadFile(from, file, to) ==
  /\ at = from /\ at' = to
  /\ view' = [view EXCEPT ![file] = proc[view.pid]]
  /\ UNCHANGED <<proc, births, limit, todo, found, answer, through>>

\* The name: comm, else the Name of status, else the pid.
Name(v) == IF v.comm # Gone THEN v.comm ELSE v.status

ProcessMatches(v) == v.pid \in MatchPid \/ Name(v) \in Matching \/ v.cmdline \in Matching

Keep ==
  /\ at = "keep" /\ at' = "walk"
  /\ found' = IF ProcessMatches(view) THEN Append(found, view) ELSE found
  /\ UNCHANGED <<proc, births, limit, todo, view, answer, through>>

\* Mutant: left in the order of the walk.
SortedNot(s) == s

\* The sort is stable: where entry i goes.
Place(s, i) ==
  Cardinality({j \in 1..Len(s) : s[j].pid < s[i].pid \/ (s[j].pid = s[i].pid /\ j <= i)})

SortedByPid(s) == [k \in 1..Len(s) |-> s[CHOOSE i \in 1..Len(s) : Place(s, i) = k]]

Kept(s, n) == IF n < Len(s) THEN n ELSE Len(s)

\* Mutant: cut, then sorted.
CutFirst(s, n) == SortedByPid(SubSeq(s, 1, Kept(s, n)))

Cut(s, n) == SubSeq(SortedByPid(s), 1, Kept(s, n))

\* The walk is over when every process that was there all along was given.
Answer ==
  /\ at = "walk" /\ todo \cap through = {}
  /\ at' = "answered" /\ answer' = Cut(found, limit)
  /\ UNCHANGED <<proc, births, limit, todo, view, found, through>>

ListNext ==
  \/ \E p \in Pid : Start(p) \/ Exit(p) \/ Entry(p)
  \/ \E n \in Limits : ReadDir(n)
  \/ ReadFile("status", "status", "comm")
  \/ ReadFile("comm", "comm", "cmdline")
  \/ ReadFile("cmdline", "cmdline", "keep")
  \/ Keep \/ Answer

ListSpec == ListInit /\ [][ListNext]_listVars

-----------------------------------------------------------------------------
ListTypeOK ==
  /\ proc \in [Pid -> Birth \cup {Gone}] /\ births \in 0..MaxBirth
  /\ at \in {"idle", "walk", "status", "comm", "cmdline", "keep", "answered", "error"}
  /\ limit \in 0..Cap /\ todo \subseteq Pid /\ view \in View
  /\ found \in Seq(View) /\ answer \in Seq(View) /\ through \subseteq Pid

\* The answer names each pid once, in order, and never more than asked for (server.rs:434,
\* 459-462).
SortedAndBounded ==
  /\ Len(answer) <= limit
  /\ \A i, j \in 1..Len(answer) : i < j => answer[i].pid < answer[j].pid

\* A process all of whose files were read while it had the pid.
Own(p) == [pid |-> p, status |-> proc[p], comm |-> proc[p], cmdline |-> proc[p]]

\* GET /processes: a process that is there from the beginning of the walk to its end and
\* matches the query is listed, with its own texts, whatever others exit, start or take over
\* a pid while the files are read; only processes of smaller pids may take its place under a
\* limit; and the answer is in order and within the limit (server.rs:432-464).
ListsTheLiving ==
  /\ ListTypeOK /\ SortedAndBounded
  /\ at = "answered" =>
       \A p \in through :
         p \in MatchPid \/ proc[p] \in Matching =>
           \/ \E i \in 1..Len(answer) : answer[i] = Own(p)
           \/ Len(answer) = limit /\ \A i \in 1..Len(answer) : answer[i].pid < p
=============================================================================

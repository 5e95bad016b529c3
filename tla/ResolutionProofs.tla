-------------------------- MODULE ResolutionProofs --------------------------
(***************************************************************************)
(* Proofs about Resolution.tla, for any number of callers and processes,   *)
(* any mappings and any TTL: what the answers of the maps cache say was    *)
(* true, and when.  They rest on MapsCacheProofs: how old the snapshot is  *)
(* that a caller holds, and who read it.  Then about the text of addresses *)
(* and watchpoint types (Arguments.tla), of any length: the parsers agree, *)
(* and read back what hits show.                                           *)
(***************************************************************************)
EXTENDS Resolution, Arguments, SequenceTheorems, WellFoundedInduction, TLAPS

\* Of the cache's proofs only those that do not count reads are used here.
CP == INSTANCE MapsCacheProofs WITH reads <- [c \in Caller |-> 0]

-----------------------------------------------------------------------------
(* Every step is one of the cache                                          *)

LEMMA InitCache == Init => CP!Init
  BY DEF Init, C!Init, CP!Init

LEMMA CallIsCache ==
  ASSUME NEW c \in Caller, NEW p \in Pid, NEW o \in {"list", "resolve"}, C!Call(c, p, o)
  PROVE  CP!Call(c, p, o) /\ CP!Next
<1>1. CP!Call(c, p, o)
  BY DEF C!Call, C!Goto, CP!Call, CP!Goto
<1> QED
  BY <1>1 DEF CP!Next

LEMMA StepIsCache ==
  ASSUME NEW c \in Caller,
         C!Lookup(c) \/ C!ReadMaps(c) \/ C!Store(c) \/ C!Found(c) \/ C!NotFound(c)
         \/ C!ReadFails(c) \/ C!Done(c)
  PROVE  CP!Step(c) /\ CP!Next
<1> USE DEF C!Goto, C!Return, C!Retry, CP!Goto, CP!Return, CP!Retry
<1>1. CASE C!Lookup(c)
  BY <1>1 DEF C!Lookup, C!Stale, CP!Lookup, CP!Stale, CP!Step, CP!Next
<1>2. CASE C!ReadMaps(c)
  BY <1>2 DEF C!ReadMaps, CP!ReadMaps, CP!Step, CP!Next
<1>3. CASE C!Store(c)
  BY <1>3 DEF C!Store, C!Stale, CP!Store, CP!Stale, CP!Step, CP!Next
<1>4. CASE C!Found(c)
  BY <1>4 DEF C!Found, CP!Found, CP!Step, CP!Next
<1>5. CASE C!NotFound(c)
  BY <1>5 DEF C!NotFound, CP!NotFound, CP!Step, CP!Next
<1>6. CASE C!ReadFails(c)
  BY <1>6 DEF C!ReadFails, CP!ReadFails, CP!Step, CP!Next
<1>7. CASE C!Done(c)
  BY <1>7 DEF C!Done, CP!Done, CP!Step, CP!Next
<1> QED
  BY <1>1, <1>2, <1>3, <1>4, <1>5, <1>6, <1>7

LEMMA NextCache == CP!TypeOK /\ [Next]_vars => [CP!Next]_(CP!vars)
<1> SUFFICES ASSUME CP!TypeOK, [Next]_vars PROVE [CP!Next]_(CP!vars)
  OBVIOUS
<1>1. CASE Tick
  BY <1>1 DEF Tick, C!Tick, C!callVars, CP!Tick, CP!callVars, CP!Next
<1>2. ASSUME NEW c \in Caller, Step(c) PROVE CP!Next
  <2>1. CASE ResolveValue(c)
    <3>1. pid[c] \in Pid
      BY DEF CP!TypeOK
    <3> QED
      BY <2>1, <3>1, CallIsCache DEF ResolveValue
  <2> QED
    BY <1>2, <2>1, StepIsCache DEF Step, Refresh, Search, ResolveModule, ReadFails, Done
<1>3. ASSUME NEW c \in Caller, NEW p \in Pid, NEW addrs \in Questions, ResolveMany(c, p, addrs)
      PROVE  CP!Next
  BY <1>3, CallIsCache DEF ResolveMany
<1>4. ASSUME NEW c \in Caller, NEW p \in Pid, NEW m \in Modules, NEW off \in 0..1,
             Expression(c, p, m, off)
      PROVE  CP!Next
  BY <1>4, CallIsCache DEF Expression
<1>5. CASE UNCHANGED vars
  BY <1>5 DEF vars, C!vars, C!callVars, CP!vars, CP!callVars
<1> QED
  BY <1>1, <1>2, <1>3, <1>4, <1>5 DEF Next

-----------------------------------------------------------------------------
(* What was mapped when                                                    *)

Recorded ==
  /\ world \in [Pid -> Seq(Layouts)]
  /\ \A p \in Pid : Len(world[p]) = clock + 1

LEMMA InitRecorded == Init => Recorded
<1> SUFFICES ASSUME Init PROVE Recorded
  OBVIOUS
<1>1. clock = 0 /\ world \in [Pid -> {<<l>> : l \in Layouts}]
  BY DEF Init, C!Init
<1>2. ASSUME NEW p \in Pid PROVE world[p] \in Seq(Layouts) /\ Len(world[p]) = 1
  <2>1. PICK l \in Layouts : world[p] = <<l>>
    BY <1>1
  <2> QED
    BY <2>1
<1> QED
  BY <1>1, <1>2 DEF Recorded

\* The past of a process is never rewritten.
LEMMA PastStays ==
  ASSUME CP!TypeOK, Recorded, [Next]_vars
  PROVE  /\ Recorded'
         /\ clock' \in Nat /\ clock' >= clock
         /\ \A p \in Pid, t \in 0..clock : At(p, t)' = At(p, t)
<1>0. clock \in Nat
  BY DEF CP!TypeOK
<1>1. CASE Tick
  <2>1. PICK l \in [Pid -> Layouts] : world' = [p \in Pid |-> Append(world[p], l[p])]
    BY <1>1 DEF Tick
  <2>2. clock' = clock + 1
    BY <1>1 DEF Tick, C!Tick
  <2>3. ASSUME NEW p \in Pid
        PROVE  /\ world'[p] \in Seq(Layouts) /\ Len(world'[p]) = clock + 2
               /\ \A t \in 0..clock : world'[p][t + 1] = world[p][t + 1]
    <3>1. world[p] \in Seq(Layouts) /\ Len(world[p]) = clock + 1 /\ l[p] \in Layouts
      BY DEF Recorded
    <3>2. world'[p] = Append(world[p], l[p])
      BY <2>1
    <3> DEFINE w == world[p]
    <3>3. w \in Seq(Layouts) /\ Len(w) = clock + 1
      BY <3>1
    <3> HIDE DEF w
    <3>4. /\ Append(w, l[p]) \in Seq(Layouts) /\ Len(Append(w, l[p])) = Len(w) + 1
          /\ \A i \in 1..Len(w) : Append(w, l[p])[i] = w[i]
      BY <3>1, <3>3, AppendProperties
    <3>5. \A t \in 0..clock : t + 1 \in 1..Len(w)
      BY <1>0, <3>3
    <3> QED
      BY <1>0, <3>2, <3>3, <3>4, <3>5 DEF w
  <2> QED
    BY <1>0, <2>1, <2>2, <2>3 DEF Recorded, At
<1>2. CASE UNCHANGED <<world, clock>>
  BY <1>0, <1>2 DEF Recorded, At
<1>3. ASSUME NEW c \in Caller, Step(c) PROVE UNCHANGED <<world, clock>>
  BY <1>3 DEF Step, Refresh, Search, ResolveModule, ResolveValue, ReadFails, Done, C!Lookup,
              C!ReadMaps, C!Store, C!Found, C!NotFound, C!ReadFails, C!Done, C!Call
<1>4. ASSUME NEW c \in Caller, NEW p \in Pid, NEW addrs \in Questions, ResolveMany(c, p, addrs)
      PROVE  UNCHANGED <<world, clock>>
  BY <1>4 DEF ResolveMany, C!Call
<1>5. ASSUME NEW c \in Caller, NEW p \in Pid, NEW m \in Modules, NEW off \in 0..1,
             Expression(c, p, m, off)
      PROVE  UNCHANGED <<world, clock>>
  BY <1>5 DEF Expression, C!Call
<1>6. CASE UNCHANGED vars
  BY <1>2, <1>6 DEF vars, C!vars
<1> QED
  BY <1>1, <1>2, <1>3, <1>4, <1>5, <1>6 DEF Next

-----------------------------------------------------------------------------
(* The first of several regions                                            *)

\* A set of naturals has a smallest element.
LEMMA SmallestExists ==
  ASSUME NEW S \in SUBSET Nat, S # {}
  PROVE  \E x \in S : \A y \in S : x <= y
<1> DEFINE R == {ss \in Nat \X Nat : ss[1] < ss[2]}
<1>1. IsWellFoundedOn(R, Nat)
  BY NatLessThanWellFounded DEF OpToRel
<1> HIDE DEF R
<1>2. PICK x \in S : \A y \in S : ~(<<y, x>> \in R)
  BY <1>1, WFMin, Zenon
<1>3. ASSUME NEW y \in S PROVE x <= y
  <2>1. x \in Nat /\ y \in Nat
    OBVIOUS
  <2>2. <<y, x>> \notin R
    BY <1>2
  <2>3. ~(y < x)
    BY <2>1, <2>2 DEF R
  <2> QED
    BY <2>1, <2>3
<1> QED
  BY <1>3

LEMMA FirstProperties ==
  ASSUME NEW S \in SUBSET Nat, S # {}
  PROVE  First(S) \in S /\ \A j \in S : First(S) <= j
  BY SmallestExists DEF First

\* A module that is mapped begins at an address.
LEMMA ModuleStartIsAddress ==
  ASSUME NEW l \in Layouts, NEW m, Mapped(l, m)
  PROVE  /\ First(Of(l, m)) \in 1..Len(l) /\ l[First(Of(l, m))].module = m
         /\ ModuleStart(l, m) \in Nat
<1>1. IsLayout(l)
  BY ResolutionAssumption DEF ResolutionAssumption
<1>2. Len(l) \in Nat
  BY <1>1, LenProperties DEF IsLayout
<1>3. Of(l, m) \in SUBSET Nat /\ Of(l, m) \subseteq 1..Len(l) /\ Of(l, m) # {}
  BY <1>2 DEF Of, Mapped
<1>4. First(Of(l, m)) \in Of(l, m)
  BY <1>3, FirstProperties
<1> QED
  BY <1>1, <1>3, <1>4 DEF ModuleStart, IsLayout, Of

-----------------------------------------------------------------------------
(* The inductive invariant                                                 *)

Expr == [stage : {"none", "module", "value", "region", "failed"}, module : Modules \cup {Anonymous},
         offset : 0..1, value : Nat]

Typed ==
  /\ DOMAIN asked = Caller /\ DOMAIN resolved = Caller
  /\ expr \in [Caller -> Expr] /\ began \in [Caller -> Nat]

\* At t the i-th address asked for was where the answer shows it.
Saw(c, i, t) == Find(At(pid[c], t), asked[c][i]) = resolved[c][i]

\* What a call that resolves addresses has found so far, and what its end says.
AnswerFits(c) ==
  op[c] = "resolve" =>
    /\ answer[c] # "error"
    /\ \A i \in 1..Len(asked[c]) :
         /\ resolved[c][i] # None => \E t \in 0..clock : t > now[c] - TTL /\ Saw(c, i, t)
         /\ pc[c] = "done" /\ answer[c] = "none" /\ resolved[c][i] = None =>
              \E t \in now[c]..clock : Saw(c, i, t)
         /\ pc[c] = "done" /\ answer[c] = "regions" => resolved[c][i] # None

\* When the value of an expression was right.
Current(c, t) ==
  LET layout == At(pid[c], t)
  IN  /\ Mapped(layout, expr[c].module)
      /\ expr[c].value = ModuleStart(layout, expr[c].module) + expr[c].offset

\* What the stage of an expression says of the calls it makes.
StageFits(c) ==
  /\ expr[c].stage = "module" =>
       /\ op[c] = "list" /\ force[c] /\ pc[c] \in {"lookup", "read", "store", "search"}
       /\ now[c] = began[c]
  /\ expr[c].stage = "value" => op[c] = "list" /\ pc[c] \in {"done", "idle"}
  /\ expr[c].stage = "region" =>
       op[c] = "resolve" /\ asked[c] = <<expr[c].value>> /\ began[c] <= now[c]
  /\ expr[c].stage \in {"value", "region"} => \E t \in began[c]..clock : Current(c, t)

CacheInv == CP!Inv /\ CP!GotIsPast

ResolutionInv ==
  /\ CacheInv /\ Recorded /\ Typed
  /\ \A c \in Caller : AnswerFits(c) /\ StageFits(c)

\* Everything a caller has of its own.
Local(c) == <<pc[c], op[c], pid[c], now[c], force[c], got[c], answer[c], asked[c], resolved[c],
              expr[c], began[c]>>

\* A caller that stands still keeps what it knew: the past it saw is still the past.
LEMMA LocalStays ==
  ASSUME ResolutionInv, [Next]_vars, NEW c \in Caller, Local(c)' = Local(c)
  PROVE  AnswerFits(c)' /\ StageFits(c)'
<1>1. /\ clock \in Nat /\ pid[c] \in Pid /\ now[c] \in Nat /\ began[c] \in Nat
  BY DEF ResolutionInv, CacheInv, CP!Inv, CP!TypeOK, Typed
<1>2. /\ clock' \in Nat /\ clock' >= clock
      /\ \A t \in 0..clock : At(pid[c], t)' = At(pid[c], t)
  <2>1. \A t \in 0..clock : world'[pid[c]][t + 1] = world[pid[c]][t + 1]
    BY <1>1, PastStays DEF ResolutionInv, CacheInv, CP!Inv, At
  <2>2. clock' \in Nat /\ clock' >= clock
    BY PastStays DEF ResolutionInv, CacheInv, CP!Inv
  <2>3. pid'[c] = pid[c]
    BY DEF Local
  <2> QED
    BY <2>1, <2>2, <2>3 DEF At
<1>3. AnswerFits(c) /\ StageFits(c)
  BY DEF ResolutionInv
<1>4. AnswerFits(c)'
  BY <1>1, <1>2, <1>3, ResolutionAssumption DEF ResolutionAssumption, Local, AnswerFits, Saw
<1>5. StageFits(c)'
  BY <1>1, <1>2, <1>3 DEF Local, StageFits, Current
<1> QED
  BY <1>4, <1>5

-----------------------------------------------------------------------------
(* The steps of a caller                                                   *)

Mine(c) == Typed' /\ AnswerFits(c)' /\ StageFits(c)' /\ \A d \in Caller : d # c => Local(d)' = Local(d)

\* A call that begins has found nothing yet.
LEMMA ResolveManyStep ==
  ASSUME ResolutionInv, NEW c \in Caller, NEW p \in Pid, NEW addrs, ResolveMany(c, p, addrs)
  PROVE  Mine(c)
<1> USE DEF ResolutionInv, CacheInv, CP!Inv, CP!TypeOK, Typed
<1>1. /\ asked' = [asked EXCEPT ![c] = addrs]
      /\ resolved' = [resolved EXCEPT ![c] = [i \in 1..Len(addrs) |-> None]]
      /\ pc' = [pc EXCEPT ![c] = "lookup"] /\ op' = [op EXCEPT ![c] = "resolve"]
      /\ pid' = [pid EXCEPT ![c] = p] /\ now' = [now EXCEPT ![c] = clock]
      /\ force' = [force EXCEPT ![c] = ("resolve" = "list")] /\ got' = [got EXCEPT ![c] = NoEntry]
      /\ answer' = [answer EXCEPT ![c] = "none"]
      /\ expr[c].stage = "none" /\ UNCHANGED <<expr, began>>
  BY DEF ResolveMany, C!Call, C!Goto, AskFor, exprVars
<1>2. Typed'
  BY <1>1
<1>3. AnswerFits(c)'
  BY <1>1 DEF AnswerFits
<1>4. StageFits(c)'
  BY <1>1 DEF StageFits
<1>5. \A d \in Caller : d # c => Local(d)' = Local(d)
  BY <1>1 DEF Local
<1> QED
  BY <1>2, <1>3, <1>4, <1>5 DEF Mine

LEMMA ExpressionStep ==
  ASSUME ResolutionInv, NEW c \in Caller, NEW p \in Pid, NEW m \in Modules, NEW off \in 0..1,
         Expression(c, p, m, off)
  PROVE  Mine(c)
<1> USE DEF ResolutionInv, CacheInv, CP!Inv, CP!TypeOK, Typed
<1>1. /\ expr' = [expr EXCEPT ![c] = [stage |-> "module", module |-> m, offset |-> off, value |-> 0]]
      /\ began' = [began EXCEPT ![c] = clock]
      /\ pc' = [pc EXCEPT ![c] = "lookup"] /\ op' = [op EXCEPT ![c] = "list"]
      /\ pid' = [pid EXCEPT ![c] = p] /\ now' = [now EXCEPT ![c] = clock]
      /\ force' = [force EXCEPT ![c] = ("list" = "list")] /\ got' = [got EXCEPT ![c] = NoEntry]
      /\ answer' = [answer EXCEPT ![c] = "none"]
      /\ UNCHANGED <<asked, resolved>>
  BY DEF Expression, C!Call, C!Goto, callVars
<1>2. Typed'
  BY <1>1 DEF Expr
<1>3. AnswerFits(c)'
  BY <1>1 DEF AnswerFits
<1>4. StageFits(c)'
  BY <1>1 DEF StageFits
<1>5. \A d \in Caller : d # c => Local(d)' = Local(d)
  BY <1>1 DEF Local
<1> QED
  BY <1>2, <1>3, <1>4, <1>5 DEF Mine

\* The critical sections and the read decide nothing about the answer.
LEMMA RefreshStep ==
  ASSUME ResolutionInv, NEW c \in Caller, Refresh(c)
  PROVE  Mine(c)
<1> USE DEF ResolutionInv, CacheInv, CP!Inv, CP!TypeOK, Typed
<1>1. /\ UNCHANGED <<clock, world, asked, resolved, expr, began, op, pid, now, force, answer>>
      /\ pc[c] \in {"lookup", "read", "store"}
      /\ \E where \in {"read", "store", "search"} : pc' = [pc EXCEPT ![c] = where]
      /\ \A d \in Caller : d # c => got'[d] = got[d]
  BY DEF Refresh, C!Lookup, C!ReadMaps, C!Store, C!Goto, callVars, exprVars
<1>2. pc'[c] \in {"read", "store", "search"} /\ \A d \in Caller : d # c => pc'[d] = pc[d]
  BY <1>1
<1>3. AnswerFits(c)'
  BY <1>1, <1>2 DEF AnswerFits, Saw, At
<1>4. StageFits(c)'
  BY <1>1, <1>2 DEF StageFits, Current, At
<1>5. \A d \in Caller : d # c => Local(d)' = Local(d)
  BY <1>1, <1>2 DEF Local
<1> QED
  BY <1>1, <1>3, <1>4, <1>5 DEF Mine

\* What a caller that searches has in hand.
LEMMA InSearch ==
  ASSUME ResolutionInv, NEW c \in Caller, pc[c] = "search"
  PROVE  /\ clock \in Nat /\ now[c] \in Nat /\ TTL \in Nat \ {0}
         /\ got[c].readAt \in 0..clock /\ got[c].readAt > now[c] - TTL
         /\ force[c] => got[c].readAt >= now[c]
         /\ pid[c] \in Pid /\ At(pid[c], got[c].readAt) \in Layouts
<1>1. /\ clock \in Nat /\ now[c] \in Nat /\ TTL \in Nat \ {0} /\ pid[c] \in Pid
      /\ got[c] \in CP!Entry /\ got[c].readAt <= clock
      /\ got[c].readAt > now[c] - TTL /\ (force[c] => got[c].readAt >= now[c])
  BY ResolutionAssumption DEF ResolutionAssumption, ResolutionInv, CacheInv, CP!Inv, CP!TypeOK,
     CP!InHand, CP!ServedFresh, CP!GotIsPast
<1>2. got[c].readAt \in 0..clock
  BY <1>1 DEF CP!Entry
<1>3. world[pid[c]] \in Seq(Layouts) /\ Len(world[pid[c]]) = clock + 1
  BY <1>1 DEF ResolutionInv, Recorded
<1>4. world[pid[c]][got[c].readAt + 1] \in Layouts
  <2>1. got[c].readAt + 1 \in 1..Len(world[pid[c]])
    BY <1>1, <1>2, <1>3
  <2> QED
    BY <1>3, <2>1, ElementOfSeq
<1> QED
  BY <1>1, <1>2, <1>4 DEF At

\* A pass over the addresses: what it fills in was true when the snapshot was read, and the
\* last pass has read its own.
LEMMA SearchStep ==
  ASSUME ResolutionInv, NEW c \in Caller, Search(c)
  PROVE  Mine(c)
<1> DEFINE s == got[c].readAt
           f == Fill(c)
           Missing == None \in {Fill(c)[i] : i \in 1..Len(asked[c])}
<1> USE DEF ResolutionInv, CacheInv, CP!Inv, CP!TypeOK, Typed
<1>1. /\ pc[c] = "search" /\ op[c] = "resolve" /\ resolved' = [resolved EXCEPT ![c] = f]
      /\ UNCHANGED <<clock, world, asked, expr, began, op, pid, now, got>>
  BY DEF Search, C!NotFound, C!Found, exprVars
<1>2. /\ clock \in Nat /\ now[c] \in Nat /\ s \in 0..clock /\ s > now[c] - TTL
      /\ force[c] => s >= now[c]
  BY <1>1, InSearch
<1>3. \/ /\ Missing /\ force[c]
         /\ answer' = [answer EXCEPT ![c] = "none"] /\ pc' = [pc EXCEPT ![c] = "done"]
         /\ force' = force
      \/ /\ Missing /\ ~force[c]
         /\ force' = [force EXCEPT ![c] = TRUE] /\ pc' = [pc EXCEPT ![c] = "lookup"]
         /\ answer' = answer
      \/ /\ ~Missing
         /\ answer' = [answer EXCEPT ![c] = "regions"] /\ pc' = [pc EXCEPT ![c] = "done"]
         /\ force' = force
  BY DEF Search, C!NotFound, C!Found, C!Return, C!Retry, C!Goto
<1>4. resolved'[c] = f /\ \A d \in Caller : d # c => resolved'[d] = resolved[d]
  BY <1>1
<1> DEFINE FoundAt(i, t) == Find(At(pid[c], t), asked[c][i]) = f[i]
<1>5. ASSUME NEW i \in 1..Len(asked[c])
      PROVE  /\ f[i] # None => \E t \in 0..clock : t > now[c] - TTL /\ FoundAt(i, t)
             /\ f[i] = None => FoundAt(i, s)
  <2>1. f[i] = IF resolved[c][i] # None THEN resolved[c][i] ELSE Find(At(pid[c], s), asked[c][i])
    BY DEF Fill
  <2>2. CASE resolved[c][i] # None
    <3>1. f[i] = resolved[c][i]
      BY <2>1, <2>2
    <3>2. \E t \in 0..clock : t > now[c] - TTL /\ Saw(c, i, t)
      BY <1>1, <2>2 DEF AnswerFits
    <3> QED
      BY <2>2, <3>1, <3>2 DEF Saw
  <2>3. CASE resolved[c][i] = None
    <3>1. FoundAt(i, s)
      BY <2>1, <2>3
    <3> HIDE DEF FoundAt, f
    <3> QED
      BY <1>2, <3>1
  <2> QED
    BY <2>2, <2>3
<1>6. Missing <=> \E i \in 1..Len(asked[c]) : f[i] = None
  OBVIOUS
<1>7. answer[c] # "error"
  BY <1>1 DEF AnswerFits
<1>8. AnswerFits(c)'
  <2>1. answer'[c] # "error"
    BY <1>3, <1>7
  <2>2. ASSUME NEW i \in 1..Len(asked[c])
        PROVE  /\ f[i] # None => \E t \in 0..clock : t > now[c] - TTL /\ FoundAt(i, t)
               /\ pc'[c] = "done" /\ answer'[c] = "none" /\ f[i] = None =>
                    \E t \in now[c]..clock : FoundAt(i, t)
               /\ pc'[c] = "done" /\ answer'[c] = "regions" => f[i] # None
    <3> HIDE DEF f, Missing, FoundAt
    <3>1. pc'[c] = "done" /\ answer'[c] = "none" => force[c]
      BY <1>3
    <3>2. pc'[c] = "done" /\ answer'[c] = "regions" => ~Missing
      BY <1>3
    <3>3. force[c] => s \in now[c]..clock
      BY <1>2
    <3> QED
      BY <1>5, <1>6, <3>1, <3>2, <3>3
  <2>3. asked'[c] = asked[c] /\ now'[c] = now[c] /\ clock' = clock /\ resolved'[c] = f
    BY <1>1, <1>4
  <2>4. \A i, t : Saw(c, i, t)' <=> FoundAt(i, t)
    BY <1>1, <1>4 DEF Saw, At
  <2> HIDE DEF f, FoundAt
  <2> QED
    BY <2>1, <2>2, <2>3, <2>4 DEF AnswerFits
<1>9. StageFits(c)'
  BY <1>1 DEF StageFits, Current, At
<1>10. \A d \in Caller : d # c => Local(d)' = Local(d)
  BY <1>1, <1>3, <1>4 DEF Local
<1>11. Typed'
  BY <1>1
<1> QED
  BY <1>8, <1>9, <1>10, <1>11 DEF Mine

\* The value of an expression is right at the instant its maps were read.
LEMMA ResolveModuleStep ==
  ASSUME ResolutionInv, NEW c \in Caller, ResolveModule(c)
  PROVE  Mine(c)
<1> DEFINE s == got[c].readAt
           layout == At(pid[c], s)
           m == expr[c].module
           sum == ModuleStart(layout, m) + expr[c].offset
           ok == Mapped(layout, m) /\ sum <= MaxAddr
           stage == IF ok THEN "value" ELSE "failed"
           value == IF ok THEN sum ELSE 0
<1> USE DEF ResolutionInv, CacheInv, CP!Inv, CP!TypeOK, Typed
<1>1. /\ pc[c] = "search" /\ expr[c].stage = "module"
      /\ expr' = [expr EXCEPT ![c].stage = stage, ![c].value = value]
      /\ pc' = [pc EXCEPT ![c] = "done"] /\ answer' = [answer EXCEPT ![c] = "regions"]
      /\ UNCHANGED <<clock, world, asked, resolved, began, op, pid, now, got, force>>
  BY DEF ResolveModule, C!Found, C!Return, C!Goto, callVars
<1>2. op[c] = "list" /\ force[c] /\ now[c] = began[c]
  BY <1>1 DEF StageFits
<1>3. s \in began[c]..clock /\ layout \in Layouts
  BY <1>1, <1>2, InSearch
<1>4. expr[c].module \in Modules \cup {Anonymous} /\ expr[c].offset \in 0..1
  BY DEF Expr
<1>5. ok => sum \in Nat
  BY <1>3, <1>4, ModuleStartIsAddress
<1>6. stage \in {"value", "failed"} /\ value \in Nat /\ (stage = "value" => ok /\ value = sum)
  BY <1>5
<1>7. ok => Mapped(layout, m)
  OBVIOUS
<1> HIDE DEF stage, value, ok
<1>8. /\ expr'[c] = [stage |-> stage, module |-> m, offset |-> expr[c].offset, value |-> value]
      /\ \A d \in Caller : d # c => expr'[d] = expr[d]
  BY <1>1 DEF Expr
<1>9. Typed'
  <2>1. expr'[c] \in Expr
    BY <1>4, <1>6, <1>8 DEF Expr
  <2> QED
    BY <1>1, <1>8, <2>1
<1>10. AnswerFits(c)'
  BY <1>1, <1>2 DEF AnswerFits
<1>11. StageFits(c)'
  <2>1. ASSUME NEW t, t = s, stage = "value" PROVE Current(c, t)'
    <3>1. pid'[c] = pid[c] /\ world' = world
      BY <1>1
    <3>2. expr'[c].module = m /\ expr'[c].offset = expr[c].offset /\ expr'[c].value = value
      BY <1>8
    <3>3. Mapped(layout, m) /\ value = ModuleStart(layout, m) + expr[c].offset
      BY <1>6, <1>7, <2>1
    <3>4. world'[pid'[c]][t + 1] = layout
      BY <2>1, <3>1 DEF At
    <3> HIDE DEF layout, m
    <3> QED
      BY <3>2, <3>3, <3>4 DEF Current, At
  <2>2. stage = "value" => \E t \in began[c]..clock : Current(c, t)'
    BY <1>3, <2>1
  <2> QED
    BY <1>1, <1>2, <1>6, <1>8, <2>2 DEF StageFits
<1>12. \A d \in Caller : d # c => Local(d)' = Local(d)
  BY <1>1, <1>8 DEF Local
<1> QED
  BY <1>9, <1>10, <1>11, <1>12 DEF Mine

\* The lookup of the value begins when the value is known.
LEMMA ResolveValueStep ==
  ASSUME ResolutionInv, NEW c \in Caller, ResolveValue(c)
  PROVE  Mine(c)
<1> DEFINE v == expr[c].value
<1> USE DEF ResolutionInv, CacheInv, CP!Inv, CP!TypeOK, Typed
<1>1. /\ asked' = [asked EXCEPT ![c] = <<v>>]
      /\ resolved' = [resolved EXCEPT ![c] = [i \in 1..Len(<<v>>) |-> None]]
      /\ pc' = [pc EXCEPT ![c] = "lookup"] /\ op' = [op EXCEPT ![c] = "resolve"]
      /\ pid' = [pid EXCEPT ![c] = pid[c]] /\ now' = [now EXCEPT ![c] = clock]
      /\ force' = [force EXCEPT ![c] = ("resolve" = "list")] /\ got' = [got EXCEPT ![c] = NoEntry]
      /\ answer' = [answer EXCEPT ![c] = "none"]
      /\ expr[c].stage = "value" /\ expr' = [expr EXCEPT ![c].stage = "region"]
      /\ UNCHANGED <<clock, world, began>>
  BY DEF ResolveValue, C!Call, C!Goto, AskFor
<1>2. /\ expr'[c] = [stage |-> "region", module |-> expr[c].module, offset |-> expr[c].offset,
                     value |-> v]
      /\ \A d \in Caller : d # c => expr'[d] = expr[d]
  BY <1>1 DEF Expr
<1>3. Typed'
  <2>1. expr'[c] \in Expr
    BY <1>2 DEF Expr
  <2> QED
    BY <1>1, <1>2, <2>1
<1>4. AnswerFits(c)'
  <2>1. pc'[c] = "lookup" /\ answer'[c] = "none" /\ asked'[c] = <<v>>
    BY <1>1
  <2>2. resolved'[c] = [i \in 1..Len(<<v>>) |-> None]
    BY <1>1
  <2> QED
    BY <2>1, <2>2 DEF AnswerFits
<1>5. StageFits(c)'
  <2>1. pid'[c] = pid[c]
    BY <1>1
  <2>2. \E t \in began[c]..clock : Current(c, t)
    BY <1>1 DEF StageFits
  <2>3. \A t : Current(c, t) => Current(c, t)'
    BY <1>1, <1>2, <2>1 DEF Current, At
  <2>4. \E t \in began'[c]..clock' : Current(c, t)'
    BY <1>1, <2>2, <2>3
  <2>5. began[c] <= clock
    BY <2>2
  <2> QED
    BY <1>1, <1>2, <2>4, <2>5 DEF StageFits
<1>6. \A d \in Caller : d # c => Local(d)' = Local(d)
  BY <1>1, <1>2 DEF Local
<1> QED
  BY <1>3, <1>4, <1>5, <1>6 DEF Mine

\* Maps that cannot be read give no answer: the call ends "unreadable", or looks again.
LEMMA ReadFailsStep ==
  ASSUME ResolutionInv, NEW c \in Caller, ReadFails(c)
  PROVE  Mine(c)
<1> USE DEF ResolutionInv, CacheInv, CP!Inv, CP!TypeOK, Typed
<1>1. /\ pc[c] = "read"
      /\ expr' = IF expr[c].stage = "module" THEN [expr EXCEPT ![c].stage = "failed"] ELSE expr
      /\ UNCHANGED <<clock, world, asked, resolved, began, op, pid, now, got>>
  BY DEF ReadFails, C!ReadFails, callVars
<1>2. \/ /\ force[c] /\ force' = force /\ pc' = [pc EXCEPT ![c] = "done"]
         /\ answer' = [answer EXCEPT ![c] = IF op[c] = "list" THEN "error" ELSE "unreadable"]
      \/ /\ ~force[c] /\ force' = [force EXCEPT ![c] = TRUE] /\ pc' = [pc EXCEPT ![c] = "lookup"]
         /\ answer' = answer
  BY DEF ReadFails, C!ReadFails, C!Return, C!Retry, C!Goto
<1>3. /\ expr'[c] = [expr[c] EXCEPT !.stage = IF expr[c].stage = "module" THEN "failed"
                                             ELSE expr[c].stage]
      /\ \A d \in Caller : d # c => expr'[d] = expr[d]
  BY <1>1 DEF Expr
<1>4. expr'[c] \in Expr
  BY <1>3 DEF Expr
<1>5. Typed'
  BY <1>1, <1>4
<1>6. AnswerFits(c)'
  BY <1>1, <1>2 DEF AnswerFits, Saw, At
<1>7. StageFits(c)'
  <2>1. expr[c].stage # "module" => expr'[c] = expr[c]
    BY <1>1
  <2>2. expr[c].stage = "module" => expr'[c].stage = "failed"
    BY <1>3 DEF Expr
  <2>3. \A t : expr'[c] = expr[c] /\ Current(c, t) => Current(c, t)'
    BY <1>1 DEF Current, At
  <2>4. expr[c].stage # "value"
    BY <1>1 DEF StageFits
  <2> QED
    BY <1>1, <1>2, <2>1, <2>2, <2>3, <2>4 DEF StageFits
<1>8. \A d \in Caller : d # c => Local(d)' = Local(d)
  BY <1>1, <1>2, <1>3 DEF Local
<1> QED
  BY <1>5, <1>6, <1>7, <1>8 DEF Mine

\* The end of a call leaves at most the value of an expression.
LEMMA DoneStep ==
  ASSUME ResolutionInv, NEW c \in Caller, Done(c)
  PROVE  Mine(c)
<1> USE DEF ResolutionInv, CacheInv, CP!Inv, CP!TypeOK, Typed
<1>1. /\ pc[c] = "done" /\ pc' = [pc EXCEPT ![c] = "idle"] /\ now' = [now EXCEPT ![c] = 0]
      /\ force' = [force EXCEPT ![c] = FALSE] /\ op' = [op EXCEPT ![c] = "list"]
      /\ got' = [got EXCEPT ![c] = NoEntry] /\ answer' = [answer EXCEPT ![c] = "none"]
      /\ asked' = [asked EXCEPT ![c] = <<>>]
      /\ resolved' = [resolved EXCEPT ![c] = [i \in 1..Len(<<>>) |-> None]]
      /\ UNCHANGED <<clock, world, pid>>
  BY DEF Done, C!Done, C!Goto, AskFor
<1>2. IF expr[c].stage = "value" THEN expr' = expr /\ began' = began
      ELSE expr' = [expr EXCEPT ![c] = NoExpr] /\ began' = [began EXCEPT ![c] = 0]
  BY DEF Done, exprVars
<1>3. Typed'
  <2>1. NoExpr \in Expr
    BY DEF NoExpr, Expr
  <2>2. expr' \in [Caller -> Expr] /\ began' \in [Caller -> Nat]
    BY <1>2, <2>1
  <2> QED
    BY <1>1, <2>2
<1>4. AnswerFits(c)'
  BY <1>1 DEF AnswerFits
<1>5. StageFits(c)'
  <2>1. CASE expr[c].stage = "value"
    <3>1. expr' = expr /\ began' = began
      BY <1>2, <2>1
    <3>2. \A t : Current(c, t) => Current(c, t)'
      BY <1>1, <3>1 DEF Current, At
    <3> QED
      BY <1>1, <2>1, <3>1, <3>2 DEF StageFits
  <2>2. CASE expr[c].stage # "value"
    <3>1. expr'[c] = NoExpr
      BY <1>2, <2>2
    <3> QED
      BY <3>1 DEF StageFits, NoExpr
  <2> QED
    BY <2>1, <2>2
<1>6. \A d \in Caller : d # c => Local(d)' = Local(d)
  BY <1>1, <1>2 DEF Local
<1> QED
  BY <1>3, <1>4, <1>5, <1>6 DEF Mine

-----------------------------------------------------------------------------
(* The invariant holds                                                     *)

LEMMA InitResolution == Init => ResolutionInv
<1> SUFFICES ASSUME Init PROVE ResolutionInv
  OBVIOUS
<1>1. CacheInv
  BY InitCache, CP!InitInv, CP!InitGotIsPast, ResolutionAssumption
  DEF ResolutionAssumption, CacheInv, CP!Inv
<1>2. Typed
  BY DEF Init, Typed, Expr, NoExpr
<1>3. ASSUME NEW c \in Caller PROVE AnswerFits(c) /\ StageFits(c)
  <2>1. op[c] = "list" /\ expr[c] = NoExpr
    BY DEF Init, C!Init
  <2> QED
    BY <2>1 DEF AnswerFits, StageFits, NoExpr
<1> QED
  BY <1>1, <1>2, <1>3, InitRecorded DEF ResolutionInv

\* One caller's step leaves the others where they are, and time leaves all of them.
LEMMA NextResolution == ResolutionInv /\ [Next]_vars => ResolutionInv'
<1> SUFFICES ASSUME ResolutionInv, [Next]_vars PROVE ResolutionInv'
  OBVIOUS
<1>1. CP!TypeOK /\ Recorded /\ CacheInv
  BY DEF ResolutionInv, CacheInv, CP!Inv
<1>2. CacheInv'
  <2>1. [CP!Next]_(CP!vars)
    BY <1>1, NextCache
  <2> QED
    BY <1>1, <2>1, CP!NextInv, CP!NextGotIsPast, ResolutionAssumption
    DEF ResolutionAssumption, CacheInv
<1>3. Recorded'
  BY <1>1, PastStays
<1>4. \/ \E c \in Caller : Mine(c)
      \/ Typed' /\ \A c \in Caller : Local(c)' = Local(c)
  <2>1. CASE Tick
    BY <2>1 DEF Tick, C!Tick, C!callVars, callVars, exprVars, Local, ResolutionInv, Typed
  <2>2. ASSUME NEW c \in Caller, Step(c) PROVE Mine(c)
    BY <2>2, RefreshStep, SearchStep, ResolveModuleStep, ResolveValueStep, ReadFailsStep, DoneStep
    DEF Step
  <2>3. ASSUME NEW c \in Caller, NEW p \in Pid, NEW addrs \in Questions, ResolveMany(c, p, addrs)
        PROVE  Mine(c)
    BY <2>3, ResolveManyStep
  <2>4. ASSUME NEW c \in Caller, NEW p \in Pid, NEW m \in Modules, NEW off \in 0..1,
               Expression(c, p, m, off)
        PROVE  Mine(c)
    BY <2>4, ExpressionStep
  <2>5. CASE UNCHANGED vars
    BY <2>5 DEF vars, C!vars, C!callVars, callVars, exprVars, Local, ResolutionInv, Typed
  <2> QED
    BY <2>1, <2>2, <2>3, <2>4, <2>5 DEF Next
<1>5. Typed'
  BY <1>4 DEF Mine
<1>6. ASSUME NEW d \in Caller PROVE AnswerFits(d)' /\ StageFits(d)'
  BY <1>4, LocalStays DEF Mine
<1> QED
  BY <1>2, <1>3, <1>5, <1>6 DEF ResolutionInv

LEMMA ResolutionInvariant == Spec => []ResolutionInv
BY InitResolution, NextResolution, PTL DEF Spec

(* The calls that resolve addresses and expressions are calls of the cache, alone and in
   pairs, and nothing else touches it: every step is one of MapsCache.tla, or leaves the
   cache and its callers alone, also where the mappings change (maps.rs:73-137). *)
THEOREM ResolutionRunsCache == Spec => CP!Init /\ [][CP!Next]_(CP!vars)
<1>1. ResolutionInv => CP!TypeOK
  BY DEF ResolutionInv, CacheInv, CP!Inv
<1> QED
  BY <1>1, InitCache, NextCache, ResolutionInvariant, PTL DEF Spec

(* What MapsCache.tla promises holds of the cache that resolution uses: entries are dated
   with the instant of the call that read them or earlier, nobody is served a stale one, and
   "no such region" is an answer of maps read during the call (maps.rs:65-94, 159-210). *)
THEOREM ResolutionKeepsCachePromises ==
  Spec => [](C!EntriesHonest /\ C!ServedFresh /\ C!MissIsFresh)
<1>1. ResolutionInv => C!EntriesHonest /\ C!ServedFresh /\ C!MissIsFresh
  BY DEF ResolutionInv, CacheInv, CP!Inv, C!EntriesHonest, C!ServedFresh, C!MissIsFresh,
         CP!EntriesHonest, CP!ServedFresh, CP!MissIsFresh
<1> QED
  BY <1>1, ResolutionInvariant, PTL

-----------------------------------------------------------------------------
(* What an answer is worth                                                 *)

LEMMA AnswersTrue == ResolutionInv => AnswersWereTrue
<1> SUFFICES ASSUME ResolutionInv, NEW c \in Caller, pc[c] = "done", op[c] = "resolve",
                    NEW i \in 1..Len(asked[c])
             PROVE  IF resolved[c][i] # None
                    THEN \E t \in 0..clock : t > now[c] - TTL /\ Saw(c, i, t)
                    ELSE answer[c] = "unreadable" \/ \E t \in now[c]..clock : Saw(c, i, t)
  BY DEF AnswersWereTrue, Saw
<1>1. AnswerFits(c)
  BY DEF ResolutionInv
<1>2. answer[c] \in {"none", "regions", "unreadable"}
  BY <1>1 DEF AnswerFits, ResolutionInv, CacheInv, CP!Inv, CP!TypeOK
<1> QED
  BY <1>1, <1>2 DEF AnswerFits

(* Whatever the mappings do and whoever refreshes the cache, an address of a hit is shown
   where it was less than a TTL before the call or during it, and shown bare only if it was
   in no mapping at an instant of the call, or the maps could not be read
   (maps.rs:73-94, 159-237). *)
THEOREM AnswersWereAlwaysTrue == Spec => []AnswersWereTrue
BY ResolutionInvariant, AnswersTrue, PTL

LEMMA ExpressionsCurrent == ResolutionInv => ExpressionIsCurrent
BY DEF ResolutionInv, StageFits, Current, ExpressionIsCurrent

(* module+offset is always counted from where the module begins at an instant of the
   request, although other callers fill the cache from older reads (maps.rs:114-136). *)
THEOREM ExpressionsAreCurrent == Spec => []ExpressionIsCurrent
BY ResolutionInvariant, ExpressionsCurrent, PTL

\* In the layout of a process an address just past the start of a module's first region is
\* found in that region.
LEMMA FirstRegionIsFound ==
  ASSUME NEW l \in Layouts, NEW m, Mapped(l, m), NEW off \in Nat,
         off < l[First(Of(l, m))].end - l[First(Of(l, m))].start
  PROVE  Find(l, ModuleStart(l, m) + off) = l[First(Of(l, m))]
<1> DEFINE k == First(Of(l, m))
           a == ModuleStart(l, m) + off
           S == {i \in 1..Len(l) : Holds(l[i], a)}
<1>1. IsLayout(l)
  BY ResolutionAssumption DEF ResolutionAssumption
<1>2. Len(l) \in Nat
  BY <1>1, LenProperties DEF IsLayout
<1>3. k \in 1..Len(l)
  BY ModuleStartIsAddress
<1>4. \A i \in 1..Len(l) : l[i].start \in Nat /\ l[i].end \in Nat
  BY <1>1 DEF IsLayout
<1>5. a \in Nat /\ l[k].start <= a /\ a < l[k].end
  BY <1>3, <1>4 DEF ModuleStart
<1>6. k \in S
  BY <1>3, <1>5 DEF Holds
<1>7. First(S) \in S /\ First(S) <= k
  <2>1. S \in SUBSET Nat /\ S # {}
    BY <1>2, <1>6
  <2> HIDE DEF S, k
  <2> QED
    BY <1>6, <2>1, FirstProperties
<1>8. ASSUME NEW r \in S, r < k PROVE FALSE
  <2>1. r \in 1..k - 1
    BY <1>2, <1>3, <1>8
  <2>2. l[r].end <= l[k].start
    BY <1>1, <1>3, <2>1 DEF IsLayout
  <2>3. a < l[r].end
    BY DEF Holds
  <2> QED
    BY <1>3, <1>4, <1>5, <2>1, <2>2, <2>3
<1>9. First(S) = k
  BY <1>2, <1>3, <1>7, <1>8
<1> QED
  BY <1>6, <1>9 DEF Find

LEMMA StillExpressions == ResolutionInv => StillExpressionIsConsistent
<1> SUFFICES ASSUME ResolutionInv, NEW c \in Caller,
                    pc[c] = "done", expr[c].stage = "region", answer[c] = "regions",
                    \A t \in 0..clock : t > began[c] - TTL => At(pid[c], t) = At(pid[c], clock),
                    expr[c].offset
                      < At(pid[c], clock)[First(Of(At(pid[c], clock), expr[c].module))].end
                        - At(pid[c], clock)[First(Of(At(pid[c], clock), expr[c].module))].start
             PROVE  resolved[c][1].module = expr[c].module
  BY DEF StillExpressionIsConsistent
<1> DEFINE layout == At(pid[c], clock)
           m == expr[c].module
           v == expr[c].value
<1>1. /\ clock \in Nat /\ now[c] \in Nat /\ began[c] \in Nat /\ TTL \in Nat \ {0}
      /\ pid[c] \in Pid /\ expr[c].offset \in 0..1
  BY ResolutionAssumption
  DEF ResolutionAssumption, ResolutionInv, CacheInv, CP!Inv, CP!TypeOK, Typed, Expr
<1>2. layout \in Layouts
  <2>1. world[pid[c]] \in Seq(Layouts) /\ Len(world[pid[c]]) = clock + 1
    BY <1>1 DEF ResolutionInv, Recorded
  <2>2. clock + 1 \in 1..Len(world[pid[c]])
    BY <1>1, <2>1
  <2> QED
    BY <2>1, <2>2, ElementOfSeq DEF At
<1>3. op[c] = "resolve" /\ asked[c] = <<v>> /\ began[c] <= now[c]
  BY DEF ResolutionInv, StageFits
<1>4. Mapped(layout, m) /\ v = ModuleStart(layout, m) + expr[c].offset
  <2>1. PICK t \in began[c]..clock : Current(c, t)
    BY DEF ResolutionInv, StageFits
  <2>2. At(pid[c], t) = layout
    BY <1>1
  <2> QED
    BY <2>1, <2>2 DEF Current
<1>5. resolved[c][1] = Find(layout, v)
  <2>1. 1 \in 1..Len(asked[c]) /\ asked[c][1] = v
    BY <1>3
  <2>2. resolved[c][1] # None
    BY <1>3, <2>1 DEF ResolutionInv, AnswerFits
  <2>3. PICK t \in 0..clock : t > now[c] - TTL /\ Saw(c, 1, t)
    BY <1>3, <2>1, <2>2 DEF ResolutionInv, AnswerFits
  <2>4. At(pid[c], t) = layout
    BY <1>1, <1>3, <2>3
  <2> QED
    BY <2>1, <2>3, <2>4 DEF Saw
<1>6. Find(layout, v) = layout[First(Of(layout, m))]
  BY <1>1, <1>2, <1>4, FirstRegionIsFound
<1> QED
  BY <1>2, <1>4, <1>5, <1>6, ModuleStartIsAddress

(* If the mappings stood still for a TTL before the request and during it, the region shown
   with module+offset is the module's own: the two lookups of a request may be served from
   different reads, and the answer still belongs together (maps.rs:96-112). *)
THEOREM StillExpressionsAreConsistent == Spec => []StillExpressionIsConsistent
BY ResolutionInvariant, StillExpressions, PTL

-----------------------------------------------------------------------------
(* Numbers in the texts a user writes                                      *)

\* The digits of a number.
Unsigned(s) == IF Len(s) > 1 /\ s[1] = "+" THEN Tail(s) ELSE s

\* The one way to write the worth of the first n digits.
WorthTo(g, d, radix, n) ==
  g = [i \in 0..n |-> IF i = 0 THEN 0 ELSE radix * g[i - 1] + Digit(d[i])]

LEMMA WorthExists ==
  ASSUME NEW d \in Seq(HexDigit), NEW radix \in {10, 16}
  PROVE  \A n \in Nat : \E g : WorthTo(g, d, radix, n)
<1> DEFINE S == {n \in Nat : ~\E g : WorthTo(g, d, radix, n)}
<1> SUFFICES ASSUME S # {} PROVE FALSE
  OBVIOUS
<1>1. PICK m \in S : \A k \in S : m <= k
  BY SmallestExists
<1>2. m \in Nat /\ ~\E g : WorthTo(g, d, radix, m)
  OBVIOUS
<1>3. CASE m = 0
  <2> DEFINE h == [i \in 0..0 |-> 0]
  <2>1. WorthTo(h, d, radix, 0)
    BY DEF WorthTo
  <2> QED
    BY <1>2, <1>3, <2>1
<1>4. CASE m # 0
  <2>1. m - 1 \in Nat /\ m - 1 \notin S
    BY <1>1, <1>2, <1>4
  <2>2. PICK g : WorthTo(g, d, radix, m - 1)
    BY <2>1
  <2>3. ASSUME NEW i \in 0..m - 1
        PROVE  g[i] = IF i = 0 THEN 0 ELSE radix * g[i - 1] + Digit(d[i])
    BY <2>2 DEF WorthTo
  <2> DEFINE h == [i \in 0..m |-> IF i = m THEN radix * g[m - 1] + Digit(d[m]) ELSE g[i]]
  <2>4. \A i \in 0..m - 1 : h[i] = g[i]
    BY <1>2
  <2>5. h[m] = radix * g[m - 1] + Digit(d[m])
    BY <1>2
  <2>6. h = [i \in 0..m |-> h[i]]
    OBVIOUS
  <2> HIDE DEF h
  <2>7. ASSUME NEW i \in 0..m
        PROVE  h[i] = IF i = 0 THEN 0 ELSE radix * h[i - 1] + Digit(d[i])
    <3>1. CASE i = m
      <4>1. m - 1 \in 0..m - 1
        BY <2>1
      <4>2. h[i - 1] = g[m - 1]
        BY <2>4, <3>1, <4>1
      <4> QED
        BY <1>4, <2>5, <3>1, <4>2
    <3>2. CASE i # m
      <4>1. i \in 0..m - 1 /\ (i # 0 => i - 1 \in 0..m - 1)
        BY <1>2, <3>2
      <4>2. g[i] = IF i = 0 THEN 0 ELSE radix * g[i - 1] + Digit(d[i])
        BY <2>3, <4>1
      <4> QED
        BY <2>4, <4>1, <4>2
    <3> QED
      BY <3>1, <3>2
  <2>8. WorthTo(h, d, radix, m)
    BY <2>6, <2>7 DEF WorthTo
  <2> QED
    BY <1>2, <2>8
<1> QED
  BY <1>3, <1>4

LEMMA DigitIs == \A c \in HexDigit : Digit(c) \in 0..15 /\ (Digit(c) < 10 => c # "a")
BY DEF HexDigit, Digit

\* What the digits are worth, one after the other.
LEMMA WorthIs ==
  ASSUME NEW d \in Seq(HexDigit), NEW radix \in {10, 16}
  PROVE  /\ Worth(d, radix)[0] = 0
         /\ \A i \in 1..Len(d) :
              Worth(d, radix)[i] = radix * Worth(d, radix)[i - 1] + Digit(d[i])
<1> DEFINE w == Worth(d, radix)
<1>1. w = CHOOSE g : WorthTo(g, d, radix, Len(d))
  BY DEF Worth, WorthTo
<1>2. WorthTo(w, d, radix, Len(d))
  <2>1. \E g : WorthTo(g, d, radix, Len(d))
    BY WorthExists
  <2> QED
    BY <1>1, <2>1
<1> HIDE DEF w
<1>3. \A i \in 0..Len(d) : w[i] = IF i = 0 THEN 0 ELSE radix * w[i - 1] + Digit(d[i])
  BY <1>2 DEF WorthTo
<1>4. w[0] = 0 /\ \A i \in 1..Len(d) : w[i] = radix * w[i - 1] + Digit(d[i])
  BY <1>3
<1> QED
  BY <1>4 DEF w

LEMMA WorthIsNat ==
  ASSUME NEW d \in Seq(HexDigit), NEW radix \in {10, 16}
  PROVE  \A i \in 0..Len(d) : Worth(d, radix)[i] \in Nat
<1> DEFINE w == Worth(d, radix)
           S == {i \in 0..Len(d) : w[i] \notin Nat}
<1> SUFFICES ASSUME S # {} PROVE FALSE
  OBVIOUS
<1>1. PICK m \in S : \A k \in S : m <= k
  <2>1. S \in SUBSET Nat
    OBVIOUS
  <2> HIDE DEF S
  <2> QED
    BY <2>1, SmallestExists
<1>2. m \in 0..Len(d) /\ w[m] \notin Nat
  OBVIOUS
<1>3. m # 0
  BY <1>2, WorthIs
<1>4. w[m - 1] \in Nat
  BY <1>1, <1>2, <1>3
<1>5. w[m] = radix * w[m - 1] + Digit(d[m])
  BY <1>2, <1>3, WorthIs
<1>6. Digit(d[m]) \in Nat
  BY <1>2, <1>3, DigitIs
<1>7. radix * w[m - 1] \in Nat
  BY <1>4
<1> QED
  BY <1>2, <1>5, <1>6, <1>7

\* Digits below 10 are worth more in hexadecimal than in decimal, but for a single one.
LEMMA HexAndDecimal ==
  ASSUME NEW d \in Seq(HexDigit), \A i \in 1..Len(d) : Digit(d[i]) < 10, NEW n \in 0..Len(d)
  PROVE  Worth(d, 16)[n] = Worth(d, 10)[n] <=> Worth(d, 10)[n] < 10
<1> DEFINE h == Worth(d, 16)
           t == Worth(d, 10)
           Good(i) == IF t[i] < 10 THEN h[i] = t[i] ELSE h[i] > t[i]
           S == {i \in 0..Len(d) : ~Good(i)}
<1>1. /\ h[0] = 0 /\ \A i \in 1..Len(d) : h[i] = 16 * h[i - 1] + Digit(d[i])
      /\ t[0] = 0 /\ \A i \in 1..Len(d) : t[i] = 10 * t[i - 1] + Digit(d[i])
  BY WorthIs
<1>2. \A i \in 0..Len(d) : h[i] \in Nat /\ t[i] \in Nat
  BY WorthIsNat
<1> HIDE DEF h, t
<1>3. S = {}
  <2> SUFFICES ASSUME S # {} PROVE FALSE
    OBVIOUS
  <2>1. PICK m \in S : \A k \in S : m <= k
    <3>1. S \in SUBSET Nat
      OBVIOUS
    <3> HIDE DEF S
    <3> QED
      BY <3>1, SmallestExists
  <2>2. m \in 0..Len(d) /\ ~Good(m)
    OBVIOUS
  <2>3. m # 0
    BY <1>1, <2>2
  <2>4. Good(m - 1) /\ m - 1 \in 0..Len(d) /\ m \in 1..Len(d)
    BY <2>1, <2>2, <2>3
  <2>5. Digit(d[m]) \in 0..9
    <3>1. d[m] \in HexDigit /\ Digit(d[m]) < 10
      BY <2>4
    <3>2. Digit(d[m]) \in 0..15
      BY <3>1, DigitIs
    <3> QED
      BY <3>1, <3>2
  <2>6. h[m] = 16 * h[m - 1] + Digit(d[m]) /\ t[m] = 10 * t[m - 1] + Digit(d[m])
    BY <1>1, <2>4
  <2>7. h[m - 1] \in Nat /\ t[m - 1] \in Nat
    BY <1>2, <2>4
  <2>8. CASE t[m - 1] = 0
    BY <2>2, <2>4, <2>5, <2>6, <2>7, <2>8
  <2>9. CASE t[m - 1] # 0
    <3>1. h[m - 1] >= t[m - 1] /\ t[m - 1] >= 1
      BY <2>4, <2>7, <2>9
    <3>2. ASSUME NEW a \in Nat, NEW b \in Nat, NEW c \in 0..9, a >= b, b >= 1
          PROVE  16 * a + c > 10 * b + c /\ ~(10 * b + c < 10)
      BY <3>2
    <3>3. h[m] > t[m] /\ ~(t[m] < 10)
      BY <2>5, <2>6, <2>7, <3>1, <3>2, Zenon
    <3> QED
      BY <2>2, <3>3
  <2> QED
    BY <2>8, <2>9
<1>4. Good(n)
  BY <1>3
<1>5. h[n] = t[n] <=> t[n] < 10
  BY <1>2, <1>4
<1> QED
  BY <1>5 DEF h, t

\* What a text that is a number is made of.
LEMMA NumberIs ==
  ASSUME NEW s \in Seq(Letter), NEW radix \in {10, 16}, FromStrRadix(s, radix).ok
  PROVE  /\ Unsigned(s) \in Seq(HexDigit) /\ Unsigned(s) # <<>>
         /\ \A i \in 1..Len(Unsigned(s)) : Digit(Unsigned(s)[i]) < radix
         /\ FromStrRadix(s, radix) = Val(Worth(Unsigned(s), radix)[Len(Unsigned(s))])
         /\ ~(Worth(Unsigned(s), radix)[Len(Unsigned(s))] >= WordLimit)
<1>1. Unsigned(s) \in Seq(Letter)
  BY DEF Unsigned
<1> DEFINE d == Unsigned(s)
<1>2. FromStrRadix(s, radix) =
        IF \/ d = <<>>
           \/ \E i \in 1..Len(d) : d[i] \notin HexDigit \/ Digit(d[i]) >= radix
           \/ Worth(d, radix)[Len(d)] >= WordLimit
        THEN NoValue ELSE Val(Worth(d, radix)[Len(d)])
  BY DEF FromStrRadix, Unsigned
<1> HIDE DEF d
<1>3. ~NoValue.ok
  BY DEF NoValue
<1>4. /\ d # <<>>
      /\ \A i \in 1..Len(d) : ~(d[i] \notin HexDigit \/ Digit(d[i]) >= radix)
      /\ ~(Worth(d, radix)[Len(d)] >= WordLimit)
      /\ FromStrRadix(s, radix) = Val(Worth(d, radix)[Len(d)])
  BY <1>2, <1>3
<1>5. \A i \in 1..Len(d) : d[i] \in HexDigit /\ Digit(d[i]) < radix
  BY <1>4, DigitIs
<1>6. d \in Seq(HexDigit)
  BY <1>1, <1>5 DEF d
<1> QED
  BY <1>4, <1>5, <1>6 DEF d

LEMMA NumberTyped ==
  ASSUME NEW s \in Seq(Letter), NEW radix \in {10, 16}
  PROVE  FromStrRadix(s, radix) \in Number
<1>1. CASE FromStrRadix(s, radix).ok
  <2> DEFINE n == Worth(Unsigned(s), radix)[Len(Unsigned(s))]
  <2>1. n \in Nat /\ ~(n >= WordLimit) /\ FromStrRadix(s, radix) = Val(n)
    <3>1. Len(Unsigned(s)) \in 0..Len(Unsigned(s))
      BY <1>1, NumberIs
    <3> QED
      BY <1>1, <3>1, NumberIs, WorthIsNat
  <2> HIDE DEF n
  <2>2. n \in 0..WordLimit - 1
    BY <2>1, ArgumentAssumption
  <2> QED
    BY <2>1, <2>2 DEF Number
<1>2. CASE ~FromStrRadix(s, radix).ok
  <2>1. FromStrRadix(s, radix) = NoValue
    BY <1>2 DEF FromStrRadix, Val
  <2> QED
    BY <2>1 DEF Number
<1> QED
  BY <1>1, <1>2

-----------------------------------------------------------------------------
(* Blanks and prefixes                                                     *)

LEMMA Extremes ==
  ASSUME NEW n \in Nat, NEW S \in SUBSET (1..n), S # {}
  PROVE  /\ Min(S) \in S /\ Max(S) \in S
         /\ \A x \in S : Min(S) <= x /\ x <= Max(S)
<1>1. \E x \in S : \A y \in S : x <= y
  BY SmallestExists
<1>2. \E x \in S : \A y \in S : x >= y
  <2> DEFINE T == {n - x : x \in S}
  <2>1. T \in SUBSET Nat /\ T # {}
    <3>1. \A x \in S : n - x \in Nat
      OBVIOUS
    <3>2. PICK x \in S : TRUE
      OBVIOUS
    <3>3. n - x \in T
      BY <3>2
    <3> QED
      BY <3>1, <3>3
  <2>2. PICK t \in T : \A u \in T : t <= u
    <3> HIDE DEF T
    <3> QED
      BY <2>1, SmallestExists
  <2>3. PICK x \in S : t = n - x
    OBVIOUS
  <2>4. ASSUME NEW y \in S PROVE x >= y
    <3>1. n - x <= n - y
      BY <2>2, <2>3
    <3> QED
      BY <3>1
  <2> QED
    BY <2>4
<1>3. Min(S) \in S /\ \A y \in S : Min(S) <= y
  BY <1>1 DEF Min
<1>4. Max(S) \in S /\ \A y \in S : Max(S) >= y
  BY <1>2 DEF Max
<1> QED
  BY <1>3, <1>4

\* The positions of a text without a blank.
Solid(s) == {i \in 1..Len(s) : ~Blank(s, i)}

LEMMA TrimIs ==
  ASSUME NEW s \in Seq(Letter)
  PROVE  Trim(s) = IF Solid(s) = {} THEN <<>> ELSE SubSeq(s, Min(Solid(s)), Max(Solid(s)))
BY DEF Trim, Solid

LEMMA SolidBounds ==
  ASSUME NEW s \in Seq(Letter), Solid(s) # {}
  PROVE  /\ Min(Solid(s)) \in 1..Len(s) /\ Max(Solid(s)) \in 1..Len(s)
         /\ Min(Solid(s)) \in Solid(s) /\ Max(Solid(s)) \in Solid(s)
         /\ Min(Solid(s)) <= Max(Solid(s))
         /\ \A x \in Solid(s) : Min(Solid(s)) <= x /\ x <= Max(Solid(s))
<1>1. Len(s) \in Nat /\ Solid(s) \in SUBSET (1..Len(s))
  BY DEF Solid
<1>2. /\ Min(Solid(s)) \in Solid(s) /\ Max(Solid(s)) \in Solid(s)
      /\ \A x \in Solid(s) : Min(Solid(s)) <= x /\ x <= Max(Solid(s))
  BY <1>1, Extremes
<1> QED
  BY <1>1, <1>2

LEMMA TrimShortens ==
  ASSUME NEW s \in Seq(Letter)
  PROVE  Trim(s) \in Seq(Letter) /\ Len(Trim(s)) <= Len(s)
<1>1. CASE Solid(s) = {}
  <2>1. Trim(s) = <<>>
    BY <1>1, TrimIs
  <2> QED
    BY <2>1
<1>2. CASE Solid(s) # {}
  <2> DEFINE a == Min(Solid(s))
             b == Max(Solid(s))
  <2>1. a \in 1..Len(s) /\ b \in 1..Len(s) /\ a <= b
    BY <1>2, SolidBounds
  <2>2. Trim(s) = SubSeq(s, a, b)
    BY <1>2, TrimIs
  <2> HIDE DEF a, b
  <2> QED
    BY <2>1, <2>2
<1> QED
  BY <1>1, <1>2

\* Nothing is taken from a text without white space around it, and from no other.
LEMMA TrimKeeps ==
  ASSUME NEW s \in Seq(Letter), s # <<>>
  PROVE  Trim(s) = s <=> s[1] # " " /\ s[Len(s)] # " "
<1> DEFINE a == Min(Solid(s))
           b == Max(Solid(s))
<1>0. Len(s) \in Nat /\ Len(s) >= 1
  OBVIOUS
<1>1. ASSUME s[1] # " ", s[Len(s)] # " " PROVE Trim(s) = s
  <2>1. 1 \in Solid(s) /\ Len(s) \in Solid(s)
    <3>1. 1 \in 1..Len(s) /\ Len(s) \in 1..Len(s)
      BY <1>0
    <3>2. ~Blank(s, 1) /\ ~Blank(s, Len(s))
      BY <1>1 DEF Blank
    <3> QED
      BY <3>1, <3>2 DEF Solid
  <2>2. a = 1 /\ b = Len(s)
    <3>1. Solid(s) # {}
      BY <2>1
    <3>2. a \in 1..Len(s) /\ b \in 1..Len(s) /\ a <= 1 /\ Len(s) <= b
      BY <2>1, <3>1, SolidBounds
    <3> HIDE DEF a, b
    <3> QED
      BY <3>2
  <2>3. Trim(s) = SubSeq(s, 1, Len(s))
    BY <2>1, <2>2, TrimIs
  <2> QED
    BY <2>3
<1>2. ASSUME Trim(s) = s PROVE s[1] # " " /\ s[Len(s)] # " "
  <2>1. Solid(s) # {}
    BY <1>2, TrimIs
  <2>2. a \in 1..Len(s) /\ b \in 1..Len(s) /\ a <= b /\ a \in Solid(s) /\ b \in Solid(s)
    BY <2>1, SolidBounds
  <2>3. s = SubSeq(s, a, b)
    BY <1>2, <2>1, TrimIs
  <2>4. ~Blank(s, a) /\ ~Blank(s, b)
    BY <2>2 DEF Solid
  <2> HIDE DEF a, b
  <2>5. Len(s) = b - a + 1
    BY <2>2, <2>3
  <2>6. a = 1 /\ b = Len(s)
    BY <1>0, <2>2, <2>5
  <2> QED
    BY <2>4, <2>6 DEF Blank
<1> QED
  BY <1>1, <1>2

LEMMA Starts ==
  ASSUME NEW s \in Seq(Letter), NEW b, NEW c
  PROVE  /\ HasPrefix(s, <<b>>) <=> Len(s) >= 1 /\ s[1] = b
         /\ HasPrefix(s, <<b, c>>) <=> Len(s) >= 2 /\ s[1] = b /\ s[2] = c
<1>1. HasPrefix(s, <<b>>) <=> Len(s) >= 1 /\ s[1] = b
  <2>1. ASSUME Len(s) >= 1 PROVE SubSeq(s, 1, 1) = <<b>> <=> s[1] = b
    <3> DEFINE p == SubSeq(s, 1, 1)
    <3>1. p \in Seq(Letter) /\ Len(p) = 1 /\ p[1] = s[1]
      BY <2>1
    <3> HIDE DEF p
    <3>2. p = <<p[1]>>
      BY <3>1
    <3>3. p = <<b>> <=> p[1] = b
      BY <3>2
    <3> QED
      BY <3>1, <3>3 DEF p
  <2>2. Len(<<b>>) = 1
    OBVIOUS
  <2> QED
    BY <2>1, <2>2 DEF HasPrefix
<1>2. HasPrefix(s, <<b, c>>) <=> Len(s) >= 2 /\ s[1] = b /\ s[2] = c
  <2>1. ASSUME Len(s) >= 2 PROVE SubSeq(s, 1, 2) = <<b, c>> <=> s[1] = b /\ s[2] = c
    <3> DEFINE p == SubSeq(s, 1, 2)
    <3>1. p \in Seq(Letter) /\ Len(p) = 2 /\ p[1] = s[1] /\ p[2] = s[2]
      BY <2>1
    <3> HIDE DEF p
    <3>2. p = <<p[1], p[2]>>
      BY <3>1
    <3>3. p = <<b, c>> <=> p[1] = b /\ p[2] = c
      BY <3>2
    <3> QED
      BY <3>1, <3>3 DEF p
  <2>2. Len(<<b, c>>) = 2
    OBVIOUS
  <2> QED
    BY <2>1, <2>2 DEF HasPrefix
<1> QED
  BY <1>1, <1>2

LEMMA PrefixIs ==
  ASSUME NEW s \in Seq(Letter)
  PROVE  /\ Prefix0x(s) <=> Len(s) >= 2 /\ s[1] = "0" /\ s[2] = "x"
         /\ Prefix0X(s) <=> Len(s) >= 2 /\ s[1] = "0" /\ s[2] = "X"
BY Starts DEF Prefix0x, Prefix0X

LEMMA DropIs ==
  ASSUME NEW s \in Seq(Letter), NEW n \in Nat, n <= Len(s)
  PROVE  /\ Drop(s, n) \in Seq(Letter) /\ Len(Drop(s, n)) = Len(s) - n
         /\ \A i \in 1..Len(s) - n : Drop(s, n)[i] = s[i + n]
BY DEF Drop

\* Only the sign of a number is no digit.
LEMMA NumberLetters ==
  ASSUME NEW s \in Seq(Letter), NEW radix \in {10, 16}, FromStrRadix(s, radix).ok
  PROVE  /\ s # <<>>
         /\ \A i \in 1..Len(s) : s[i] \in HexDigit \/ (i = 1 /\ Len(s) > 1 /\ s[1] = "+")
<1>1. Unsigned(s) \in Seq(HexDigit) /\ Unsigned(s) # <<>>
  BY NumberIs
<1>2. CASE Len(s) > 1 /\ s[1] = "+"
  <2>1. Unsigned(s) = Tail(s)
    BY <1>2 DEF Unsigned
  <2>2. ASSUME NEW i \in 1..Len(s), i # 1 PROVE s[i] \in HexDigit
    <3>1. i - 1 \in 1..Len(Tail(s)) /\ s[i] = Tail(s)[i - 1]
      BY <1>2, <2>2
    <3> QED
      BY <1>1, <2>1, <3>1
  <2> QED
    BY <1>2, <2>2
<1>3. CASE ~(Len(s) > 1 /\ s[1] = "+")
  <2>1. Unsigned(s) = s
    BY <1>3 DEF Unsigned
  <2> QED
    BY <1>1, <2>1
<1> QED
  BY <1>2, <1>3

-----------------------------------------------------------------------------
(* The parsers of numbers agree                                            *)

LEMMA ParsersAre ==
  ASSUME NEW s \in Seq(Letter), s # <<>>
  PROVE  /\ ParseAddr(s) = IF Prefix0x(s) THEN FromStrRadix(Drop(s, 2), 16)
                           ELSE FromStrRadix(s, 16)
         /\ ParseNumericAddr(s) =
              IF Prefix0x(s) \/ Prefix0X(s) THEN FromStrRadix(Drop(s, 2), 16)
              ELSE IF \A i \in 1..Len(s) : s[i] \in HexDigit THEN FromStrRadix(s, 16)
              ELSE NoValue
         /\ ParseValue(s) = IF Prefix0x(s) \/ Prefix0X(s) THEN FromStrRadix(Drop(s, 2), 16)
                            ELSE FromStrRadix(s, 10)
BY DEF ParseAddr, ParseNumericAddr, ParseValue

LEMMA HexIs == " " \notin HexDigit /\ "x" \notin HexDigit /\ "X" \notin HexDigit
               /\ "+" \notin HexDigit /\ HexDigit \subseteq Letter
               /\ "0" \in Letter /\ "x" \in Letter /\ "+" \in Letter
BY DEF HexDigit, Letter

LEMMA SameText ==
  ASSUME NEW s \in Seq(Letter), ParseAddr(s).ok
  PROVE  \/ Numeric(s) = ParseAddr(s)
         \/ s[1] = "+" /\ ~Numeric(s).ok /\ ~ResolveExpression(s).ok
<1>0. ~NoValue.ok /\ ~NoModule.ok
  BY DEF NoValue, NoModule
<1>1. CASE Prefix0x(s)
  <2> DEFINE r == Drop(s, 2)
  <2>1. Len(s) \in Nat /\ Len(s) >= 2 /\ s[1] = "0" /\ s # <<>>
    BY <1>1, PrefixIs
  <2>2. r \in Seq(Letter) /\ Len(r) = Len(s) - 2 /\ \A i \in 1..Len(s) - 2 : r[i] = s[i + 2]
    BY <2>1, DropIs
  <2>3. ParseAddr(s) = FromStrRadix(r, 16)
    BY <1>1, <2>1, ParsersAre
  <2>4. r # <<>> /\ \A i \in 1..Len(r) : r[i] \in HexDigit \/ (i = 1 /\ Len(r) > 1 /\ r[1] = "+")
    BY <2>2, <2>3, NumberLetters
  <2> HIDE DEF r
  <2>5. Len(r) \in 1..Len(r) /\ Len(r) \in 1..Len(s) - 2 /\ Len(r) + 2 = Len(s)
    BY <2>1, <2>2, <2>4
  <2>6. s[Len(s)] = r[Len(r)]
    BY <2>2, <2>5
  <2>7. r[Len(r)] # " "
    BY <2>4, <2>5, HexIs
  <2>8. Trim(s) = s
    BY <2>1, <2>6, <2>7, TrimKeeps
  <2>9. Numeric(s) = FromStrRadix(r, 16)
    BY <1>1, <2>1, <2>8, ParsersAre DEF Numeric, r
  <2> QED
    BY <2>3, <2>9
<1>2. CASE ~Prefix0x(s)
  <2>1. ParseAddr(s) = FromStrRadix(s, 16)
    BY <1>2 DEF ParseAddr
  <2>2. s # <<>> /\ \A i \in 1..Len(s) : s[i] \in HexDigit \/ (i = 1 /\ Len(s) > 1 /\ s[1] = "+")
    BY <2>1, NumberLetters
  <2>3. Len(s) \in Nat /\ 1 \in 1..Len(s) /\ Len(s) \in 1..Len(s)
    BY <2>2
  <2>4. s[1] # " " /\ s[Len(s)] # " "
    BY <2>2, <2>3, HexIs
  <2>5. Trim(s) = s
    BY <2>2, <2>4, TrimKeeps
  <2>6. Numeric(s) = ParseNumericAddr(s)
    BY <2>5 DEF Numeric
  <2>7. CASE s[1] = "+"
    <3>1. ~Prefix0x(s) /\ ~Prefix0X(s) /\ ~(\A i \in 1..Len(s) : s[i] \in HexDigit)
      BY <2>3, <2>7, PrefixIs, HexIs
    <3>2. Numeric(s) = NoValue
      BY <2>2, <2>6, <3>1, ParsersAre
    <3> DEFINE plus == {i \in 1..Len(s) : s[i] = "+"}
    <3>3. 1 \in plus /\ plus \in SUBSET (1..Len(s))
      BY <2>3, <2>7
    <3>4. Min(plus) = 1
      <4>1. Min(plus) \in plus /\ Min(plus) <= 1
        <5> HIDE DEF plus
        <5> QED
          BY <2>3, <3>3, Extremes
      <4>2. Min(plus) \in 1..Len(s)
        BY <3>3, <4>1
      <4> QED
        BY <4>1, <4>2
    <3>5. SubSeq(s, 1, 1 - 1) = <<>>
      OBVIOUS
    <3>6. Trim(<<>>) = <<>>
      BY DEF Trim
    <3>7. ParseModuleOffset(s) = NoModule
      BY <3>4, <3>5, <3>6 DEF ParseModuleOffset
    <3>8. ResolveExpression(s) = NoModule
      BY <3>7 DEF ResolveExpression
    <3> QED
      BY <1>0, <2>7, <3>2, <3>8
  <2>8. CASE s[1] # "+"
    <3>1. \A i \in 1..Len(s) : s[i] \in HexDigit
      BY <2>2, <2>8
    <3>2. ~Prefix0X(s)
      <4>1. ASSUME Len(s) >= 2 PROVE s[2] # "X"
        <5>1. 2 \in 1..Len(s)
          BY <2>3, <4>1
        <5> QED
          BY <3>1, <5>1, HexIs
      <4> QED
        BY <4>1, PrefixIs
    <3>3. ParseNumericAddr(s) = FromStrRadix(s, 16)
      BY <1>2, <2>2, <3>1, <3>2, ParsersAre
    <3> QED
      BY <2>1, <2>6, <3>3
  <2> QED
    BY <2>7, <2>8
<1> QED
  BY <1>1, <1>2

LEMMA FilterNumbers ==
  ASSUME NEW s \in Seq(Letter), ParseValue(s).ok, s[1] # "+"
  PROVE  IF Prefix0x(s) \/ Prefix0X(s) THEN ParseNumericAddr(s) = ParseValue(s)
         ELSE ParseNumericAddr(s).ok =>
                (ParseNumericAddr(s) = ParseValue(s) <=> ParseValue(s).value < 10)
<1>0. ~NoValue.ok
  BY DEF NoValue
<1>1. CASE Prefix0x(s) \/ Prefix0X(s)
  <2>1. s # <<>>
    BY <1>1, PrefixIs
  <2> QED
    BY <1>1, <2>1, ParsersAre
<1>2. ASSUME ~(Prefix0x(s) \/ Prefix0X(s)), ParseNumericAddr(s).ok
      PROVE  ParseNumericAddr(s) = ParseValue(s) <=> ParseValue(s).value < 10
  <2>1. ParseValue(s) = FromStrRadix(s, 10)
    BY <1>2 DEF ParseValue
  <2>2. s # <<>>
    BY <2>1, NumberLetters
  <2>3. ParseNumericAddr(s) = FromStrRadix(s, 16)
    BY <1>0, <1>2, <2>2, ParsersAre
  <2>4. Unsigned(s) = s
    BY DEF Unsigned
  <2> DEFINE t == Worth(s, 10)[Len(s)]
             h == Worth(s, 16)[Len(s)]
  <2>5. /\ s \in Seq(HexDigit) /\ \A i \in 1..Len(s) : Digit(s[i]) < 10
        /\ FromStrRadix(s, 10) = Val(t)
    BY <2>1, <2>4, NumberIs
  <2>6. FromStrRadix(s, 16) = Val(h)
    BY <1>2, <2>3, <2>4, NumberIs
  <2>7. h = t <=> t < 10
    BY <2>5, HexAndDecimal, Len(s) \in 0..Len(s)
  <2> HIDE DEF t, h
  <2>8. Val(h) = Val(t) <=> h = t
    BY DEF Val
  <2>9. Val(t).value = t
    BY DEF Val
  <2> QED
    BY <2>1, <2>3, <2>5, <2>6, <2>7, <2>8, <2>9
<1> QED
  BY <1>1, <1>2

-----------------------------------------------------------------------------
(* Addresses shown in hits                                                 *)

LEMMA Listed ==
  ASSUME NEW S, NEW a \in S, NEW b \in S, NEW c \in S, NEW d \in S
  PROVE  /\ <<a>> \in Seq(S) /\ Len(<<a>>) = 1 /\ <<a>>[1] = a
         /\ <<a, b, c>> \in Seq(S) /\ Len(<<a, b, c>>) = 3
         /\ <<a, b, c>>[1] = a /\ <<a, b, c>>[2] = b /\ <<a, b, c>>[3] = c
         /\ <<a, b, c, d>> \in Seq(S) /\ Len(<<a, b, c, d>>) = 4
         /\ <<a, b, c, d>>[1] = a /\ <<a, b, c, d>>[2] = b
         /\ <<a, b, c, d>>[3] = c /\ <<a, b, c, d>>[4] = d
OBVIOUS

LEMMA OneDigit ==
  ASSUME NEW d \in HexDigit
  PROVE  ParseNumericAddr(Trim(<<"0", "x", d>>)) = Val(Digit(d))
<1> DEFINE s == <<"0", "x", d>>
<1>0. d \in Letter /\ "0" \in Letter /\ "x" \in Letter
  BY HexIs
<1>1. s \in Seq(Letter) /\ Len(s) = 3 /\ s[1] = "0" /\ s[2] = "x" /\ s[3] = d
  BY <1>0, Listed, Zenon
<1> HIDE DEF s
<1>2. s # <<>> /\ Drop(s, 2) = <<d>>
  <2> DEFINE g == Drop(s, 2)
             t == <<d>>
  <2>1. g \in Seq(Letter) /\ Len(g) = 1 /\ g[1] = d
    BY <1>1 DEF Drop
  <2>2. t \in Seq(Letter) /\ Len(t) = 1 /\ t[1] = d
    BY <1>0, Listed, Zenon
  <2> HIDE DEF g, t
  <2>3. g = t
    BY <2>1, <2>2
  <2> QED
    BY <1>1, <2>3 DEF g, t
<1>3. Trim(s) = s
  <2>1. s[1] # " " /\ s[Len(s)] # " "
    BY <1>1, HexIs
  <2> QED
    BY <1>1, <1>2, <2>1, TrimKeeps
<1>4. ParseNumericAddr(s) = FromStrRadix(<<d>>, 16)
  <2>1. Prefix0x(s)
    BY <1>1, PrefixIs
  <2> QED
    BY <1>1, <1>2, <2>1, ParsersAre
<1> DEFINE t == <<d>>
<1>5. t \in Seq(HexDigit) /\ Len(t) = 1 /\ t[1] = d /\ t # <<>>
  OBVIOUS
<1> HIDE DEF t
<1>6. Digit(d) \in 0..15
  BY DigitIs
<1>7. Worth(t, 16)[1] = Digit(d)
  <2>1. Worth(t, 16)[0] = 0
    BY <1>5, WorthIs
  <2>2. Worth(t, 16)[1] = 16 * Worth(t, 16)[1 - 1] + Digit(t[1])
    BY <1>5, WorthIs, 1 \in 1..Len(t)
  <2> QED
    BY <1>5, <1>6, <2>1, <2>2
<1>8. FromStrRadix(t, 16) = Val(Digit(d))
  <2>1. /\ ~(Len(t) > 1 /\ t[1] = "+")
        /\ ~\E i \in 1..Len(t) : t[i] \notin HexDigit \/ Digit(t[i]) >= 16
        /\ ~(Worth(t, 16)[Len(t)] >= WordLimit)
    BY <1>5, <1>6, <1>7, ArgumentAssumption
  <2> QED
    BY <1>5, <1>7, <2>1 DEF FromStrRadix
<1> QED
  BY <1>3, <1>4, <1>8 DEF s, t

LEMMA DisplayIs ==
  ASSUME NEW s \in Seq(Letter), NEW d \in HexDigit
  PROVE  /\ Display(s, d) \in Seq(Letter) /\ Len(Display(s, d)) = Len(s) + 4
         /\ \A i \in 1..Len(s) : Display(s, d)[i] = s[i]
         /\ Display(s, d)[Len(s) + 1] = "+" /\ Display(s, d)[Len(s) + 2] = "0"
         /\ Display(s, d)[Len(s) + 3] = "x" /\ Display(s, d)[Len(s) + 4] = d
         /\ SubSeq(Display(s, d), 1, Len(s)) = s
         /\ Drop(Display(s, d), Len(s) + 1) = <<"0", "x", d>>
<1> DEFINE e == <<"+", "0", "x", d>>
           f == <<"0", "x", d>>
           D == Display(s, d)
<1>0. d \in Letter /\ "0" \in Letter /\ "x" \in Letter /\ "+" \in Letter
  BY HexIs
<1>1. /\ e \in Seq(Letter) /\ Len(e) = 4
      /\ e[1] = "+" /\ e[2] = "0" /\ e[3] = "x" /\ e[4] = d
  BY <1>0, Listed, Zenon
<1>2. D = s \o e
  BY DEF Display
<1>3. f \in Seq(Letter) /\ Len(f) = 3 /\ f[1] = "0" /\ f[2] = "x" /\ f[3] = d
  BY <1>0, Listed, Zenon
<1> HIDE DEF e, f, D
<1>4. /\ D \in Seq(Letter) /\ Len(D) = Len(s) + 4
      /\ \A i \in 1..Len(s) : D[i] = s[i]
      /\ \A i \in 1..4 : D[Len(s) + i] = e[i]
  <2>1. D \in Seq(Letter) /\ Len(D) = Len(s) + 4 /\ Len(s) \in Nat
    <3>1. D \in Seq(Letter) /\ Len(D) = Len(s) + Len(e)
      BY <1>1, <1>2, ConcatProperties, Zenon
    <3>2. Len(s) \in Nat
      OBVIOUS
    <3> QED
      BY <1>1, <3>1, <3>2
  <2>2. \A j \in 1..Len(s) + Len(e) : D[j] = IF j <= Len(s) THEN s[j] ELSE e[j - Len(s)]
    BY <1>1, <1>2, ConcatProperties, Zenon
  <2>3. ASSUME NEW i \in 1..Len(s) PROVE D[i] = s[i]
    BY <1>1, <2>1, <2>2
  <2>4. ASSUME NEW i \in 1..4 PROVE D[Len(s) + i] = e[i]
    <3>1. /\ Len(s) + i \in 1..Len(s) + Len(e)
          /\ ~(Len(s) + i <= Len(s)) /\ (Len(s) + i) - Len(s) = i
      BY <1>1, <2>1
    <3> QED
      BY <2>2, <3>1
  <2> QED
    BY <2>1, <2>3, <2>4
<1>5. SubSeq(D, 1, Len(s)) = s
  BY <1>4
<1>6. Drop(D, Len(s) + 1) = f
  <2> DEFINE g == Drop(D, Len(s) + 1)
  <2>1. g \in Seq(Letter) /\ Len(g) = 3 /\ \A i \in 1..3 : g[i] = D[i + (Len(s) + 1)]
    BY <1>4 DEF Drop
  <2>2. ASSUME NEW i \in 1..3 PROVE g[i] = f[i]
    <3>1. g[i] = D[Len(s) + (i + 1)]
      BY <2>1
    <3>2. D[Len(s) + (i + 1)] = e[i + 1]
      BY <1>4, i + 1 \in 1..4
    <3>3. e[i + 1] = f[i]
      BY <1>1, <1>3
    <3> QED
      BY <3>1, <3>2, <3>3
  <2> HIDE DEF g
  <2>3. g = f
    BY <1>3, <2>1, <2>2
  <2> QED
    BY <2>3 DEF g
<1>7. D[Len(s) + 1] = "+" /\ D[Len(s) + 2] = "0" /\ D[Len(s) + 3] = "x" /\ D[Len(s) + 4] = d
  BY <1>1, <1>4
<1> QED
  BY <1>4, <1>5, <1>6, <1>7 DEF D, f

LEMMA DisplayedIsNoNumber ==
  ASSUME NEW s \in Seq(Letter), s # <<>>, Trim(s) = s, NEW d \in HexDigit
  PROVE  ~Numeric(Display(s, d)).ok
<1> DEFINE D == Display(s, d)
<1>0. ~NoValue.ok
  BY DEF NoValue
<1>1. /\ D \in Seq(Letter) /\ Len(D) = Len(s) + 4 /\ Len(s) \in Nat /\ Len(s) >= 1
      /\ D[1] = s[1] /\ D[Len(s) + 1] = "+" /\ D[Len(s) + 3] = "x" /\ D[Len(s) + 4] = d
  <2>1. Len(s) \in Nat /\ Len(s) >= 1 /\ 1 \in 1..Len(s)
    OBVIOUS
  <2> HIDE DEF D
  <2> QED
    BY <2>1, DisplayIs DEF D
<1>2. s[1] # " "
  BY TrimKeeps
<1> HIDE DEF D
<1>3. D # <<>>
  BY <1>1
<1>4. Trim(D) = D
  <2>1. D[1] # " " /\ D[Len(D)] # " "
    BY <1>1, <1>2, HexIs
  <2> QED
    BY <1>1, <1>3, <2>1, TrimKeeps
<1>5. ~ParseNumericAddr(D).ok
  <2>1. CASE Prefix0x(D) \/ Prefix0X(D)
    <3> DEFINE r == Drop(D, 2)
    <3>1. r \in Seq(Letter) /\ Len(r) = Len(s) + 2 /\ \A i \in 1..Len(s) + 2 : r[i] = D[i + 2]
      <4>1. 2 \in Nat /\ 2 <= Len(D) /\ Len(D) - 2 = Len(s) + 2
        BY <1>1
      <4> QED
        BY <1>1, <4>1, DropIs
    <3> HIDE DEF r
    <3>2. Len(s) + 1 \in 1..Len(r) /\ Len(s) + 1 # 1 /\ r[Len(s) + 1] = "x"
      BY <1>1, <3>1
    <3>3. ~FromStrRadix(r, 16).ok
      BY <3>1, <3>2, NumberLetters, HexIs
    <3> QED
      BY <1>1, <1>3, <2>1, <3>3, ParsersAre DEF r
  <2>2. CASE ~(Prefix0x(D) \/ Prefix0X(D))
    <3>1. Len(s) + 1 \in 1..Len(D)
      BY <1>1
    <3>2. ~\A i \in 1..Len(D) : D[i] \in HexDigit
      BY <1>1, <3>1, HexIs
    <3> QED
      BY <1>0, <1>1, <1>3, <2>2, <3>2, ParsersAre
  <2> QED
    BY <2>1, <2>2
<1> QED
  BY <1>4, <1>5 DEF Numeric, D

LEMMA ReadsBack ==
  ASSUME NEW s \in Seq(Letter), s # <<>>, Trim(s) = s, NEW d \in HexDigit
  PROVE  ResolveExpression(Display(s, d)) = [ok |-> TRUE, module |-> s, offset |-> Digit(d)]
           <=> \A i \in 1..Len(s) : s[i] # "+"
<1> DEFINE D == Display(s, d)
           plus == {i \in 1..Len(D) : D[i] = "+"}
           p == Min(plus)
           module == Trim(SubSeq(D, 1, p - 1))
           offset == ParseNumericAddr(Trim(Drop(D, p)))
<1>1. /\ D \in Seq(Letter) /\ Len(D) = Len(s) + 4 /\ Len(s) \in Nat
      /\ \A i \in 1..Len(s) : D[i] = s[i]
      /\ D[Len(s) + 1] = "+" /\ SubSeq(D, 1, Len(s)) = s
      /\ Drop(D, Len(s) + 1) = <<"0", "x", d>>
  <2>1. D \in Seq(Letter) /\ Len(D) = Len(s) + 4
    BY DisplayIs, Zenon
  <2>2. \A i \in 1..Len(s) : D[i] = s[i]
    BY DisplayIs, Zenon
  <2>3. D[Len(s) + 1] = "+" /\ SubSeq(D, 1, Len(s)) = s
    BY DisplayIs, Zenon
  <2>4. Drop(D, Len(s) + 1) = <<"0", "x", d>>
    BY DisplayIs, Zenon
  <2> HIDE DEF D
  <2> QED
    BY <2>1, <2>2, <2>3, <2>4
<1>2. ResolveExpression(D) = ParseModuleOffset(D)
  BY DisplayedIsNoNumber DEF ResolveExpression
<1> HIDE DEF D
<1>3. /\ p \in plus /\ \A i \in plus : p <= i
      /\ plus \in SUBSET (1..Len(D)) /\ Len(s) + 1 \in plus
  <2>1. plus \in SUBSET (1..Len(D)) /\ Len(s) + 1 \in plus /\ Len(D) \in Nat
    BY <1>1
  <2> HIDE DEF plus
  <2> QED
    BY <2>1, Extremes
<1>4. ParseModuleOffset(D) = IF module = <<>> \/ ~offset.ok THEN NoModule
                             ELSE [ok |-> TRUE, module |-> module, offset |-> offset.value]
  <2>1. plus # {}
    BY <1>3
  <2> QED
    BY <2>1 DEF ParseModuleOffset
<1>5. p \in 1..Len(s) + 1 /\ D[p] = "+"
  BY <1>1, <1>3
<1> HIDE DEF p
<1>6. ASSUME \A i \in 1..Len(s) : s[i] # "+"
      PROVE  ResolveExpression(D) = [ok |-> TRUE, module |-> s, offset |-> Digit(d)]
  <2>1. p = Len(s) + 1
    BY <1>1, <1>5, <1>6
  <2>2. module = s
    BY <1>1, <2>1, (Len(s) + 1) - 1 = Len(s)
  <2>3. offset = Val(Digit(d))
    BY <1>1, <2>1, OneDigit
  <2> HIDE DEF module, offset
  <2>4. offset.ok /\ offset.value = Digit(d)
    BY <2>3 DEF Val
  <2> QED
    BY <1>2, <1>4, <2>2, <2>4
<1>7. ASSUME NEW i \in 1..Len(s), s[i] = "+",
             ResolveExpression(D) = [ok |-> TRUE, module |-> s, offset |-> Digit(d)]
      PROVE  FALSE
  <2>1. i \in plus
    BY <1>1, <1>7
  <2>2. p <= Len(s)
    BY <1>3, <1>5, <2>1
  <2>3. SubSeq(D, 1, p - 1) \in Seq(Letter) /\ Len(SubSeq(D, 1, p - 1)) = p - 1
    BY <1>1, <1>5
  <2>4. Len(module) <= p - 1
    BY <2>3, TrimShortens
  <2>5. module # s
    BY <1>1, <1>5, <2>2, <2>4
  <2> HIDE DEF module, offset
  <2>6. ResolveExpression(D).ok /\ ResolveExpression(D).module = s
    BY <1>7
  <2>7. ~NoModule.ok
    BY DEF NoModule
  <2>8. ResolveExpression(D).module = module
    BY <1>2, <1>4, <2>6, <2>7
  <2> QED
    BY <2>5, <2>6, <2>8
<1> QED
  BY <1>6, <1>7 DEF D

-----------------------------------------------------------------------------
(* Watchpoint types                                                        *)

LEMMA ParseLenIs ==
  ASSUME NEW l
  PROVE  /\ ParseLen(l).ok <=> l \in LenText
         /\ ParseLen(l).ok => ParseLen(l).value \in Lengths
         /\ l \in LenText => ParseLen(l).value = IF l = <<>> THEN 1 ELSE Digit(l[1])
<1>1. /\ <<>> # <<"1">> /\ <<>> # <<"4">> /\ <<"1">> # <<"4">>
  OBVIOUS
<1>2. CASE l = <<"1">>
  <2>1. ParseLen(l) = Val(1)
    BY <1>1, <1>2, Zenon DEF ParseLen
  <2> QED
    BY <1>2, <2>1 DEF Val, LenText, Lengths, Digit
<1>3. CASE l = <<"4">>
  <2>1. ParseLen(l) = Val(4)
    BY <1>1, <1>3, Zenon DEF ParseLen
  <2> QED
    BY <1>3, <2>1 DEF Val, LenText, Lengths, Digit
<1>4. CASE l = <<>>
  <2>1. ParseLen(l) = Val(1)
    BY <1>1, <1>4, Zenon DEF ParseLen
  <2> QED
    BY <1>4, <2>1 DEF Val, LenText, Lengths, Digit
<1>5. CASE l \notin LenText
  <2>1. ParseLen(l) = NoValue
    BY <1>5, Zenon DEF ParseLen, LenText
  <2> QED
    BY <1>5, <2>1 DEF NoValue
<1> QED
  BY <1>2, <1>3, <1>4, <1>5 DEF LenText

LEMMA OfKindIs ==
  ASSUME NEW kind, NEW l
  PROVE  /\ OfKind(kind, l).ok <=> l \in LenText
         /\ OfKind(kind, l).ok => OfKind(kind, l).kind = kind
         /\ OfKind(kind, l) = NoType
              \/ \E n \in Lengths : OfKind(kind, l) = [ok |-> TRUE, kind |-> kind, len |-> n]
<1>1. CASE l \in LenText
  <2>1. ParseLen(l).ok /\ ParseLen(l).value \in Lengths
    BY <1>1, ParseLenIs
  <2>2. OfKind(kind, l) = [ok |-> TRUE, kind |-> kind, len |-> ParseLen(l).value]
    BY <2>1 DEF OfKind
  <2> DEFINE t == OfKind(kind, l)
  <2>3. t.ok = TRUE /\ t.kind = kind
    BY <2>2
  <2>4. \E n \in Lengths : t = [ok |-> TRUE, kind |-> kind, len |-> n]
    BY <2>1, <2>2, Zenon
  <2> HIDE DEF t
  <2>5. (t.ok <=> l \in LenText) /\ (t.ok => t.kind = kind)
    BY <1>1, <2>3, Zenon
  <2> QED
    BY <2>4, <2>5, Zenon DEF t
<1>2. CASE l \notin LenText
  <2>1. ~ParseLen(l).ok
    BY <1>2, ParseLenIs
  <2>2. OfKind(kind, l) = NoType
    BY <2>1 DEF OfKind
  <2> DEFINE t == OfKind(kind, l)
  <2>3. t.ok = FALSE
    <3>1. NoType.ok = FALSE
      BY DEF NoType
    <3> QED
      BY <2>2, <3>1, Zenon
  <2> HIDE DEF t
  <2>4. (t.ok <=> l \in LenText) /\ (t.ok => t.kind = kind)
    BY <1>2, <2>3, Zenon
  <2> QED
    BY <2>2, <2>4, Zenon DEF t
<1> QED
  BY <1>1, <1>2

LEMMA Joined ==
  ASSUME NEW s \in Seq(Letter), NEW k \in Seq(Letter), NEW l \in Seq(Letter)
  PROVE  s = k \o l <=> Len(k) <= Len(s) /\ (\A i \in 1..Len(k) : s[i] = k[i]) /\ Drop(s, Len(k)) = l
<1> DEFINE t == k \o l
<1>1. /\ t \in Seq(Letter) /\ Len(t) = Len(k) + Len(l)
      /\ \A i \in 1..Len(t) : t[i] = IF i <= Len(k) THEN k[i] ELSE l[i - Len(k)]
  <2>1. t \in Seq(Letter) /\ Len(t) = Len(k) + Len(l)
    BY ConcatProperties, Zenon
  <2>2. \A i \in 1..Len(k) + Len(l) : t[i] = IF i <= Len(k) THEN k[i] ELSE l[i - Len(k)]
    BY ConcatProperties, Zenon
  <2> QED
    BY <2>1, <2>2, Zenon
<1>2. Len(k) \in Nat /\ Len(l) \in Nat /\ Len(s) \in Nat
  OBVIOUS
<1> HIDE DEF t
<1>3. ASSUME s = t
      PROVE  Len(k) <= Len(s) /\ (\A i \in 1..Len(k) : s[i] = k[i]) /\ Drop(s, Len(k)) = l
  <2>1. Len(k) <= Len(s) /\ \A i \in 1..Len(k) : s[i] = k[i]
    BY <1>1, <1>2, <1>3
  <2> DEFINE r == Drop(s, Len(k))
  <2>2. r \in Seq(Letter) /\ Len(r) = Len(l) /\ \A i \in 1..Len(l) : r[i] = s[i + Len(k)]
    <3>1. Len(s) - Len(k) = Len(l)
      BY <1>1, <1>2, <1>3
    <3>2. /\ r \in Seq(Letter) /\ Len(r) = Len(s) - Len(k)
          /\ \A i \in 1..Len(s) - Len(k) : r[i] = s[i + Len(k)]
      BY <1>2, <2>1, DropIs, Zenon
    <3> HIDE DEF r
    <3> QED
      BY <3>1, <3>2, Zenon
  <2> HIDE DEF r
  <2>3. ASSUME NEW i \in 1..Len(l) PROVE r[i] = l[i]
    <3>1. i + Len(k) \in 1..Len(t) /\ ~(i + Len(k) <= Len(k)) /\ (i + Len(k)) - Len(k) = i
      BY <1>1, <1>2
    <3>2. t[i + Len(k)] = l[i]
      BY <1>1, <3>1
    <3> QED
      BY <1>3, <2>2, <3>2
  <2>4. r = l
    BY <2>2, <2>3
  <2> QED
    BY <2>1, <2>4 DEF r
<1>4. ASSUME Len(k) <= Len(s), \A i \in 1..Len(k) : s[i] = k[i], Drop(s, Len(k)) = l
      PROVE  s = t
  <2>1. Len(l) = Len(s) - Len(k) /\ \A i \in 1..Len(s) - Len(k) : l[i] = s[i + Len(k)]
    BY <1>2, <1>4, DropIs
  <2>2. Len(t) = Len(s)
    BY <1>1, <1>2, <2>1
  <2>3. ASSUME NEW i \in 1..Len(s) PROVE s[i] = t[i]
    <3>1. CASE i <= Len(k)
      BY <1>1, <1>2, <1>4, <2>2, <3>1
    <3>2. CASE ~(i <= Len(k))
      <4>1. i - Len(k) \in 1..Len(s) - Len(k) /\ (i - Len(k)) + Len(k) = i
        BY <1>2, <3>2
      <4> QED
        BY <1>1, <2>1, <2>2, <3>2, <4>1
    <3> QED
      BY <3>1, <3>2
  <2> QED
    BY <1>1, <2>2, <2>3
<1> QED
  BY <1>3, <1>4 DEF t

\* The texts that are watchpoint types.
IsType(s) ==
  \/ s = <<"x">>
  \/ Len(s) >= 1 /\ s[1] \in {"r", "w"} /\ Drop(s, 1) \in LenText
  \/ Len(s) >= 2 /\ s[1] = "r" /\ s[2] = "w" /\ Drop(s, 2) \in LenText

LEMMA IsTypeIs ==
  ASSUME NEW s \in Seq(Letter)
  PROVE  /\ IsType(s) <=> \/ s = <<"x">>
                          \/ \E kind \in {"r", "w", "rw"}, l \in LenText : s = Spelt(kind) \o l
         /\ \A b \in {"r", "w"}, l \in LenText :
              s = <<b>> \o l <=> Len(s) >= 1 /\ s[1] = b /\ Drop(s, 1) = l
         /\ \A l \in LenText :
              s = <<"r", "w">> \o l <=> Len(s) >= 2 /\ s[1] = "r" /\ s[2] = "w" /\ Drop(s, 2) = l
<1>1. \A l \in LenText : l \in Seq(Letter)
  <2>1. "1" \in Letter /\ "4" \in Letter
    BY DEF Letter
  <2>2. <<"1">> \in Seq(Letter) /\ <<"4">> \in Seq(Letter)
    BY <2>1, Listed, Zenon
  <2>3. <<>> \in Seq(Letter)
    OBVIOUS
  <2> QED
    BY <2>2, <2>3, Zenon DEF LenText
<1>2. "r" \in Letter /\ "w" \in Letter
  BY DEF Letter
<1>3. ASSUME NEW b \in {"r", "w"}, NEW l \in LenText
      PROVE  s = <<b>> \o l <=> Len(s) >= 1 /\ s[1] = b /\ Drop(s, 1) = l
  <2> DEFINE k == <<b>>
  <2>1. k \in Seq(Letter) /\ Len(k) = 1 /\ k[1] = b
    BY <1>2
  <2> HIDE DEF k
  <2>2. s = k \o l <=> Len(k) <= Len(s) /\ (\A i \in 1..Len(k) : s[i] = k[i]) /\ Drop(s, Len(k)) = l
    BY <1>1, <2>1, Joined
  <2>3. (\A i \in 1..Len(k) : s[i] = k[i]) <=> s[1] = b
    BY <2>1
  <2>4. s = k \o l <=> Len(s) >= 1 /\ s[1] = b /\ Drop(s, 1) = l
    <3>1. Len(k) <= Len(s) <=> Len(s) >= 1
      BY <2>1
    <3> QED
      BY <2>1, <2>2, <2>3, <3>1, Zenon
  <2> QED
    BY <2>4 DEF k
<1>4. ASSUME NEW l \in LenText
      PROVE  s = <<"r", "w">> \o l <=> Len(s) >= 2 /\ s[1] = "r" /\ s[2] = "w" /\ Drop(s, 2) = l
  <2> DEFINE k == <<"r", "w">>
  <2>1. k \in Seq(Letter) /\ Len(k) = 2 /\ k[1] = "r" /\ k[2] = "w"
    BY <1>2
  <2> HIDE DEF k
  <2>2. s = k \o l <=> Len(k) <= Len(s) /\ (\A i \in 1..Len(k) : s[i] = k[i]) /\ Drop(s, Len(k)) = l
    BY <1>1, <2>1, Joined
  <2>3. (\A i \in 1..Len(k) : s[i] = k[i]) <=> s[1] = "r" /\ s[2] = "w"
    BY <2>1
  <2>4. s = k \o l <=> Len(s) >= 2 /\ s[1] = "r" /\ s[2] = "w" /\ Drop(s, 2) = l
    <3>1. Len(k) <= Len(s) <=> Len(s) >= 2
      BY <2>1
    <3> QED
      BY <2>1, <2>2, <2>3, <3>1, Zenon
  <2> QED
    BY <2>4 DEF k
<1>5. (\E k \in {<<"r">>, <<"w">>, <<"r", "w">>}, l \in LenText : s = k \o l)
        <=> \E l \in LenText : \/ \E b \in {"r", "w"} : s = <<b>> \o l
                               \/ s = <<"r", "w">> \o l
  BY Zenon
<1>6. (\E l \in LenText : \/ \E b \in {"r", "w"} : s = <<b>> \o l
                          \/ s = <<"r", "w">> \o l)
        <=> \/ Len(s) >= 1 /\ s[1] \in {"r", "w"} /\ Drop(s, 1) \in LenText
            \/ Len(s) >= 2 /\ s[1] = "r" /\ s[2] = "w" /\ Drop(s, 2) \in LenText
  BY <1>3, <1>4, Zenon
<1>7. (\E kind \in {"r", "w", "rw"}, l \in LenText : s = Spelt(kind) \o l)
        <=> \E k \in {<<"r">>, <<"w">>, <<"r", "w">>}, l \in LenText : s = k \o l
  <2>1. Spelt("r") = <<"r">> /\ Spelt("w") = <<"w">> /\ Spelt("rw") = <<"r", "w">>
    BY DEF Spelt
  <2> QED
    BY <2>1, Zenon
<1>8. IsType(s) <=> s = <<"x">> \/ \E kind \in {"r", "w", "rw"}, l \in LenText : s = Spelt(kind) \o l
  BY <1>5, <1>6, <1>7, Zenon DEF IsType
<1> QED
  BY <1>3, <1>4, <1>8

LEMMA TypeRead ==
  ASSUME NEW s \in Seq(Letter)
  PROVE  /\ ParseType(s).ok <=> IsType(s)
         /\ ParseType(s).ok /\ ParseType(s).kind # "x" =>
              HasPrefix(s, IF ParseType(s).kind = "rw" THEN <<"r", "w">>
                           ELSE <<ParseType(s).kind>>)
         /\ ParseType(s).ok => (ParseType(s).kind = "rw" <=> HasPrefix(s, <<"r", "w">>))
         /\ ParseType(s) \in [ok : BOOLEAN, kind : {"", "r", "w", "rw", "x"},
                              len : {0, 8} \cup Lengths]
<1> DEFINE t == ParseType(s)
           rw == HasPrefix(s, <<"r", "w">>)
           r == HasPrefix(s, <<"r">>)
           w == HasPrefix(s, <<"w">>)
           T == [ok : BOOLEAN, kind : {"", "r", "w", "rw", "x"}, len : {0, 8} \cup Lengths]
<1>1. /\ rw <=> Len(s) >= 2 /\ s[1] = "r" /\ s[2] = "w"
      /\ r <=> Len(s) >= 1 /\ s[1] = "r"
      /\ w <=> Len(s) >= 1 /\ s[1] = "w"
  BY Starts
<1>2. s = <<"x">> => Len(s) = 1 /\ s[1] = "x"
  OBVIOUS
<1>3. ASSUME NEW kind \in {"r", "w", "rw"}, NEW l PROVE OfKind(kind, l) \in T
  <2>1. NoType \in T
    BY DEF NoType
  <2>2. ASSUME NEW n \in Lengths PROVE [ok |-> TRUE, kind |-> kind, len |-> n] \in T
    OBVIOUS
  <2> HIDE DEF T
  <2> QED
    <3> DEFINE u == OfKind(kind, l)
    <3>1. u = NoType \/ \E n \in Lengths : u = [ok |-> TRUE, kind |-> kind, len |-> n]
      BY ONLY OfKindIs
    <3> HIDE DEF u
    <3>2. u \in T
      BY <2>1, <2>2, <3>1, Zenon
    <3> QED
      BY <3>2 DEF u
<1>4. Len(s) \in Nat
  OBVIOUS
<1>5. CASE rw
  <2>1. t = OfKind("rw", Drop(s, 2))
    BY <1>5 DEF ParseType
  <2>2. IsType(s) <=> Drop(s, 2) \in LenText
    <3>1. Drop(s, 1) \notin LenText
      <4>1. Len(Drop(s, 1)) = Len(s) - 1 /\ Drop(s, 1)[1] = s[1 + 1]
        BY <1>1, <1>4, <1>5, DropIs
      <4>2. ASSUME NEW l \in LenText PROVE Len(l) = 0 \/ (Len(l) = 1 /\ l[1] \in {"1", "4"})
        BY DEF LenText
      <4>3. Len(s) - 1 # 0 /\ s[1 + 1] = "w"
        BY <1>1, <1>4, <1>5
      <4> QED
        BY <4>1, <4>2, <4>3
    <3> QED
      BY <1>1, <1>2, <1>5, <3>1 DEF IsType
  <2> HIDE DEF t, rw, T
  <2>3. (t.ok <=> IsType(s)) /\ (t.ok => t.kind = "rw") /\ t \in T
    BY <1>3, <2>1, <2>2, OfKindIs
  <2> QED
    BY <1>5, <2>3 DEF t, rw, T
<1>6. CASE ~rw /\ r
  <2>1. t = OfKind("r", Drop(s, 1))
    BY <1>6 DEF ParseType
  <2>2. IsType(s) <=> Drop(s, 1) \in LenText
    BY <1>1, <1>2, <1>6 DEF IsType
  <2> HIDE DEF t, rw, r, T
  <2>3. (t.ok <=> IsType(s)) /\ (t.ok => t.kind = "r") /\ t \in T
    BY <1>3, <2>1, <2>2, OfKindIs
  <2> QED
    BY <1>6, <2>3 DEF t, rw, r, T
<1>7. CASE ~r /\ w
  <2>1. ~rw
    BY <1>1, <1>7
  <2>2. t = OfKind("w", Drop(s, 1))
    BY <1>7, <2>1 DEF ParseType
  <2>3. IsType(s) <=> Drop(s, 1) \in LenText
    BY <1>1, <1>2, <1>7 DEF IsType
  <2> HIDE DEF t, rw, w, T
  <2>4. (t.ok <=> IsType(s)) /\ (t.ok => t.kind = "w") /\ t \in T
    BY <1>3, <2>2, <2>3, OfKindIs
  <2> QED
    BY <1>7, <2>1, <2>4 DEF t, rw, w, T
<1>8. CASE ~r /\ ~w
  <2>1. ~rw
    BY <1>1, <1>8
  <2>2. IsType(s) <=> s = <<"x">>
    BY <1>1, <1>4, <1>8 DEF IsType
  <2>3. t = IF s = <<"x">> THEN [ok |-> TRUE, kind |-> "x", len |-> 8] ELSE NoType
    BY <1>8, <2>1 DEF ParseType
  <2>4. /\ [ok |-> TRUE, kind |-> "x", len |-> 8] \in T /\ NoType \in T
        /\ NoType.ok = FALSE
    BY DEF NoType
  <2> HIDE DEF t, rw, r, w, T
  <2>5. (t.ok <=> s = <<"x">>) /\ (t.ok => t.kind = "x") /\ t \in T
    <3>1. CASE s = <<"x">>
      <4>1. t = [ok |-> TRUE, kind |-> "x", len |-> 8]
        BY <2>3, <3>1
      <4>2. t.ok = TRUE /\ t.kind = "x"
        BY <4>1
      <4> QED
        BY <2>4, <3>1, <4>1, <4>2
    <3>2. CASE s # <<"x">>
      <4>1. t = NoType
        BY <2>3, <3>2
      <4> QED
        BY <2>4, <3>2, <4>1
    <3> QED
      BY <3>1, <3>2
  <2> QED
    BY <2>1, <2>2, <2>5 DEF t, rw, T
<1> QED
  BY <1>5, <1>6, <1>7, <1>8

\* A type is read as the kind and the length it was written with.
LEMMA TypeIs ==
  ASSUME NEW s \in Seq(Letter), NEW kind \in {"r", "w", "rw"}, NEW l \in LenText
  PROVE  s = Spelt(kind) \o l =>
           ParseType(s)
             = [ok |-> TRUE, kind |-> kind, len |-> IF l = <<>> THEN 1 ELSE Digit(l[1])]
<1>1. /\ HasPrefix(s, <<"r", "w">>) <=> Len(s) >= 2 /\ s[1] = "r" /\ s[2] = "w"
      /\ HasPrefix(s, <<"r">>) <=> Len(s) >= 1 /\ s[1] = "r"
      /\ HasPrefix(s, <<"w">>) <=> Len(s) >= 1 /\ s[1] = "w"
  BY Starts
<1>2. OfKind(kind, l)
        = [ok |-> TRUE, kind |-> kind, len |-> IF l = <<>> THEN 1 ELSE Digit(l[1])]
  <2>1. ParseLen(l).ok /\ ParseLen(l).value = IF l = <<>> THEN 1 ELSE Digit(l[1])
    BY ParseLenIs
  <2> QED
    BY <2>1, Zenon DEF OfKind
<1>3. ASSUME kind = "rw", s = Spelt(kind) \o l PROVE ParseType(s) = OfKind(kind, l)
  <2>1. Len(s) >= 2 /\ s[1] = "r" /\ s[2] = "w" /\ Drop(s, 2) = l
    <3>1. s = <<"r", "w">> \o l
      BY <1>3 DEF Spelt
    <3>2. s = <<"r", "w">> \o l <=> Len(s) >= 2 /\ s[1] = "r" /\ s[2] = "w" /\ Drop(s, 2) = l
      BY IsTypeIs, Zenon
    <3> QED
      BY <3>1, <3>2, Zenon
  <2> QED
    BY <1>1, <1>3, <2>1 DEF ParseType
<1>4. ASSUME kind \in {"r", "w"}, s = Spelt(kind) \o l PROVE ParseType(s) = OfKind(kind, l)
  <2>1. Len(s) >= 1 /\ s[1] = kind /\ Drop(s, 1) = l
    <3>1. s = <<kind>> \o l
      BY <1>4 DEF Spelt
    <3>2. \A b \in {"r", "w"}, m \in LenText :
            s = <<b>> \o m <=> Len(s) >= 1 /\ s[1] = b /\ Drop(s, 1) = m
      BY IsTypeIs
    <3>3. kind \in {"r", "w"}
      BY <1>4
    <3> HIDE DEF LenText
    <3> QED
      BY <3>1, <3>2, <3>3, Zenon
  <2>2. ~(Len(s) >= 2 /\ s[2] = "w")
    <3>1. Len(l) = 0 \/ (Len(l) = 1 /\ l[1] \in {"1", "4"})
      BY DEF LenText
    <3>2. Len(s) \in Nat
      OBVIOUS
    <3>3. ASSUME Len(s) >= 2 PROVE Len(Drop(s, 1)) = Len(s) - 1 /\ Drop(s, 1)[1] = s[1 + 1]
      <4>1. 1 \in Nat /\ 1 <= Len(s) /\ 1 \in 1..Len(s) - 1
        BY <3>2, <3>3
      <4>2. Len(Drop(s, 1)) = Len(s) - 1 /\ \A i \in 1..Len(s) - 1 : Drop(s, 1)[i] = s[i + 1]
        BY <4>1, DropIs, Zenon
      <4> QED
        BY <4>1, <4>2
    <3> QED
      BY <2>1, <3>1, <3>2, <3>3
  <2> QED
    BY <1>1, <1>4, <2>1, <2>2 DEF ParseType
<1> QED
  BY <1>2, <1>3, <1>4

-----------------------------------------------------------------------------
(* Whatever has been written                                               *)

WrittenInv == written \in Seq(Letter) /\ Len(written) <= MaxArgument

LEMMA WrittenIsRead == WrittenInv => ArgumentsAreRead
<1> SUFFICES ASSUME WrittenInv PROVE ArgumentsAreRead
  OBVIOUS
<1> DEFINE s == written
<1>1. s \in Seq(Letter) /\ Len(s) <= MaxArgument
  BY DEF WrittenInv
<1> HIDE DEF s
<1>2. /\ ParseAddr(s) \in Number /\ ParseNumericAddr(s) \in Number /\ ParseValue(s) \in Number
  <2>1. NoValue \in Number
    BY DEF Number
  <2>2. CASE s = <<>>
    <3>1. ~Prefix0x(s) /\ ~Prefix0X(s)
      <4>1. ~(Len(s) >= 2)
        BY <2>2
      <4> QED
        BY <1>1, <4>1, PrefixIs
    <3>2. FromStrRadix(s, 16) \in Number /\ FromStrRadix(s, 10) \in Number
      BY <1>1, NumberTyped
    <3> QED
      BY <2>1, <2>2, <3>1, <3>2 DEF ParseAddr, ParseNumericAddr, ParseValue
  <2>3. CASE s # <<>>
    <3>1. FromStrRadix(s, 16) \in Number /\ FromStrRadix(s, 10) \in Number
      BY <1>1, NumberTyped
    <3>2. ASSUME Prefix0x(s) \/ Prefix0X(s) PROVE FromStrRadix(Drop(s, 2), 16) \in Number
      <4>1. Len(s) >= 2
        BY <1>1, <3>2, PrefixIs
      <4>2. Drop(s, 2) \in Seq(Letter)
        BY <1>1, <4>1, DropIs
      <4> QED
        BY <4>2, NumberTyped
    <3> QED
      BY <1>1, <2>1, <2>3, <3>1, <3>2, ParsersAre
  <2> QED
    BY <2>2, <2>3
<1>3. ArgTypeOK
  BY <1>1, <1>2, TypeRead DEF ArgTypeOK, s
<1>4. SameTextSameAddress
  BY <1>1, SameText DEF SameTextSameAddress, s
<1>5. FilterNumbersMatchAddresses
  BY <1>1, FilterNumbers DEF FilterNumbersMatchAddresses, s
<1>6. DisplayReadsBack
  BY <1>1, ReadsBack DEF DisplayReadsBack, s
<1>7. TypesAreTheGrammar
  <2>1. ASSUME NEW kind \in {"r", "w", "rw"}, NEW l \in LenText
        PROVE  s = Spelt(kind) \o l =>
                 ParseType(s)
                   = [ok |-> TRUE, kind |-> kind, len |-> IF l = <<>> THEN 1 ELSE Digit(l[1])]
    BY <1>1, TypeIs
  <2>2. s = <<"x">> => ParseType(s) = [ok |-> TRUE, kind |-> "x", len |-> 8]
    <3> SUFFICES ASSUME s = <<"x">> PROVE ParseType(s) = [ok |-> TRUE, kind |-> "x", len |-> 8]
      OBVIOUS
    <3>1. ~(Len(s) >= 1 /\ s[1] = "r") /\ ~(Len(s) >= 1 /\ s[1] = "w")
      OBVIOUS
    <3>2. ~HasPrefix(s, <<"r", "w">>) /\ ~HasPrefix(s, <<"r">>) /\ ~HasPrefix(s, <<"w">>)
      BY <1>1, <3>1, Starts
    <3> QED
      BY <3>2 DEF ParseType
  <2>3. ParseType(s).ok =>
          s = <<"x">> \/ \E kind \in {"r", "w", "rw"}, l \in LenText : s = Spelt(kind) \o l
    BY <1>1, TypeRead, IsTypeIs
  <2> QED
    BY <2>1, <2>2, <2>3 DEF TypesAreTheGrammar, s
<1> QED
  BY <1>3, <1>4, <1>5, <1>6, <1>7 DEF ArgumentsAreRead

\* Whatever a user writes, of any length, and however wide an address is: the parsers of
\* addresses agree, an address shown in a hit reads back unless the module has a plus sign,
\* and watchpoint types are read as the help has them, but that a length may be left out, for
\* one byte (watch.rs:51-84, maps.rs:298-325,
\* filter.rs:199-208).
THEOREM ArgumentsAreAlwaysRead == ArgSpec => []ArgumentsAreRead
<1>1. ArgInit => WrittenInv
  BY ArgumentAssumption DEF ArgInit, WrittenInv
<1>2. WrittenInv /\ [ArgNext]_written => WrittenInv'
  <2> SUFFICES ASSUME WrittenInv, [ArgNext]_written PROVE WrittenInv'
    OBVIOUS
  <2>1. ASSUME NEW c \in Letter, Write(c) PROVE WrittenInv'
    BY <2>1, ArgumentAssumption DEF Write, WrittenInv
  <2>2. CASE UNCHANGED written
    BY <2>2 DEF WrittenInv
  <2> QED
    BY <2>1, <2>2 DEF ArgNext
<1> QED
  BY <1>1, <1>2, WrittenIsRead, PTL DEF ArgSpec
=============================================================================

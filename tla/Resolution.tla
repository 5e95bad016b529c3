----------------------------- MODULE Resolution -----------------------------
(***************************************************************************)
(* What the answers of the maps cache are worth (maps.rs): MapsCache.tla   *)
(* with the contents of the maps.  The mappings of a process change while  *)
(* it runs, exec replaces all of them, and a pid that is used again shows  *)
(* those of another program; a snapshot read at time t holds the mappings  *)
(* of time t.  Registers and stack frames of a hit are resolved in bulk    *)
(* (resolve_many_addresses), an address of a request by module and offset  *)
(* (resolve_expression).                                                   *)
(*                                                                         *)
(* A region is [start, end, module); the paths that match a name of a      *)
(* module are one module here, and Anonymous is a region without a path.   *)
(***************************************************************************)
EXTENDS Integers, Sequences

CONSTANTS
  Caller, Pid, TTL, MaxClock, NoEntry,   \* of MapsCache
  Layouts,    \* contents of /proc/<pid>/maps: sequences of regions
  Questions,  \* sequences of addresses: the registers, or the frames, of a hit
  Modules,    \* names asked for
  Anonymous,  \* the module of a region without a path
  MaxAddr,    \* u64::MAX
  None        \* an address that is not resolved

\* The kernel lists the mappings of a process by address; none is empty and no two overlap.
IsLayout(l) ==
  /\ l \in Seq({l[i] : i \in 1..Len(l)})
  /\ \A i \in 1..Len(l) :
       /\ l[i].start \in Nat /\ l[i].end \in Nat /\ l[i].start < l[i].end
       /\ \A j \in 1..i - 1 : l[j].end <= l[i].start

ASSUME ResolutionAssumption ==
  /\ TTL \in Nat \ {0} /\ MaxClock \in Nat
  /\ NoEntry \notin [loadedAt : Nat, readAt : Nat]
  /\ MaxAddr \in Nat
  /\ \A l \in Layouts : IsLayout(l)

VARIABLES clock, cache, pc, op, pid, now, force, got, answer   \* of MapsCache

C == INSTANCE MapsCache

VARIABLES
  world,     \* per process and instant: its mappings
  asked,     \* per caller: the addresses of the call
  resolved,  \* per caller: the region found for each, or None
  expr,      \* per caller: where resolve_expression is, its module, offset and value
  began      \* history: per caller, when its resolve_expression began

callVars == <<asked, resolved>>
exprVars == <<expr, began>>
vars == <<C!vars, world, callVars, exprVars>>

NoExpr == [stage |-> "none", module |-> Anonymous, offset |-> 0, value |-> 0]

Init ==
  /\ C!Init
  /\ world \in [Pid -> {<<l>> : l \in Layouts}]
  /\ asked = [c \in Caller |-> <<>>]
  /\ resolved = [c \in Caller |-> <<>>]
  /\ expr = [c \in Caller |-> NoExpr]
  /\ began = [c \in Caller |-> 0]

At(p, t) == world[p][t + 1]

\* Time passes, and any process may have other mappings than before.
Tick ==
  /\ C!Tick
  /\ \E l \in [Pid -> Layouts] : world' = [p \in Pid |-> Append(world[p], l[p])]
  /\ UNCHANGED <<callVars, exprVars>>

-----------------------------------------------------------------------------
(* resolve_many_addresses                                                  *)

Holds(region, a) == region.start <= a /\ a < region.end

Of(layout, m) == {i \in 1..Len(layout) : layout[i].module = m}

First(regions) == CHOOSE i \in regions : \A j \in regions : i <= j

\* resolve_one.
Find(layout, a) ==
  LET regions == {i \in 1..Len(layout) : Holds(layout[i], a)}
  IN  IF regions # {} THEN layout[First(regions)] ELSE None

\* The call starts with no address resolved.
AskFor(c, addrs) ==
  /\ asked' = [asked EXCEPT ![c] = addrs]
  /\ resolved' = [resolved EXCEPT ![c] = [i \in 1..Len(addrs) |-> None]]

ResolveMany(c, p, addrs) ==
  /\ expr[c].stage = "none"
  /\ C!Call(c, p, "resolve") /\ AskFor(c, addrs)
  /\ UNCHANGED <<world, exprVars>>

\* Each address that has no answer yet is looked up in the snapshot in hand.
Fill(c) ==
  [i \in 1..Len(asked[c]) |->
     IF resolved[c][i] # None THEN resolved[c][i]
     ELSE Find(At(pid[c], got[c].readAt), asked[c][i])]

\* One pass over the addresses; the call is over, or refreshes and passes again.
Search(c) ==
  /\ pc[c] = "search" /\ op[c] = "resolve"
  /\ resolved' = [resolved EXCEPT ![c] = Fill(c)]
  /\ IF None \in {Fill(c)[i] : i \in 1..Len(asked[c])} THEN C!NotFound(c) ELSE C!Found(c)
  /\ UNCHANGED <<world, asked, exprVars>>

-----------------------------------------------------------------------------
(* resolve_expression                                                      *)

Expression(c, p, m, off) ==
  /\ expr[c].stage = "none"
  /\ C!Call(c, p, "list")
  /\ expr' = [expr EXCEPT ![c] = [stage |-> "module", module |-> m, offset |-> off, value |-> 0]]
  /\ began' = [began EXCEPT ![c] = clock]
  /\ UNCHANGED <<world, callVars>>

\* Mutant: the last region of that module.
ModuleStartLast(layout, m) ==
  layout[CHOOSE i \in Of(layout, m) : \A j \in Of(layout, m) : j <= i].start

\* The start of the first region of that module.
ModuleStart(layout, m) == layout[First(Of(layout, m))].start

Mapped(layout, m) == Of(layout, m) # {}

\* resolve_module_offset with the maps in hand; it fails on an unknown module and
\* when the sum leaves a u64.
ResolveModule(c) ==
  LET layout == At(pid[c], got[c].readAt)
      e == expr[c]
      sum == ModuleStart(layout, e.module) + e.offset
      ok == Mapped(layout, e.module) /\ sum <= MaxAddr
  IN  /\ pc[c] = "search" /\ e.stage = "module"
      /\ C!Found(c)
      /\ expr' = [expr EXCEPT ![c].stage = IF ok THEN "value" ELSE "failed",
                              ![c].value = IF ok THEN sum ELSE 0]
      /\ UNCHANGED <<world, callVars, began>>

\* The address is resolved in turn, to show the region it lies in.
ResolveValue(c) ==
  /\ pc[c] = "idle" /\ expr[c].stage = "value"
  /\ C!Call(c, pid[c], "resolve") /\ AskFor(c, <<expr[c].value>>)
  /\ expr' = [expr EXCEPT ![c].stage = "region"]
  /\ UNCHANGED <<world, began>>

-----------------------------------------------------------------------------
(* The steps of regions_with, and the ends of calls                        *)

Refresh(c) ==
  /\ C!Lookup(c) \/ C!ReadMaps(c) \/ C!Store(c)
  /\ UNCHANGED <<world, callVars, exprVars>>

ReadFails(c) ==
  /\ C!ReadFails(c)
  /\ expr' = IF expr[c].stage = "module" THEN [expr EXCEPT ![c].stage = "failed"] ELSE expr
  /\ UNCHANGED <<world, callVars, began>>

\* A call returns; an expression goes on to resolve its value, or is over.
Done(c) ==
  /\ C!Done(c) /\ AskFor(c, <<>>)
  /\ IF expr[c].stage = "value" THEN UNCHANGED exprVars
     ELSE expr' = [expr EXCEPT ![c] = NoExpr] /\ began' = [began EXCEPT ![c] = 0]
  /\ UNCHANGED world

Step(c) ==
  Refresh(c) \/ Search(c) \/ ResolveModule(c) \/ ResolveValue(c) \/ ReadFails(c) \/ Done(c)

Next ==
  \/ Tick
  \/ \E c \in Caller :
       \/ Step(c)
       \/ \E p \in Pid :
            \/ \E addrs \in Questions : ResolveMany(c, p, addrs)
            \/ \E m \in Modules, off \in 0..1 : Expression(c, p, m, off)

Spec == Init /\ [][Next]_vars

-----------------------------------------------------------------------------
\* The answers of a call are true: an address was mapped as shown at an instant less than
\* a TTL before the call or during it, and an address shown bare was in no mapping at an
\* instant of the call, however the process changed its mappings or was replaced, and
\* whoever refreshed the cache (maps.rs:73-94, 159-237).
AnswersWereTrue ==
  \A c \in Caller : pc[c] = "done" /\ op[c] = "resolve" =>
    \A i \in 1..Len(asked[c]) :
      LET saw(t) == Find(At(pid[c], t), asked[c][i]) = resolved[c][i]
      IN  IF resolved[c][i] # None
          THEN \E t \in 0..clock : t > now[c] - TTL /\ saw(t)
          ELSE answer[c] = "unreadable" \/ \E t \in now[c]..clock : saw(t)

\* module+offset is counted from where the module begins at an instant of the request,
\* never from a cached place of it (maps.rs:114-136).
ExpressionIsCurrent ==
  \A c \in Caller : expr[c].stage \in {"value", "region"} =>
    \E t \in began[c]..clock :
      LET layout == At(pid[c], t)
      IN  /\ Mapped(layout, expr[c].module)
          /\ expr[c].value = ModuleStart(layout, expr[c].module) + expr[c].offset

\* What the answer to a request shows belongs together: if the mappings stood still, the
\* region shown with module+offset is the module's own, when the offset is within its first
\* region; the two come from lookups of their own (maps.rs:96-112).
StillExpressionIsConsistent ==
  \A c \in Caller :
    LET layout == At(pid[c], clock)
        e == expr[c]
        first == layout[First(Of(layout, e.module))]
    IN  /\ pc[c] = "done" /\ e.stage = "region" /\ answer[c] = "regions"
        /\ \A t \in 0..clock : t > began[c] - TTL => At(pid[c], t) = layout
        /\ e.offset < first.end - first.start
        => resolved[c][1].module = e.module
=============================================================================

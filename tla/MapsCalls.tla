----------------------------- MODULE MapsCalls -----------------------------
(***************************************************************************)
(* What one call costs: MapsCache.tla with a count, per caller, of how     *)
(* often the call under way has read the file, or tried to.  The count     *)
(* follows the callers and never guides them.                              *)
(***************************************************************************)
EXTENDS MapsCache

VARIABLE reads  \* per caller: reads of the file in the call under way

countedVars == <<vars, reads>>

CountedInit == Init /\ reads = [c \in Caller |-> 0]

\* read_maps ends, with the maps or with an error.
HasRead(c) == pc[c] = "read" /\ pc'[c] # "read"

Count ==
  reads' = [c \in Caller |-> IF pc'[c] = "idle" THEN 0
                             ELSE IF HasRead(c) THEN reads[c] + 1
                             ELSE reads[c]]

CountedNext == Next /\ Count

CountedSpec ==
  CountedInit /\ [][CountedNext]_countedVars /\ \A c \in Caller : WF_vars(Step(c))

-----------------------------------------------------------------------------
CountedTypeOK == TypeOK /\ reads \in [Caller -> Nat]

\* `list` and `resolve_module_offset` read the file once at most, the resolving calls
\* twice: a read that failed, a refresh that lost the race, an address that is not there
\* and entries that go stale meanwhile cost no more (maps.rs:57-94, 138-153).
Bounded(c) == reads[c] <= IF op[c] = "list" THEN 1 ELSE 2

ReadsBounded == \A c \in Caller : Bounded(c)

\* A call comes back, whoever else uses the cache, and has by then read the file at most
\* so often.
CallsReturn == \A c \in Caller : pc[c] = "lookup" ~> pc[c] = "done" /\ Bounded(c)
=============================================================================

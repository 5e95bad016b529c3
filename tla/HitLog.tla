------------------------------- MODULE HitLog -------------------------------
(***************************************************************************)
(* What the hit pipeline of `pwatch serve` promises, without its threads:  *)
(* samples that were accepted form a FIFO, each of them is published as    *)
(* exactly one hit, hits are numbered 1, 2, 3, ... in that order, and a    *)
(* reader of the log sees the last HitLimit of them.                       *)
(* HitPipeline.tla implements this specification.                          *)
(***************************************************************************)
EXTENDS Naturals, Sequences

CONSTANTS Sample,    \* the values a watch task may report
          HitLimit   \* ServeCommand::hit_buffer, the hits kept for GET /hits

VARIABLES pending,   \* accepted samples that are not hits yet
          window,    \* the most recent hits, oldest first
          count      \* the number of hits published so far

vars == <<pending, window, count>>

\* The last n elements of s.
LastN(s, n) == IF Len(s) <= n THEN s ELSE SubSeq(s, Len(s) - n + 1, Len(s))

Init == pending = <<>> /\ window = <<>> /\ count = 0

Accept(s) == pending' = Append(pending, s) /\ UNCHANGED <<window, count>>

Publish ==
  /\ pending # <<>>
  /\ pending' = Tail(pending)
  /\ count' = count + 1
  /\ window' = LastN(Append(window, [seq |-> count + 1, sample |-> Head(pending)]), HitLimit)

Next == Publish \/ \E s \in Sample : Accept(s)

Spec == Init /\ [][Next]_vars /\ WF_vars(Publish)
=============================================================================

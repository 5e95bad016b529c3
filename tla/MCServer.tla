------------------------------ MODULE MCServer ------------------------------
(* Two requests race over two ids; one target thread is enough for two     *)
(* watches to share the queue.  One browser holds a stream now and then:   *)
(* how streams meet each other is MCHitPipeline's subject.                 *)
EXTENDS Server, TLC

CONSTANTS r1, r2, t1, b1

MCRequest == {r1, r2}
MCTid == {t1}
MCClient == {b1}
Symmetry == Permutations(MCRequest)
=============================================================================

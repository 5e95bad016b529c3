------------------------------ MODULE MCWatch ------------------------------
(* One watch on a process of two threads: a thread may be born during the  *)
(* listing, fail to open, flood its ring past a batch, or exit.  Distinct  *)
(* watches share nothing in Watch.tla but the threads; Server.tla runs two.*)
EXTENDS Watch

CONSTANTS w1, t1, t2

MCWatchId == {w1}
MCTid == {t1, t2}
=============================================================================

------------------------------- MODULE MCCli -------------------------------
(* Two threads: one may exit, or fail to open, while the other goes on.    *)
EXTENDS Cli

CONSTANTS w1, t1, t2

MCTid == {t1, t2}
=============================================================================

---------------------------- MODULE MCMapsCache ----------------------------
(* Two callers race for the entry of one process; time runs past the TTL.  *)
EXTENDS MapsCalls

CONSTANTS c1, c2, p1

MCCaller == {c1, c2}
MCPid == {p1}
=============================================================================

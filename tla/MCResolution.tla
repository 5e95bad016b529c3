---------------------------- MODULE MCResolution ----------------------------
(* Two callers and one process, whose module A moves, is cut in two with a  *)
(* region of B behind it, or is gone but for an anonymous region.           *)
EXTENDS Resolution, TLC

CONSTANTS A, B

R(s, e, m) == [start |-> s, end |-> e, module |-> m]
MCLayouts ==
  { <<R(0, 2, A)>>, <<R(0, 2, A), R(2, 3, A), R(3, 4, B)>>, <<R(1, 3, Anonymous)>> }
MCQuestions == {<<0, 2, 3>>}
MCModules == {A}
Symmetry == Permutations(Caller)
=============================================================================

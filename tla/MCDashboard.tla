----------------------------- MODULE MCDashboard -----------------------------
(* Two servers of three hits each, tables of one or two rows, two loads at a *)
(* time; a second connection would be there to be left open.                 *)
EXTENDS Dashboard, TLC

Symmetry == Permutations(Server) \cup Permutations(Load) \cup Permutations(Conn)
=============================================================================

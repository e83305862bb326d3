--------------------------- MODULE MCSessionTurns ---------------------------
(* Bounded instances of SessionTurns for TLC. *)
EXTENDS SessionTurns, TLC

Symmetry == Permutations(Requests) \cup Permutations(Tasks)
=============================================================================

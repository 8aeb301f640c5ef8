----------------------------- MODULE MCA2ATasks -----------------------------
(* Instances of A2ATasks for TLC. *)
EXTENDS A2ATasks, TLC

Symmetry == Permutations(Tasks)
=============================================================================

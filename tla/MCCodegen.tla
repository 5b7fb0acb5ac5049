----------------------------- MODULE MCCodegen -----------------------------
(* Instances of RefCCodegen for TLC. *)
EXTENDS RefCCodegen, TLC

Symmetry == Permutations(Var) \cup Permutations(Con)
=============================================================================

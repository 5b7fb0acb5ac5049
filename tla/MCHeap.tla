------------------------------- MODULE MCHeap -------------------------------
(* Instances of RefCHeap for TLC. *)
EXTENDS RefCHeap, TLC

Symmetry == Permutations(Addr) \cup Permutations(Var)
=============================================================================

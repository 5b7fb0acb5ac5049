-------------------------------- MODULE MCNet --------------------------------
(* IdrisNet for TLC: bytes may be exchanged for each other. *)
EXTENDS IdrisNet, TLC

Symmetry == Permutations(Byte)
=============================================================================

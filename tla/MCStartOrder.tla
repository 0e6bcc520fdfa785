---------------------------- MODULE MCStartOrder ----------------------------
(* StartOrder instantiated for TLC. *)
EXTENDS StartOrder

ServiceSymmetry == Permutations(Services)
=============================================================================

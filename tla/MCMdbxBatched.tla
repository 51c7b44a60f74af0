---------------------------- MODULE MCMdbxBatched ----------------------------
(* MdbxBatched for TLC. *)
EXTENDS MdbxBatched, TLC

AddressSymmetry == Permutations(Addresses)
=============================================================================

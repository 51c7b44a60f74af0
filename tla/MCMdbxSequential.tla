-------------------------- MODULE MCMdbxSequential --------------------------
(* MdbxSequential for TLC. *)
EXTENDS MdbxSequential, TLC

AddressSymmetry == Permutations(Addresses)
=============================================================================

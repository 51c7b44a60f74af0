--------------------------- MODULE MCFdbParallel ---------------------------
(* FdbParallel for TLC. *)
EXTENDS FdbParallel, TLC

AddressSymmetry == Permutations(Addresses)
=============================================================================

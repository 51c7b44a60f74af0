--------------------------- MODULE MCInvalidation ---------------------------
(* Invalidation for TLC. *)
EXTENDS Invalidation, TLC

AddressSymmetry == Permutations(Addresses)
=============================================================================

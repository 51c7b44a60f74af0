---------------------------- MODULE GivenWorkload ----------------------------
(* What every executor is given: the workload main has generated. *)
EXTENDS Transfers, Block

CONSTANT SigOutcomes   \* what signature verification may find

ASSUME SigOutcomesAssumption == SigOutcomes \subseteq BOOLEAN

VARIABLE txs   \* workload.transactions
=============================================================================

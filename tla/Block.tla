-------------------------------- MODULE Block --------------------------------
(* How many transactions are executed. *)
EXTENDS Naturals

CONSTANT NumTxns   \* length of the workload; Block-STM runs it as one block

ASSUME NumTxnsAssumption == NumTxns \in Nat
=============================================================================

------------------------ MODULE MCParallelExecutor ------------------------
(* ParallelExecutor for TLC. *)
EXTENDS ParallelExecutor, TLC

\* Workers, and addresses, are interchangeable in the safety runs.
Symmetry == Permutations(Workers) \cup Permutations(Addresses)
=============================================================================

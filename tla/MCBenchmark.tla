---------------------------- MODULE MCBenchmark ----------------------------
(* Benchmark for TLC. *)
EXTENDS Benchmark

AllSections == {Sections[k] : k \in DOMAIN Sections}
AllDraws == [0 .. NumTxns - 1 -> Pairs]

\* Block-STM's threads meet on the receiver of the first transfer and on the
\* accounts of the later ones, and not on the first sender.
Path == [t \in 0 .. NumTxns - 1 |-> IF t = 0 THEN <<1, 2>> ELSE <<2, 3>>]

\* Every workload through every other section, a clamped --hot-accounts included;
\* one draw through all of them.
MCCommandLines ==
    {[hot |-> 1, sections |-> AllSections \ {"block_stm"}, draws |-> AllDraws],
     [hot |-> 3, sections |-> AllSections \ {"block_stm"}, draws |-> AllDraws],
     [hot |-> 3, sections |-> AllSections, draws |-> {Path}]}
=============================================================================

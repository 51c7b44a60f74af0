----------------------------- MODULE LooseOrder -----------------------------
(***************************************************************************)
(* What executor/mod.rs promises of an executor whose ordering is loose:   *)
(* "Transactions from the same sender are never reordered relative to each *)
(* other" and "the final state will be equivalent to some valid ordering   *)
(* of all transactions".  Transfers take effect one at a time, each as a   *)
(* whole, in any order that keeps every sender's.                          *)
(***************************************************************************)
EXTENDS Transfers

VARIABLES
    txs,       \* the workload
    ledger,    \* what the transfers so far have made of the genesis ledger
    applied    \* the transfers that have taken effect

looseVars == <<txs, ledger, applied>>

LooseInit == ledger = Genesis /\ applied = {}

\* No earlier transfer of the same sender is outstanding.
InTurn(t) == \A u \in 0 .. t - 1 : txs[u].from = txs[t].from => u \in applied

TakesEffect(t) ==
    /\ t \notin applied
    /\ InTurn(t)
    /\ Succeeds(txs[t], ledger)
    /\ ledger' = Apply(txs[t], ledger)
    /\ applied' = applied \cup {t}
    /\ UNCHANGED txs

LooseNext == \E t \in DOMAIN txs : TakesEffect(t)

LooseSpec == LooseInit /\ [][LooseNext]_looseVars
=============================================================================

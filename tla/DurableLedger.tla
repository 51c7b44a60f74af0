--------------------------- MODULE DurableLedger ---------------------------
(***************************************************************************)
(* What a block-by-block executor over a persistent store promises.  A     *)
(* ledger is advanced one transaction at a time in memory; a checkpoint    *)
(* makes it durable, all of it at once; a crash loses what no checkpoint   *)
(* has covered and nothing else.  Whoever runs the workload again starts   *)
(* from the genesis ledger.                                                *)
(***************************************************************************)
EXTENDS Transfers

VARIABLES
    txs,       \* the workload
    ledger,    \* the ledger as the executor sees it
    durable,   \* the ledger a crash leaves behind
    next       \* the transaction to execute next

ledgerVars == <<txs, ledger, durable, next>>

\* No account has been stored yet.
NoAccounts == [a \in {} |-> 0]

LedgerInit ==
    /\ ledger = NoAccounts
    /\ durable = NoAccounts
    /\ next = 0

Reset ==
    /\ ledger' = Genesis
    /\ durable' = Genesis
    /\ next' = 0
    /\ UNCHANGED txs

Execute ==
    /\ ledger # NoAccounts
    /\ next \in DOMAIN txs
    /\ ledger' = Apply(txs[next], ledger)
    /\ next' = next + 1
    /\ UNCHANGED <<txs, durable>>

Checkpoint ==
    /\ durable' = ledger
    /\ UNCHANGED <<txs, ledger, next>>

LoseMemory ==
    /\ ledger' = durable
    /\ next' = 0
    /\ UNCHANGED <<txs, durable>>

LedgerSpec ==
    LedgerInit /\ [][Reset \/ Execute \/ Checkpoint \/ LoseMemory]_ledgerVars
=============================================================================

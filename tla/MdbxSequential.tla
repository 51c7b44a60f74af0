--------------------------- MODULE MdbxSequential ---------------------------
(***************************************************************************)
(* executor/mdbx.rs, MdbxSequentialExecutor::execute_workload.  Every      *)
(* transfer is two write transactions, sender then receiver, so a process  *)
(* that dies or a database call that fails between them leaves a debit     *)
(* without its credit.  The next call of execute_workload on the same path *)
(* starts by overwriting every account of the workload.                    *)
(***************************************************************************)
EXTENDS MdbxDatabase, GivenWorkload

VARIABLES
    seq_accounts,     \* the committed table
    seq_pc,           \* where the call is
    seq_next,         \* the transaction of this iteration
    seq_receiver,     \* the receiver's new state, computed before the first write
    seq_successful,
    seq_failed

locals == <<seq_pc, seq_next, seq_receiver, seq_successful, seq_failed>>
seqVars == <<seq_accounts, txs, locals>>

NoAccount == <<>>

\* A new database, and execute_workload about to be called.
SeqStart ==
    /\ seq_accounts = Empty
    /\ seq_pc = "init"
    /\ seq_next = 0
    /\ seq_receiver = NoAccount
    /\ seq_successful = 0
    /\ seq_failed = 0

SeqInit == txs \in Workloads(NumTxns, SigOutcomes) /\ SeqStart

Begin ==
    /\ seq_pc = "init"
    /\ seq_accounts' = InitAccounts(seq_accounts)
    /\ seq_pc' = "loop"
    /\ UNCHANGED <<txs, seq_next, seq_receiver, seq_successful, seq_failed>>

\* The signature, the sender's account, its nonce and its balance pass.
Passes(tx) ==
    /\ tx.signed
    /\ Stored(seq_accounts, tx.from)
    /\ Accepts(tx, seq_accounts[tx.from])

\* A transaction that fails a check is counted and skipped.
Reject ==
    /\ seq_pc = "loop"
    /\ seq_next < NumTxns
    /\ ~Passes(txs[seq_next])
    /\ seq_failed' = seq_failed + 1
    /\ seq_next' = seq_next + 1
    /\ UNCHANGED <<seq_accounts, txs, seq_pc, seq_receiver, seq_successful>>

\* Both accounts are read, both new states computed, the sender's committed.
DebitSender ==
    /\ seq_pc = "loop"
    /\ seq_next < NumTxns
    /\ LET tx == txs[seq_next] IN
          /\ Passes(tx)
          /\ seq_receiver' = Credit(tx, GetOrNew(seq_accounts, tx.to))
          /\ seq_accounts' = SetAccount(seq_accounts, tx.from,
                                        Debit(tx, seq_accounts[tx.from]))
    /\ seq_pc' = "credit"
    /\ UNCHANGED <<txs, seq_next, seq_successful, seq_failed>>

CreditReceiver ==
    /\ seq_pc = "credit"
    /\ seq_accounts' = SetAccount(seq_accounts, txs[seq_next].to, seq_receiver)
    /\ seq_receiver' = NoAccount
    /\ seq_successful' = seq_successful + 1
    /\ seq_next' = seq_next + 1
    /\ seq_pc' = "loop"
    /\ UNCHANGED <<txs, seq_failed>>

Return ==
    /\ seq_pc = "loop"
    /\ seq_next = NumTxns
    /\ seq_pc' = "returned"
    /\ UNCHANGED <<seq_accounts, txs, seq_next, seq_receiver, seq_successful, seq_failed>>

\* The process dies, or a database call fails and `?` leaves the function: the
\* committed table stays, the call's locals are gone.
Interrupted ==
    /\ seq_pc \in {"init", "loop", "credit"}
    /\ seq_pc' = "interrupted"
    /\ seq_next' = 0
    /\ seq_receiver' = NoAccount
    /\ seq_successful' = 0
    /\ seq_failed' = 0
    /\ UNCHANGED <<seq_accounts, txs>>

\* The same workload is executed again on the database that is there.
Rerun ==
    /\ seq_pc \in {"interrupted", "returned"}
    /\ seq_pc' = "init"
    /\ seq_next' = 0
    /\ seq_successful' = 0
    /\ seq_failed' = 0
    /\ UNCHANGED <<seq_accounts, txs, seq_receiver>>

SeqNext ==
    \/ Begin
    \/ Reject
    \/ DebitSender
    \/ CreditReceiver
    \/ Return
    \/ Interrupted
    \/ Rerun

SeqSpec == SeqInit /\ [][SeqNext]_seqVars

-----------------------------------------------------------------------------

\* Every variable has its type; in particular no balance goes below zero.
SeqTypeOK ==
    /\ MdbxTypeOK(seq_accounts)
    /\ txs \in [0 .. NumTxns - 1 -> SignedTransactions]
    /\ seq_pc \in {"init", "loop", "credit", "returned", "interrupted"}
    /\ seq_next \in 0 .. NumTxns
    /\ seq_receiver \in AccountStates \cup {NoAccount}
    /\ seq_successful \in 0 .. NumTxns
    /\ seq_failed \in 0 .. NumTxns

\* The ledger with transaction k debited and not yet credited.
HalfApplied(k) ==
    [LedgerAfter(txs, k) EXCEPT ![txs[k].from] = Debit(txs[k], @)]

\* Whatever interrupts it, the table is never more than half a transfer away
\* from strict order: it is the ledger after some prefix of the workload, or
\* that with the debit of the next transfer.
DurablePrefix ==
    \/ seq_accounts = Empty
    \/ \E k \in 0 .. NumTxns : seq_accounts = LedgerAfter(txs, k)
    \/ \E k \in 0 .. NumTxns - 1 :
          Succeeds(txs[k], LedgerAfter(txs, k)) /\ seq_accounts = HalfApplied(k)

\* A call that returns has executed the workload in strict order from genesis,
\* however many interrupted or completed calls came before it on this path,
\* and its counts are those of that execution.
RerunIsExact ==
    seq_pc = "returned" =>
        /\ seq_accounts = LedgerAfter(txs, NumTxns)
        /\ seq_successful = Cardinality(AppliedInOrder(txs))
        /\ seq_failed = NumTxns - seq_successful
=============================================================================

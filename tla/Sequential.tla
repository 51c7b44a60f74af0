----------------------------- MODULE Sequential -----------------------------
(***************************************************************************)
(* executor/sequential.rs: the in-memory baseline.  One transfer after the *)
(* other goes through revm's transact_commit on a CacheDB, whatever the    *)
(* ordering mode says.                                                     *)
(*                                                                         *)
(* revm is external.  It charges gas, which no other executor does: the    *)
(* sender pays gas_limit * gas_price on top of the value, the beneficiary  *)
(* of the default block (the zero address, no account of the workload)     *)
(* earns it.  A transaction that fails validation is an Err and changes    *)
(* nothing.  A plain transfer uses its whole gas limit and cannot revert,  *)
(* so that Ok with a failure does not occur.                               *)
(***************************************************************************)
EXTENDS GivenWorkload

CONSTANT Fee   \* gas_limit * gas_price of one transfer

ASSUME FeeAssumption == Fee \in Nat

VARIABLES
    evm_db,       \* the accounts of the workload in the CacheDB
    fees,         \* the beneficiary's balance
    evm_next,     \* the transaction of this iteration
    evm_result,   \* ExecutionResult
    returned,     \* execute has returned
    applied       \* transactions that were committed (history)

callVars == <<evm_db, fees, evm_next, evm_result, returned, applied>>
baselineVars == <<txs, callVars>>

\* execute is called with the database create_db builds.
BaselineStart ==
    /\ evm_db = Genesis
    /\ fees = 0
    /\ evm_next = 0
    /\ evm_result = [successful |-> 0, failed |-> 0]
    /\ returned = FALSE
    /\ applied = {}

BaselineInit == txs \in Workloads(NumTxns, SigOutcomes) /\ BaselineStart

Current == txs[evm_next]
Looping == ~returned /\ evm_next < NumTxns

\* revm's validation: the exact nonce, and a balance for value and gas.
Valid(tx, sender) ==
    sender.nonce = tx.nonce /\ sender.balance >= tx.value + Fee

\* What revm makes of the sender; the receiver is credited.
Charge(tx, sender) ==
    [nonce |-> sender.nonce + 1, balance |-> sender.balance - (tx.value + Fee)]

\* Mutant: a transaction that does not verify uses up a nonce.
SkipUnverifiedNonce ==
    /\ Looping
    /\ ~Current.signed
    /\ evm_db' = [evm_db EXCEPT ![Current.from].nonce = @ + 1]
    /\ evm_result' = [evm_result EXCEPT !.failed = @ + 1]
    /\ evm_next' = evm_next + 1
    /\ UNCHANGED <<txs, fees, returned, applied>>

\* recover_signer fails or finds somebody else: counted, not executed.
SkipUnverified ==
    /\ Looping
    /\ ~Current.signed
    /\ evm_result' = [evm_result EXCEPT !.failed = @ + 1]
    /\ evm_next' = evm_next + 1
    /\ UNCHANGED <<txs, evm_db, fees, returned, applied>>

\* Mutant: the fee is taken from the sender and paid to nobody.
TransactCommitBurnt ==
    /\ Looping
    /\ Current.signed /\ Valid(Current, evm_db[Current.from])
    /\ evm_db' = [evm_db EXCEPT ![Current.from] = Charge(Current, @),
                                ![Current.to] = Credit(Current, @)]
    /\ evm_result' = [evm_result EXCEPT !.successful = @ + 1]
    /\ applied' = applied \cup {evm_next}
    /\ evm_next' = evm_next + 1
    /\ UNCHANGED <<txs, fees, returned>>

\* transact_commit returns Ok: both accounts and the beneficiary are committed.
TransactCommit ==
    /\ Looping
    /\ Current.signed /\ Valid(Current, evm_db[Current.from])
    /\ evm_db' = [evm_db EXCEPT ![Current.from] = Charge(Current, @),
                                ![Current.to] = Credit(Current, @)]
    /\ fees' = fees + Fee
    /\ evm_result' = [evm_result EXCEPT !.successful = @ + 1]
    /\ applied' = applied \cup {evm_next}
    /\ evm_next' = evm_next + 1
    /\ UNCHANGED <<txs, returned>>

\* transact_commit returns Err: counted, the loop goes on.
TransactError ==
    /\ Looping
    /\ Current.signed /\ ~Valid(Current, evm_db[Current.from])
    /\ evm_result' = [evm_result EXCEPT !.failed = @ + 1]
    /\ evm_next' = evm_next + 1
    /\ UNCHANGED <<txs, evm_db, fees, returned, applied>>

ReturnResult ==
    /\ ~returned
    /\ evm_next = NumTxns
    /\ returned' = TRUE
    /\ UNCHANGED <<txs, evm_db, fees, evm_next, evm_result, applied>>

BaselineNext == SkipUnverified \/ TransactCommit \/ TransactError \/ ReturnResult

BaselineSpec == BaselineInit /\ [][BaselineNext]_baselineVars

-----------------------------------------------------------------------------
(* Properties *)

Passed == 0 .. evm_next - 1
SentBy(a) == {t \in applied : txs[t].from = a}
ReceivedBy(a) == {t \in applied : txs[t].to = a}

\* Every variable has its type; in particular nobody pays a fee it cannot.
BaselineTypeOK ==
    /\ txs \in [0 .. NumTxns - 1 -> SignedTransactions]
    /\ evm_db \in [Addresses -> AccountStates]
    /\ fees \in Nat
    /\ evm_next \in 0 .. NumTxns
    /\ evm_result \in [successful : Nat, failed : Nat]
    /\ returned \in BOOLEAN
    /\ applied \subseteq Passed

\* Not a wei is made or lost: every account is what the committed transfers and
\* their fees make of it, the beneficiary has all the fees, and the result
\* counts every transaction the loop has passed exactly once.
GasAccounted ==
    /\ \A a \in Addresses :
          /\ evm_db[a].nonce = Cardinality(SentBy(a))
          /\ evm_db[a].balance + (1 + Fee) * Cardinality(SentBy(a))
                = InitialBalance + Cardinality(ReceivedBy(a))
    /\ fees = Fee * Cardinality(applied)
    /\ evm_result.successful = Cardinality(applied)
    /\ evm_result.successful + evm_result.failed = evm_next

\* A sender's failure is final: once one of its transfers has failed, for
\* whatever reason, its nonce stays behind and none of its later ones commits,
\* however much it receives meanwhile.
SenderPrefix ==
    \A t \in applied : \A u \in 0 .. t - 1 :
        txs[u].from = txs[t].from => u \in applied

\* A sender's nonce tells which of its transfers were committed.
CommittedByNonce ==
    \A t \in 0 .. NumTxns - 1 :
        t \in applied <=> txs[t].nonce < evm_db[txs[t].from].nonce

\* The inductive invariant behind GasAccounted and SenderPrefix.
BaselineInductive ==
    /\ BaselineTypeOK
    /\ WellFormed(txs, NumTxns)
    /\ CommittedByNonce
    /\ GasAccounted
=============================================================================

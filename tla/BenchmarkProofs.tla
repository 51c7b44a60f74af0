--------------------------- MODULE BenchmarkProofs ---------------------------
(***************************************************************************)
(* The in-memory baseline: for any workload, fee and initial balance, its  *)
(* accounts, the beneficiary and the result add up, and what a sender has  *)
(* committed is a prefix of what it sends.                                 *)
(*                                                                         *)
(* The benchmark that runs it beside the others: main uses every executor  *)
(* as its own module specifies it, whatever sections are selected; the     *)
(* "strict" rows it prints come from the ledger of the ordered execution,  *)
(* and on a workload that can be executed all rows agree, with one thread  *)
(* of Block-STM everywhere and with several on the accounts where the      *)
(* transactions do not meet.                                               *)
(***************************************************************************)
EXTENDS Benchmark, MdbxSequentialProofs, MdbxProofs, ExecutorProofs, FdbProofs

\* The genesis accounts agree with a loop that has committed nothing.
LEMMA BaselineInitOK == BaselineInit => BaselineInductive
  <1> SUFFICES ASSUME BaselineInit PROVE BaselineInductive
    OBVIOUS
  <1>1. WellFormed(txs, NumTxns)
    <2>1. txs \in Workloads(NumTxns, SigOutcomes)
      BY DEF BaselineInit
    <2>2. QED
      BY <2>1, WorkloadsWellFormed, NumTxnsAssumption,
         SigOutcomesAssumption
  <1>2. /\ evm_db = Genesis /\ fees = 0 /\ evm_next = 0 /\ returned = FALSE
        /\ evm_result = [successful |-> 0, failed |-> 0] /\ applied = {}
    BY DEF BaselineInit, BaselineStart
  <1>3. BaselineTypeOK
    <2>1. txs \in [0 .. NumTxns - 1 -> SignedTransactions]
      BY <1>1 DEF WellFormed
    <2>2. evm_next \in 0 .. NumTxns
      BY <1>2, NumTxnsAssumption
    <2>3. evm_result \in [successful : Nat, failed : Nat]
      BY <1>2
    <2>4. fees \in Nat /\ returned \in BOOLEAN /\ applied \subseteq Passed
      BY <1>2
    <2>5. QED BY <1>2, <2>1, <2>2, <2>3, <2>4, GenesisOK DEF BaselineTypeOK
  <1>4. \A a \in Addresses : evm_db[a].nonce = 0 /\ evm_db[a].balance = InitialBalance
    BY <1>2 DEF Genesis
  <1>5. CommittedByNonce
    <2>1. \A t \in 0 .. NumTxns - 1 : txs[t].nonce \in Nat /\ txs[t].from \in Addresses
      BY <1>1 DEF WellFormed, SignedTransactions
    <2>2. QED BY <1>2, <1>4, <2>1 DEF CommittedByNonce
  <1>6. GasAccounted
    <2>1. Cardinality({}) = 0
      BY FS_EmptySet
    <2>2. \A a \in Addresses : SentBy(a) = {} /\ ReceivedBy(a) = {}
      BY <1>2 DEF SentBy, ReceivedBy
    <2>3. (1 + Fee) * 0 = 0 /\ Fee * 0 = 0
      BY FeeAssumption
    <2>4. \A a \in Addresses :
             /\ evm_db[a].nonce = Cardinality(SentBy(a))
             /\ evm_db[a].balance + (1 + Fee) * Cardinality(SentBy(a))
                   = InitialBalance + Cardinality(ReceivedBy(a))
      BY <1>4, <2>1, <2>2, <2>3, InitialBalanceAssumption
    <2>5. /\ evm_result.successful = 0
          /\ evm_result.successful + evm_result.failed = evm_next
      BY <1>2
    <2>6. fees = Fee * Cardinality(applied) /\ Cardinality(applied) = 0
      BY <1>2, <2>1, <2>3
    <2>7. QED BY <2>4, <2>5, <2>6 DEF GasAccounted
  <1>7. QED BY <1>1, <1>3, <1>5, <1>6 DEF BaselineInductive

\* What the loop works on.
LEMMA CurrentOK ==
    ASSUME BaselineInductive, Looping
    PROVE  /\ evm_next \in 0 .. NumTxns - 1 /\ evm_next \in Nat
           /\ Current \in SignedTransactions
           /\ Current.from # Current.to /\ Current.value = 1
           /\ applied \subseteq 0 .. NumTxns - 1
           /\ evm_next \notin applied
  <1>1. evm_next \in 0 .. NumTxns - 1 /\ evm_next \in Nat
    BY NumTxnsAssumption DEF Looping, BaselineInductive, BaselineTypeOK
  <1>2. applied \subseteq 0 .. evm_next - 1
    BY DEF BaselineInductive, BaselineTypeOK, Passed
  <1>3. QED
    BY <1>1, <1>2, NumTxnsAssumption
    DEF BaselineInductive, WellFormed, Current

\* The steps that count a failure and change no account.
LEMMA FailureOK ==
    ASSUME BaselineInductive, SkipUnverified \/ TransactError
    PROVE  BaselineInductive'
  <1>1. /\ Looping /\ UNCHANGED <<txs, evm_db, fees, returned, applied>>
        /\ evm_result' = [evm_result EXCEPT !.failed = evm_result.failed + 1]
        /\ evm_next' = evm_next + 1
    BY DEF SkipUnverified, TransactError
  <1>2. evm_next \in 0 .. NumTxns - 1 /\ evm_next \in Nat
    BY <1>1, CurrentOK
  <1>3. evm_result \in [successful : Nat, failed : Nat]
    BY DEF BaselineInductive, BaselineTypeOK
  <1>4. BaselineTypeOK'
    BY <1>1, <1>2, <1>3, NumTxnsAssumption
    DEF BaselineInductive, BaselineTypeOK, Passed
  <1>5. WellFormed(txs, NumTxns)' /\ CommittedByNonce'
    BY <1>1 DEF BaselineInductive, WellFormed, CommittedByNonce
  <1>6. GasAccounted'
    <2>1. /\ evm_result'.successful = evm_result.successful
          /\ evm_result'.failed = evm_result.failed + 1
      BY <1>1, <1>3
    <2>2. evm_result.successful + evm_result.failed = evm_next
      BY DEF BaselineInductive, GasAccounted
    <2>3. (evm_result.successful + evm_result.failed = evm_next)'
      BY <1>1, <1>2, <1>3, <2>1, <2>2
    <2>4. \A a \in Addresses : SentBy(a)' = SentBy(a) /\ ReceivedBy(a)' = ReceivedBy(a)
      BY <1>1 DEF SentBy, ReceivedBy
    <2>5. QED
      BY <1>1, <2>1, <2>3, <2>4 DEF BaselineInductive, GasAccounted
  <1>7. QED BY <1>4, <1>5, <1>6 DEF BaselineInductive

\* What a commit does to the accounts.
LEMMA CommitEffect ==
    ASSUME BaselineInductive, TransactCommit
    PROVE  /\ evm_db' \in [Addresses -> AccountStates]
           /\ evm_db[Current.from].nonce = Current.nonce
           /\ evm_db'[Current.from].nonce = Current.nonce + 1
           /\ evm_db'[Current.from].balance + (1 + Fee) = evm_db[Current.from].balance
           /\ evm_db'[Current.to].nonce = evm_db[Current.to].nonce
           /\ evm_db'[Current.to].balance = evm_db[Current.to].balance + 1
           /\ \A a \in Addresses \ {Current.from, Current.to} : evm_db'[a] = evm_db[a]
  <1> DEFINE tx == Current
             sender == Charge(tx, evm_db[tx.from])
             receiver == Credit(tx, evm_db[tx.to])
  <1>1. /\ tx.from \in Addresses /\ tx.to \in Addresses /\ tx.from # tx.to
        /\ tx.value = 1 /\ tx.nonce \in Nat
    BY CurrentOK DEF TransactCommit, SignedTransactions
  <1>2. evm_db \in [Addresses -> AccountStates]
    BY DEF BaselineInductive, BaselineTypeOK
  <1>3. /\ evm_db' = [evm_db EXCEPT ![tx.from] = sender, ![tx.to] = receiver]
        /\ evm_db[tx.from].nonce = tx.nonce
        /\ evm_db[tx.from].balance >= 1 + Fee
    BY <1>1, <1>2 DEF TransactCommit, Valid
  <1>4. /\ sender \in AccountStates
        /\ sender.nonce = tx.nonce + 1
        /\ sender.balance + (1 + Fee) = evm_db[tx.from].balance
    BY <1>1, <1>2, <1>3, FeeAssumption DEF Charge, AccountStates
  <1>5. /\ receiver \in AccountStates
        /\ receiver.nonce = evm_db[tx.to].nonce
        /\ receiver.balance = evm_db[tx.to].balance + 1
    BY <1>1, <1>2 DEF Credit, AccountStates
  <1> HIDE DEF tx, sender, receiver
  <1>6. /\ evm_db' \in [Addresses -> AccountStates]
        /\ evm_db'[tx.from] = sender
        /\ evm_db'[tx.to] = receiver
        /\ \A a \in Addresses \ {tx.from, tx.to} : evm_db'[a] = evm_db[a]
    BY <1>1, <1>2, <1>3, <1>4, <1>5
  <1>7. QED BY <1>3, <1>4, <1>5, <1>6 DEF tx

\* A commit uses up exactly one nonce, the one of its transaction.
LEMMA CommitKeepsNonces ==
    ASSUME BaselineInductive, TransactCommit
    PROVE  CommittedByNonce'
  <1> DEFINE tx == Current
             t == evm_next
             Indices == 0 .. NumTxns - 1
  <1>1. /\ t \in Indices /\ t \in Nat /\ tx = txs[t] /\ tx.from # tx.to
        /\ tx.nonce \in Nat
    BY CurrentOK DEF TransactCommit, Current, SignedTransactions
  <1>2. applied' = applied \cup {t} /\ txs' = txs
    BY DEF TransactCommit
  <1>3. /\ evm_db[tx.from].nonce = tx.nonce
        /\ evm_db'[tx.from].nonce = tx.nonce + 1
        /\ evm_db'[tx.to].nonce = evm_db[tx.to].nonce
        /\ \A a \in Addresses \ {tx.from, tx.to} : evm_db'[a] = evm_db[a]
    BY CommitEffect
  <1>4. WellFormed(txs, NumTxns) /\ evm_db \in [Addresses -> AccountStates]
    BY DEF BaselineInductive, BaselineTypeOK
  <1> HIDE DEF tx, t
  <1>5. ASSUME NEW u \in Indices
        PROVE  u \in applied' <=> txs[u].nonce < evm_db'[txs[u].from].nonce
    <2>1. /\ txs[u].nonce \in Nat /\ txs[u].from \in Addresses
          /\ evm_db[txs[u].from].nonce \in Nat
      BY <1>4 DEF WellFormed, SignedTransactions, AccountStates
    <2>2. u \in applied <=> txs[u].nonce < evm_db[txs[u].from].nonce
      BY DEF BaselineInductive, CommittedByNonce
    <2>3. CASE txs[u].from = tx.from
      <3>1. u < t => txs[u].nonce < tx.nonce
        BY <1>1, <1>4, <2>3 DEF WellFormed
      <3>2. t < u => tx.nonce < txs[u].nonce
        BY <1>1, <1>4, <2>3 DEF WellFormed
      <3>3. u # t => txs[u].nonce # tx.nonce
        BY <1>1, <2>1, <3>1, <3>2
      <3>4. u = t => txs[u].nonce = tx.nonce
        BY <1>1
      <3>5. QED BY <1>1, <1>2, <1>3, <2>1, <2>2, <2>3, <3>3, <3>4
    <2>4. CASE txs[u].from # tx.from
      <3>1. u # t
        BY <1>1, <2>4
      <3>2. evm_db'[txs[u].from].nonce = evm_db[txs[u].from].nonce
        BY <1>3, <2>1, <2>4
      <3>3. QED BY <1>2, <2>2, <3>1, <3>2
    <2>5. QED BY <2>3, <2>4
  <1>6. QED BY <1>2, <1>5 DEF CommittedByNonce

\* A commit moves value and fee, and creates neither.
LEMMA CommitKeepsAccounts ==
    ASSUME BaselineInductive, TransactCommit
    PROVE  GasAccounted'
  <1> DEFINE tx == Current
             t == evm_next
             price == 1 + Fee
  <1>1. /\ t \in Nat /\ tx = txs[t] /\ tx.from # tx.to /\ tx.nonce \in Nat
        /\ tx.from \in Addresses /\ tx.to \in Addresses
        /\ t \notin applied /\ applied \subseteq 0 .. NumTxns - 1
    BY CurrentOK DEF TransactCommit, Current, SignedTransactions
  <1>2. /\ applied' = applied \cup {t} /\ txs' = txs /\ fees' = fees + Fee
        /\ evm_result' = [evm_result EXCEPT !.successful = evm_result.successful + 1]
        /\ evm_next' = t + 1
    BY DEF TransactCommit
  <1>3. /\ evm_db' \in [Addresses -> AccountStates]
        /\ evm_db[tx.from].nonce = tx.nonce
        /\ evm_db'[tx.from].nonce = tx.nonce + 1
        /\ evm_db'[tx.from].balance + price = evm_db[tx.from].balance
        /\ evm_db'[tx.to].nonce = evm_db[tx.to].nonce
        /\ evm_db'[tx.to].balance = evm_db[tx.to].balance + 1
        /\ \A a \in Addresses \ {tx.from, tx.to} : evm_db'[a] = evm_db[a]
    BY CommitEffect
  <1>4. /\ evm_db \in [Addresses -> AccountStates] /\ fees \in Nat
        /\ evm_result \in [successful : Nat, failed : Nat]
    BY DEF BaselineInductive, BaselineTypeOK
  <1>5. price \in Nat
    BY FeeAssumption
  <1>6. \A n \in Nat : /\ price * (n + 1) = price * n + price /\ price * n \in Nat
                       /\ Fee * (n + 1) = Fee * n + Fee
    BY FeeAssumption
  <1> HIDE DEF tx, t
  <1>7. ASSUME NEW a \in Addresses
        PROVE  /\ evm_db'[a].nonce = Cardinality(SentBy(a)')
               /\ evm_db'[a].balance + price * Cardinality(SentBy(a)')
                     = InitialBalance + Cardinality(ReceivedBy(a)')
    <2>1. /\ IsFiniteSet(SentBy(a)) /\ Cardinality(SentBy(a)) \in Nat
          /\ IsFiniteSet(ReceivedBy(a)) /\ Cardinality(ReceivedBy(a)) \in Nat
      BY <1>1, IndicesFinite, NumTxnsAssumption DEF SentBy, ReceivedBy
    <2>2. t \notin SentBy(a) /\ t \notin ReceivedBy(a)
      BY <1>1 DEF SentBy, ReceivedBy
    <2>3. /\ evm_db[a].nonce = Cardinality(SentBy(a))
          /\ evm_db[a].balance + price * Cardinality(SentBy(a))
                = InitialBalance + Cardinality(ReceivedBy(a))
      BY DEF BaselineInductive, GasAccounted
    <2>4. SentBy(a)' = IF a = tx.from THEN SentBy(a) \cup {t} ELSE SentBy(a)
      BY <1>1, <1>2 DEF SentBy
    <2>5. ReceivedBy(a)' = IF a = tx.to THEN ReceivedBy(a) \cup {t} ELSE ReceivedBy(a)
      BY <1>1, <1>2 DEF ReceivedBy
    <2>6. Cardinality(SentBy(a) \cup {t}) = Cardinality(SentBy(a)) + 1
      BY <2>1, <2>2, FS_AddElement
    <2>7. Cardinality(ReceivedBy(a) \cup {t}) = Cardinality(ReceivedBy(a)) + 1
      BY <2>1, <2>2, FS_AddElement
    <2>8. /\ evm_db[a].nonce \in Nat /\ evm_db[a].balance \in Nat
          /\ evm_db'[a].nonce \in Nat /\ evm_db'[a].balance \in Nat
      BY <1>3, <1>4 DEF AccountStates
    <2> DEFINE s == Cardinality(SentBy(a))
               r == Cardinality(ReceivedBy(a))
    <2>9. price * (s + 1) = price * s + price /\ price * s \in Nat
      BY <1>6, <2>1
    <2> HIDE DEF s, r, price
    <2>10. CASE a = tx.from
      <3>1. Cardinality(SentBy(a)') = s + 1 /\ Cardinality(ReceivedBy(a)') = r
        BY <1>1, <2>4, <2>5, <2>6, <2>10 DEF s, r
      <3>2. evm_db[a].nonce = s /\ evm_db[a].balance + price * s = InitialBalance + r
        BY <2>3 DEF s, r
      <3>3. evm_db'[a].nonce = s + 1
        BY <1>3, <2>10, <3>2
      <3>4. evm_db'[a].balance + price * (s + 1) = InitialBalance + r
        BY <1>3, <1>5, <2>8, <2>9, <2>10, <3>2
      <3>5. QED BY <3>1, <3>3, <3>4
    <2>11. CASE a = tx.to
      <3>1. Cardinality(SentBy(a)') = s /\ Cardinality(ReceivedBy(a)') = r + 1
        BY <1>1, <2>4, <2>5, <2>7, <2>11 DEF s, r
      <3>2. evm_db[a].nonce = s /\ evm_db[a].balance + price * s = InitialBalance + r
        BY <2>3 DEF s, r
      <3>3. s \in Nat /\ r \in Nat
        BY <2>1 DEF s, r
      <3>4. evm_db'[a].nonce = s
        BY <1>3, <2>11, <3>2
      <3>5. evm_db'[a].balance + price * s = InitialBalance + (r + 1)
        BY <1>3, <2>8, <2>9, <2>11, <3>2, <3>3, InitialBalanceAssumption
      <3>6. QED BY <3>1, <3>4, <3>5
    <2>12. CASE a \notin {tx.from, tx.to}
      BY <1>3, <2>3, <2>4, <2>5, <2>12
    <2>13. QED BY <2>10, <2>11, <2>12
  <1>8. /\ IsFiniteSet(applied) /\ Cardinality(applied) \in Nat
        /\ Cardinality(applied \cup {t}) = Cardinality(applied) + 1
    BY <1>1, IndicesFinite, NumTxnsAssumption, FS_AddElement
  <1>9. fees' = Fee * Cardinality(applied')
    <2>1. fees = Fee * Cardinality(applied)
      BY DEF BaselineInductive, GasAccounted
    <2>2. Fee * (Cardinality(applied) + 1) = Fee * Cardinality(applied) + Fee
      BY <1>6, <1>8
    <2>3. QED BY <1>2, <1>8, <2>1, <2>2
  <1>10. /\ evm_result'.successful = Cardinality(applied')
         /\ evm_result'.successful + evm_result'.failed = evm_next'
    <2>1. /\ evm_result.successful = Cardinality(applied)
          /\ evm_result.successful + evm_result.failed = t
      BY DEF BaselineInductive, GasAccounted, t
    <2>2. /\ evm_result'.successful = evm_result.successful + 1
          /\ evm_result'.failed = evm_result.failed
      BY <1>2, <1>4
    <2>3. QED BY <1>1, <1>2, <1>4, <1>8, <2>1, <2>2
  <1>11. QED BY <1>7, <1>9, <1>10 DEF GasAccounted

LEMMA TransactCommitOK ==
    ASSUME BaselineInductive, TransactCommit
    PROVE  BaselineInductive'
  <1>1. evm_next \in 0 .. NumTxns - 1 /\ evm_next \in Nat
    BY CurrentOK DEF TransactCommit
  <1>2. evm_result' \in [successful : Nat, failed : Nat] /\ fees' \in Nat
    BY FeeAssumption DEF TransactCommit, BaselineInductive, BaselineTypeOK
  <1>3. applied' \subseteq Passed'
    BY <1>1 DEF TransactCommit, BaselineInductive, BaselineTypeOK, Passed
  <1>4. BaselineTypeOK'
    BY <1>1, <1>2, <1>3, CommitEffect, NumTxnsAssumption
    DEF TransactCommit, BaselineInductive, BaselineTypeOK
  <1>5. WellFormed(txs, NumTxns)'
    BY DEF TransactCommit, BaselineInductive, WellFormed
  <1>6. QED
    BY <1>4, <1>5, CommitKeepsNonces, CommitKeepsAccounts DEF BaselineInductive

\* Returning, and stuttering, touch nothing the invariant speaks of.
LEMMA BaselineFrame ==
    ASSUME BaselineInductive,
           UNCHANGED <<txs, evm_db, fees, evm_next, evm_result, applied>>,
           returned' \in BOOLEAN
    PROVE  BaselineInductive'
  <1>1. BaselineTypeOK'
    BY DEF BaselineInductive, BaselineTypeOK, Passed
  <1>2. WellFormed(txs, NumTxns)' /\ CommittedByNonce'
    BY DEF BaselineInductive, WellFormed, CommittedByNonce
  <1>3. GasAccounted'
    BY DEF BaselineInductive, GasAccounted, SentBy, ReceivedBy
  <1>4. QED BY <1>1, <1>2, <1>3 DEF BaselineInductive

\* Typing, the generator's guarantees, nonces and accounting together are kept
\* by every iteration of execute.
THEOREM BaselineInductiveInvariant == BaselineSpec => []BaselineInductive
  <1>1. BaselineInductive /\ [BaselineNext]_baselineVars => BaselineInductive'
    <2> SUFFICES ASSUME BaselineInductive, [BaselineNext]_baselineVars
                 PROVE  BaselineInductive'
      OBVIOUS
    <2>1. CASE SkipUnverified \/ TransactError
      BY <2>1, FailureOK
    <2>2. CASE TransactCommit
      BY <2>2, TransactCommitOK
    <2>3. CASE ReturnResult
      BY <2>3, BaselineFrame DEF ReturnResult
    <2>4. CASE UNCHANGED baselineVars
      <3>1. returned \in BOOLEAN
        BY DEF BaselineInductive, BaselineTypeOK
      <3>2. QED BY <2>4, <3>1, BaselineFrame DEF baselineVars, callVars
    <2>5. QED BY <2>1, <2>2, <2>3, <2>4 DEF BaselineNext
  <1>2. QED BY <1>1, BaselineInitOK, PTL DEF BaselineSpec

\* The balances, the nonces, the beneficiary and the result of execute account
\* for every transfer and every fee.
THEOREM GasIsAccounted == BaselineSpec => []GasAccounted
  <1>1. BaselineInductive => GasAccounted
    BY DEF BaselineInductive
  <1>2. QED BY <1>1, BaselineInductiveInvariant, PTL

\* A sender's first failure is its last attempt: what execute commits of a
\* sender is a prefix of its transfers.
THEOREM SenderPrefixKept == BaselineSpec => []SenderPrefix
  <1>1. BaselineInductive => SenderPrefix
    <2> SUFFICES ASSUME BaselineInductive, NEW t \in applied, NEW u \in 0 .. t - 1,
                        txs[u].from = txs[t].from
                 PROVE  u \in applied
      BY DEF SenderPrefix
    <2>1. t \in 0 .. NumTxns - 1 /\ u \in 0 .. NumTxns - 1 /\ u < t
      BY NumTxnsAssumption DEF BaselineInductive, BaselineTypeOK, Passed
    <2>2. txs[u].nonce < txs[t].nonce
      BY <2>1 DEF BaselineInductive, WellFormed
    <2>3. txs[t].nonce < evm_db[txs[t].from].nonce
      BY <2>1 DEF BaselineInductive, CommittedByNonce
    <2>4. /\ txs[u].nonce \in Nat /\ txs[t].nonce \in Nat
          /\ evm_db[txs[t].from].nonce \in Nat
      BY <2>1 DEF BaselineInductive, BaselineTypeOK, SignedTransactions, AccountStates
    <2>5. txs[u].nonce < evm_db[txs[u].from].nonce
      BY <2>2, <2>3, <2>4
    <2>6. QED BY <2>1, <2>5 DEF BaselineInductive, CommittedByNonce
  <1>2. QED BY <1>1, BaselineInductiveInvariant, PTL

-----------------------------------------------------------------------------
(* The baseline against the ordered execution.                                 *)

\* The baseline's accounts are those of the ordered execution but for the fees,
\* as long as no fee can make a sender run out of funds.
BaselineLedger ==
    AmplyFunded =>
        \A a \in Addresses :
            LET account == LedgerAfter(txs, evm_next)[a] IN
            /\ evm_db[a].nonce = account.nonce
            /\ evm_db[a].balance + Fee * evm_db[a].nonce = account.balance


LEMMA FundedKept ==
    ASSUME UNCHANGED txs
    PROVE  AmplyFunded' <=> AmplyFunded
  BY DEF AmplyFunded

\* A sender that is amply funded can pay for the transfer the loop has reached:
\* what it has sent so far, and this one, are among what it sends in all.
LEMMA Affordable ==
    ASSUME BaselineInductive, Looping, AmplyFunded
    PROVE  evm_db[Current.from].balance >= 1 + Fee
  <1> DEFINE a == Current.from
             all == {t \in DOMAIN txs : txs[t].from = a}
             s == Cardinality(SentBy(a))
             r == Cardinality(ReceivedBy(a))
             c == Cardinality(all)
             price == 1 + Fee
  <1>1. /\ evm_next \in 0 .. NumTxns - 1 /\ a \in Addresses
        /\ applied \subseteq 0 .. NumTxns - 1 /\ evm_next \notin applied
    BY CurrentOK DEF SignedTransactions
  <1>2. DOMAIN txs = 0 .. NumTxns - 1
    BY DEF BaselineInductive, BaselineTypeOK
  <1>3. /\ IsFiniteSet(SentBy(a)) /\ s \in Nat /\ r \in Nat
        /\ IsFiniteSet(all) /\ c \in Nat
    <2>1. /\ SentBy(a) \in SUBSET (0 .. NumTxns - 1)
          /\ ReceivedBy(a) \in SUBSET (0 .. NumTxns - 1)
          /\ all \in SUBSET (0 .. NumTxns - 1)
      BY <1>1, <1>2 DEF SentBy, ReceivedBy
    <2>2. QED BY <2>1, IndicesFinite, NumTxnsAssumption
  <1>4. s + 1 <= c
    <2>1. evm_next \notin SentBy(a) /\ SentBy(a) \cup {evm_next} \subseteq all
      BY <1>1, <1>2 DEF SentBy, Current
    <2>2. Cardinality(SentBy(a) \cup {evm_next}) = s + 1
      BY <1>3, <2>1, FS_AddElement
    <2>3. QED BY <1>3, <2>1, <2>2, FS_Subset
  <1>5. price * c <= InitialBalance
    BY <1>1 DEF AmplyFunded
  <1>6. evm_db[a].balance + price * s = InitialBalance + r
    BY <1>1 DEF BaselineInductive, GasAccounted
  <1>7. evm_db[a].balance \in Nat
    BY <1>1 DEF BaselineInductive, BaselineTypeOK, AccountStates
  <1> HIDE DEF a, s, r, c
  <1>8. price \in Nat
    BY FeeAssumption
  <1>9. price * s + price <= price * c /\ price * s \in Nat /\ price * c \in Nat
    <2>1. PICK d \in Nat : c = s + 1 + d
      <3>1. c - (s + 1) \in Nat /\ c = s + 1 + (c - (s + 1))
        BY <1>3, <1>4
      <3>2. QED BY <3>1
    <2>2. price * c = price * s + price + price * d
      BY <1>3, <1>8, <2>1
    <2>3. price * d \in Nat /\ price * s \in Nat
      BY <1>3, <1>8, <2>1
    <2> HIDE DEF price
    <2>4. QED BY <1>8, <2>2, <2>3
  <1> HIDE DEF price
  <1>10. evm_db[a].balance >= price
    BY <1>3, <1>5, <1>6, <1>7, <1>8, <1>9, InitialBalanceAssumption
  <1>11. QED BY <1>10 DEF a, price

\* So it commits exactly what the ordered execution applies.
LEMMA AppliesInOrder ==
    ASSUME BaselineInductive, BaselineLedger, Looping, AmplyFunded
    PROVE  Current.signed /\ Valid(Current, evm_db[Current.from])
              <=> Succeeds(Current, LedgerAfter(txs, evm_next))
  <1> DEFINE a == Current.from
             account == LedgerAfter(txs, evm_next)[a]
  <1>1. a \in Addresses /\ Current.value = 1 /\ Current.nonce \in Nat
    BY CurrentOK DEF SignedTransactions
  <1>2. evm_db[a].nonce \in Nat /\ evm_db[a].balance \in Nat
    BY <1>1 DEF BaselineInductive, BaselineTypeOK, AccountStates
  <1>3. /\ evm_db[a].nonce = account.nonce
        /\ evm_db[a].balance + Fee * evm_db[a].nonce = account.balance
    BY <1>1 DEF BaselineLedger
  <1>4. Fee * evm_db[a].nonce \in Nat
    BY <1>2, FeeAssumption
  <1>5. evm_db[a].balance >= 1 + Fee
    BY Affordable
  <1> HIDE DEF a, account
  <1>6. account.balance >= 1
    BY <1>2, <1>3, <1>4, <1>5, FeeAssumption
  <1>7. Valid(Current, evm_db[a]) <=> Accepts(Current, account)
    BY <1>1, <1>3, <1>5, <1>6 DEF Valid, Accepts
  <1>8. QED BY <1>7 DEF Succeeds, a, account

\* A commit does to the accounts what the transfer does to the ledger, and
\* charges the fee.
LEMMA CommitKeepsLedger ==
    ASSUME BaselineInductive, BaselineLedger, TransactCommit
    PROVE  BaselineLedger'
  <1> SUFFICES ASSUME AmplyFunded'
               PROVE  \A a \in Addresses :
                         LET account == LedgerAfter(txs', evm_next')[a] IN
                         /\ evm_db'[a].nonce = account.nonce
                         /\ evm_db'[a].balance + Fee * evm_db'[a].nonce = account.balance
    BY DEF BaselineLedger
  <1> DEFINE tx == Current
             ledger == LedgerAfter(txs, evm_next)
             after == LedgerAfter(txs, evm_next + 1)
  <1>1. /\ Looping /\ tx.signed /\ Valid(tx, evm_db[tx.from])
        /\ txs' = txs /\ evm_next' = evm_next + 1
    BY DEF TransactCommit
  <1>2. AmplyFunded
    BY <1>1, FundedKept
  <1>3. /\ evm_next \in 0 .. NumTxns /\ evm_next \in Nat /\ tx = txs[evm_next]
        /\ tx.from \in Addresses /\ tx.to \in Addresses /\ tx.from # tx.to
        /\ tx.value = 1 /\ tx.nonce \in Nat
    BY <1>1, CurrentOK, NumTxnsAssumption DEF Current, SignedTransactions
  <1>4. Succeeds(tx, ledger)
    BY <1>1, <1>2, AppliesInOrder
  <1>5. ledger \in [Addresses -> AccountStates]
    BY <1>3, LedgerTyped, NumTxnsAssumption DEF BaselineInductive
  <1>6. after = [ledger EXCEPT ![tx.from] = Debit(tx, ledger[tx.from]),
                               ![tx.to] = Credit(tx, ledger[tx.to])]
    <2>1. after = Apply(tx, ledger)
      BY <1>3, LedgerAfterNext
    <2>2. QED BY <1>3, <1>4, <1>5, <2>1 DEF Apply
  <1>7. \A a \in Addresses :
           /\ evm_db[a].nonce = ledger[a].nonce
           /\ evm_db[a].balance + Fee * evm_db[a].nonce = ledger[a].balance
    BY <1>2 DEF BaselineLedger
  <1>8. \A a \in Addresses : evm_db[a].nonce \in Nat /\ evm_db[a].balance \in Nat
    BY DEF BaselineInductive, BaselineTypeOK, AccountStates
  <1>9. /\ evm_db' \in [Addresses -> AccountStates]
        /\ evm_db[tx.from].nonce = tx.nonce
        /\ evm_db'[tx.from].nonce = tx.nonce + 1
        /\ evm_db'[tx.from].balance + (1 + Fee) = evm_db[tx.from].balance
        /\ evm_db'[tx.to].nonce = evm_db[tx.to].nonce
        /\ evm_db'[tx.to].balance = evm_db[tx.to].balance + 1
        /\ \A a \in Addresses \ {tx.from, tx.to} : evm_db'[a] = evm_db[a]
    BY CommitEffect
  <1>10. \A a \in Addresses : evm_db'[a].nonce \in Nat /\ evm_db'[a].balance \in Nat
    BY <1>9 DEF AccountStates
  <1> HIDE DEF tx, ledger, after
  <1>11. ASSUME NEW a \in Addresses
         PROVE  /\ evm_db'[a].nonce = after[a].nonce
                /\ evm_db'[a].balance + Fee * evm_db'[a].nonce = after[a].balance
    <2>1. CASE a = tx.from
      <3>1. /\ after[a].nonce = ledger[a].nonce + 1
            /\ after[a].balance = ledger[a].balance - 1
        BY <1>3, <1>5, <1>6, <2>1 DEF Debit
      <3>2. /\ Fee * (tx.nonce + 1) = Fee * tx.nonce + Fee /\ Fee * tx.nonce \in Nat
        BY <1>3, FeeAssumption
      <3>3. evm_db[a].balance + Fee * tx.nonce = ledger[a].balance
        BY <1>3, <1>7, <1>9, <2>1
      <3>4. evm_db'[a].nonce = tx.nonce + 1
        BY <1>9, <2>1
      <3>5. evm_db'[a].nonce = after[a].nonce
        BY <1>3, <1>7, <1>9, <2>1, <3>1
      <3>6. evm_db'[a].balance + (1 + Fee) = evm_db[a].balance
        BY <1>9, <2>1
      <3>7. evm_db'[a].balance + (Fee * tx.nonce + Fee) = after[a].balance
        BY <1>8, <1>10, <3>1, <3>2, <3>3, <3>6, FeeAssumption
      <3>8. QED BY <3>2, <3>4, <3>5, <3>7
    <2>2. CASE a = tx.to
      <3>1. /\ after[a].nonce = ledger[a].nonce
            /\ after[a].balance = ledger[a].balance + 1
        BY <1>3, <1>5, <1>6, <2>2 DEF Credit
      <3>2. Fee * evm_db[a].nonce \in Nat
        BY <1>8, FeeAssumption
      <3>3. evm_db'[a].nonce = evm_db[a].nonce
        BY <1>9, <2>2
      <3>4. evm_db[a].balance + Fee * evm_db[a].nonce = ledger[a].balance
        BY <1>7
      <3>5. evm_db'[a].balance = evm_db[a].balance + 1
        BY <1>9, <2>2
      <3>6. evm_db'[a].balance + Fee * evm_db[a].nonce = after[a].balance
        BY <1>8, <3>1, <3>2, <3>4, <3>5
      <3>7. QED BY <1>7, <3>1, <3>3, <3>6
    <2>3. CASE a \notin {tx.from, tx.to}
      <3>1. after[a] = ledger[a]
        BY <1>5, <1>6, <2>3
      <3>2. QED BY <1>7, <1>9, <2>3, <3>1
    <2>4. QED BY <2>1, <2>2, <2>3
  <1>12. QED BY <1>1, <1>11 DEF after

\* A transaction that fails does so in the ordered execution too.
LEMMA FailureKeepsLedger ==
    ASSUME BaselineInductive, BaselineLedger, SkipUnverified \/ TransactError
    PROVE  BaselineLedger'
  <1> SUFFICES ASSUME AmplyFunded' PROVE BaselineLedger'
    BY DEF BaselineLedger
  <1>1. /\ Looping /\ UNCHANGED <<txs, evm_db>> /\ evm_next' = evm_next + 1
        /\ ~(Current.signed /\ Valid(Current, evm_db[Current.from]))
    BY DEF SkipUnverified, TransactError
  <1>2. AmplyFunded
    BY <1>1, FundedKept
  <1>3. ~Succeeds(Current, LedgerAfter(txs, evm_next)) /\ evm_next \in Nat
    BY <1>1, <1>2, AppliesInOrder, CurrentOK
  <1>4. LedgerAfter(txs, evm_next + 1) = LedgerAfter(txs, evm_next)
    BY <1>3, LedgerAfterNext DEF Apply, Current
  <1>5. LedgerAfter(txs', evm_next') = LedgerAfter(txs, evm_next)
    BY <1>1, <1>4
  <1>6. QED BY <1>1, <1>2, <1>5 DEF BaselineLedger

\* The loop, and what it has reached when it returns.
BaselineExact ==
    /\ BaselineInductive
    /\ BaselineLedger
    /\ returned => evm_next = NumTxns

LEMMA BaselineExactInit ==
    ASSUME BaselineInit
    PROVE  BaselineExact
  <1>1. BaselineInductive
    BY BaselineInitOK
  <1>2. evm_db = Genesis /\ evm_next = 0 /\ returned = FALSE
    BY DEF BaselineInit, BaselineStart
  <1>3. LedgerAfter(txs, evm_next) = Genesis
    BY <1>2, LedgerAfterZero
  <1>4. Fee * 0 = 0 /\ InitialBalance + 0 = InitialBalance
    BY FeeAssumption, InitialBalanceAssumption
  <1>5. BaselineLedger
    BY <1>2, <1>3, <1>4 DEF BaselineLedger, Genesis
  <1>6. QED BY <1>1, <1>2, <1>5 DEF BaselineExact

LEMMA BaselineExactFrame ==
    ASSUME BaselineExact, UNCHANGED <<txs, callVars>>
    PROVE  BaselineExact'
  <1>1. UNCHANGED <<txs, evm_db, fees, evm_next, evm_result, returned, applied>>
    BY DEF callVars
  <1>2. returned' \in BOOLEAN
    BY <1>1 DEF BaselineExact, BaselineInductive, BaselineTypeOK
  <1>3. BaselineInductive'
    BY <1>1, <1>2, BaselineFrame DEF BaselineExact
  <1>4. BaselineLedger'
    BY <1>1, FundedKept DEF BaselineExact, BaselineLedger
  <1>5. QED BY <1>1, <1>3, <1>4 DEF BaselineExact

LEMMA BaselineExactStep ==
    ASSUME BaselineExact, BaselineNext
    PROVE  BaselineExact'
  <1>1. BaselineInductive /\ BaselineLedger
    BY DEF BaselineExact
  <1>2. CASE SkipUnverified \/ TransactError
    <2>1. ~returned /\ returned' = returned
      BY <1>2 DEF SkipUnverified, TransactError, Looping
    <2>2. QED BY <1>1, <1>2, <2>1, FailureOK, FailureKeepsLedger DEF BaselineExact
  <1>3. CASE TransactCommit
    <2>1. ~returned /\ returned' = returned
      BY <1>3 DEF TransactCommit, Looping
    <2>2. QED BY <1>1, <1>3, <2>1, TransactCommitOK, CommitKeepsLedger DEF BaselineExact
  <1>4. CASE ReturnResult
    <2>1. /\ UNCHANGED <<txs, evm_db, fees, evm_next, evm_result, applied>>
          /\ returned' = TRUE /\ evm_next' = NumTxns
      BY <1>4 DEF ReturnResult
    <2>2. BaselineInductive'
      BY <1>1, <2>1, BaselineFrame
    <2>3. BaselineLedger'
      BY <1>1, <2>1, FundedKept DEF BaselineLedger
    <2>4. QED BY <2>1, <2>2, <2>3 DEF BaselineExact
  <1>5. QED BY <1>2, <1>3, <1>4 DEF BaselineNext

LEMMA BaselineIsExact == BaselineSpec => []BaselineExact
  <1>1. BaselineInit => BaselineExact
    BY BaselineExactInit
  <1>2. BaselineExact /\ [BaselineNext]_baselineVars => BaselineExact'
    BY BaselineExactStep, BaselineExactFrame DEF baselineVars
  <1>3. QED BY <1>1, <1>2, PTL DEF BaselineSpec

-----------------------------------------------------------------------------
(* A step of main or of a thread it has started is a step of one executor and  *)
(* leaves the others, and the workload, alone.                                 *)

LEMMA FdbKeepsWorkload ==
    ASSUME FdbMain \/ SetupFails \/ \E th \in Threads : ThreadStep(th)
    PROVE  txs' = txs
  <1>1. CASE FdbMain \/ SetupFails
    BY <1>1 DEF FdbMain, SetupFails, ClearDatabase, InitBatch, Spawn,
                Join, setupVars
  <1>2. CASE \E th \in Threads : ThreadStep(th)
    BY <1>2 DEF ThreadStep, VerifySigner, ThreadExits, ReadAccounts,
                ValidationFails, Wake, Commit, CommitUnknownApplied,
                CommitRetried, CommitFails, setupVars
  <1>3. QED BY <1>1, <1>2

LEMMA StmKeepsWorkload ==
    ASSUME NEW w \in Workers, WorkerLoop(w)
    PROVE  txs' = txs
  BY DEF WorkerLoop, ExecuteStep, VerifySignature, ReadAccount, RecordAccess,
         CheckLower, CollectStorageReaders, WriteVersion, Report

LEMMA BaselineKeepsWorkload ==
    ASSUME BaselineNext
    PROVE  txs' = txs
  BY DEF BaselineNext, SkipUnverified, TransactCommit, TransactError, ReturnResult

LEMMA SeqKeepsWorkload ==
    ASSUME RunMdbxSequential
    PROVE  txs' = txs
  BY DEF RunMdbxSequential, Begin, Reject, DebitSender, CreditReceiver, Return,
         Interrupted

LEMMA BatchKeepsWorkload ==
    ASSUME RunMdbxBatched
    PROVE  txs' = txs
  BY DEF RunMdbxBatched, BatchBegin, CacheReject, CacheTransfer, CommitCache,
         BatchReturn, BatchInterrupted

\* The steps at which a result is printed.
RowStep == SequentialRow \/ MdbxSequentialRow \/ MdbxBatchedRow \/ BlockStmRow \/ FdbRow

\* What a step that is no executor's own, or FoundationDB's, leaves alone.
LEMMA RowStepFrame ==
    ASSUME RowStep
    PROVE  UNCHANGED <<txs, selected, callVars, seqVars, batchVars, stmVars>>
  BY DEF RowStep, SequentialRow, MdbxSequentialRow, MdbxBatchedRow, BlockStmRow, FdbRow, Push

LEMMA QuietFrame ==
    ASSUME \/ SkipSection \/ Panic \/ RunFdbMain
           \/ \E th \in Threads : RunFdb(th)
           \/ UNCHANGED benchVars
    PROVE  UNCHANGED <<txs, selected, all_results, callVars, seqVars, batchVars, stmVars>>
  <1>1. CASE SkipSection \/ Panic
    BY <1>1 DEF SkipSection, Panic
  <1>2. CASE RunFdbMain
    BY <1>2, FdbKeepsWorkload DEF RunFdbMain, mainVars
  <1>3. CASE \E th \in Threads : RunFdb(th)
    BY <1>3, FdbKeepsWorkload DEF RunFdb, mainVars
  <1>4. CASE UNCHANGED benchVars
    BY <1>4 DEF benchVars, mainVars
  <1>5. QED BY <1>1, <1>2, <1>3, <1>4

\* Every step is one of these.
LEMMA BenchCases ==
    ASSUME [BenchNext]_benchVars
    PROVE  \/ RunSequential
              /\ UNCHANGED <<txs, selected, all_results, seqVars, batchVars, stmVars>>
           \/ RunMdbxSequential
              /\ UNCHANGED <<txs, selected, all_results, callVars, batchVars, stmVars>>
           \/ RunMdbxBatched
              /\ UNCHANGED <<txs, selected, all_results, callVars, seqVars, stmVars>>
           \/ (\E w \in Workers : WorkerLoop(w))
              /\ UNCHANGED <<txs, selected, all_results, callVars, seqVars, batchVars>>
           \/ RowStep
              /\ UNCHANGED <<txs, selected, callVars, seqVars, batchVars, stmVars>>
           \/ UNCHANGED <<txs, selected, all_results, callVars, seqVars, batchVars, stmVars>>
  <1>1. CASE RunSequential
    BY <1>1, BaselineKeepsWorkload DEF RunSequential, mainVars
  <1>2. CASE RunMdbxSequential
    BY <1>2, SeqKeepsWorkload DEF RunMdbxSequential, mainVars
  <1>3. CASE RunMdbxBatched
    BY <1>3, BatchKeepsWorkload DEF RunMdbxBatched, mainVars
  <1>4. CASE \E w \in Workers : RunBlockStm(w)
    BY <1>4, StmKeepsWorkload DEF RunBlockStm, mainVars
  <1>5. CASE RowStep
    BY <1>5, RowStepFrame
  <1>6. CASE \/ SkipSection \/ Panic \/ RunFdbMain
             \/ \E th \in Threads : RunFdb(th)
             \/ UNCHANGED benchVars
    BY <1>6, QuietFrame
  <1>7. QED
    BY <1>1, <1>2, <1>3, <1>4, <1>5, <1>6 DEF BenchNext, MainStep, RowStep

\* What Workload::generate guarantees, whatever it draws.
Drawn ==
    /\ txs \in Workloads(NumTxns, SigOutcomes)
    /\ \A t \in DOMAIN txs : {txs[t].from, txs[t].to} \subseteq HotAccounts(hot_accounts)

LEMMA WorkloadDrawn == BenchInit => Drawn
  BY DEF BenchInit, Generated, Drawn

LEMMA BenchStarts ==
    ASSUME BenchInit
    PROVE  BaselineInit /\ SeqInit /\ BatchInit /\ ExecInit
  <1>1. txs \in Workloads(NumTxns, SigOutcomes)
    BY WorkloadDrawn DEF Drawn
  <1>2. QED
    BY <1>1 DEF BenchInit, BaselineInit, SeqInit, BatchInit, ExecInit

\* main uses the in-memory baseline, both MDBX executors and Block-STM as their
\* own modules specify them: whatever sections are selected, and whatever
\* happens in the others, an executor starts from its own initial state on a
\* generated workload and takes its own steps only.  So what is proved of the
\* executors holds of them inside the benchmark.
THEOREM BenchRunsExecutors ==
    BenchSpec => BaselineSpec /\ SeqSpec /\ BatchSpec /\ ExecSpec
  <1>1. BenchInit => BaselineInit /\ SeqInit /\ BatchInit /\ ExecInit
    BY BenchStarts
  <1>2. [BenchNext]_benchVars => [BaselineNext]_baselineVars
    <2> SUFFICES ASSUME [BenchNext]_benchVars PROVE [BaselineNext]_baselineVars
      OBVIOUS
    <2>1. RunSequential \/ UNCHANGED <<txs, callVars>>
      BY BenchCases
    <2>2. QED BY <2>1 DEF RunSequential, baselineVars
  <1>3. [BenchNext]_benchVars => [SeqNext]_seqVars
    <2> SUFFICES ASSUME [BenchNext]_benchVars PROVE [SeqNext]_seqVars
      OBVIOUS
    <2>1. RunMdbxSequential \/ UNCHANGED <<txs, seqVars>>
      BY BenchCases
    <2>2. CASE RunMdbxSequential
      BY <2>2 DEF RunMdbxSequential, SeqNext
    <2>3. CASE UNCHANGED <<txs, seqVars>>
      BY <2>3 DEF seqVars
    <2>4. QED BY <2>1, <2>2, <2>3
  <1>4. [BenchNext]_benchVars => [BatchNext]_batchVars
    <2> SUFFICES ASSUME [BenchNext]_benchVars PROVE [BatchNext]_batchVars
      OBVIOUS
    <2>1. RunMdbxBatched \/ UNCHANGED <<txs, batchVars>>
      BY BenchCases
    <2>2. CASE RunMdbxBatched
      BY <2>2 DEF RunMdbxBatched, BatchNext
    <2>3. CASE UNCHANGED <<txs, batchVars>>
      BY <2>3 DEF batchVars
    <2>4. QED BY <2>1, <2>2, <2>3
  <1>5. [BenchNext]_benchVars => [ExecNext]_execVars
    <2> SUFFICES ASSUME [BenchNext]_benchVars PROVE [ExecNext]_execVars
      OBVIOUS
    <2>1. (\E w \in Workers : WorkerLoop(w)) \/ UNCHANGED <<txs, stmVars>>
      BY BenchCases
    <2>2. CASE \E w \in Workers : WorkerLoop(w)
      BY <2>2 DEF ExecNext
    <2>3. CASE UNCHANGED <<txs, stmVars>>
      BY <2>3 DEF stmVars, execVars
    <2>4. QED BY <2>1, <2>2, <2>3
  <1>6. QED
    BY <1>1, <1>2, <1>3, <1>4, <1>5, PTL
    DEF BenchSpec, BaselineSpec, SeqSpec, BatchSpec, ExecSpec

\* The baseline's accounting and its per-sender order hold inside the benchmark.
THEOREM BenchBaseline == BenchSpec => []GasAccounted /\ []SenderPrefix
  BY BenchRunsExecutors, GasIsAccounted, SenderPrefixKept, PTL

-----------------------------------------------------------------------------
(* The FoundationDB section: one executor after the other on one keyspace.     *)

\* main has got past FdbRow with thread counts left.
NextThreadCount ==
    /\ num_threads # MaxThreads /\ num_threads' = num_threads + 1
    /\ UNCHANGED <<txs, fdb_db>>
    /\ FdbStart'

LEMMA FdbCases ==
    ASSUME [BenchNext]_benchVars
    PROVE  [FdbNext]_fdbVars \/ NextThreadCount
  <1>1. CASE RunFdbMain \/ \E th \in Threads : RunFdb(th)
    BY <1>1 DEF RunFdbMain, RunFdb, FdbNext
  <1>2. CASE FdbRow
    <2>1. CASE num_threads = MaxThreads
      BY <1>2, <2>1 DEF FdbRow
    <2>2. CASE num_threads # MaxThreads
      BY <1>2, <2>2 DEF FdbRow, Push, NextThreadCount, FdbStart
    <2>3. QED BY <2>1, <2>2
  <1>3. CASE SkipSection \/ Panic \/ UNCHANGED benchVars
    BY <1>3 DEF SkipSection, Panic, benchVars
  <1>4. CASE SequentialRow \/ MdbxSequentialRow \/ MdbxBatchedRow \/ BlockStmRow
    BY <1>4 DEF SequentialRow, MdbxSequentialRow, MdbxBatchedRow, BlockStmRow
  <1>5. CASE \/ RunSequential \/ RunMdbxSequential \/ RunMdbxBatched
             \/ \E w \in Workers : RunBlockStm(w)
    BY <1>5 DEF RunSequential, RunMdbxSequential, RunMdbxBatched, RunBlockStm
  <1>6. QED BY <1>1, <1>2, <1>3, <1>4, <1>5 DEF BenchNext, MainStep

FdbInv == FdbInductive /\ OnlySignedRun /\ SliceInv

LEMMA FdbNewInv == FdbNew => FdbInv
  BY FdbNewOK, SignedInit, SliceInvInit DEF FdbInv

LEMMA FdbInvInit == BenchInit => FdbInv
  <1> SUFFICES ASSUME BenchInit PROVE FdbNew
    BY FdbNewInv
  <1>1. WellFormed(txs, NumTxns)
    BY FdbWorkloadsWellFormed, WorkloadDrawn DEF Drawn
  <1>2. num_threads \in 1 .. MaxThreads
    BY MaxThreadsAssumption DEF BenchInit
  <1>3. fdb_db \in [{} -> AccountStates]
    BY DEF BenchInit, NoKeys
  <1>4. QED BY <1>1, <1>2, <1>3 DEF BenchInit, FdbNew

\* The invariants of the FoundationDB executor survive a change of the thread
\* count: whatever the keyspace holds, the next executor starts as a new one.
LEMMA FdbInvStep == FdbInv /\ [BenchNext]_benchVars => FdbInv'
  <1>1. FdbInv /\ [FdbNext]_fdbVars => FdbInv'
    BY FdbNextOK, SignedStep, SliceStep DEF FdbInv
  <1>2. FdbNew' => FdbInv'
    BY FdbNewInv, PTL
  <1>3. ASSUME FdbInv, NextThreadCount PROVE FdbNew'
    <2>1. FdbTypeOK /\ WellFormed(txs, NumTxns)
      BY <1>3 DEF FdbInv, FdbInductive, SetupFirst
    <2>2. WellFormed(txs, NumTxns)'
      BY <1>3, <2>1 DEF NextThreadCount, WellFormed
    <2>3. num_threads' \in 1 .. MaxThreads
      BY <1>3, <2>1, MaxThreadsAssumption DEF NextThreadCount, FdbTypeOK
    <2>4. \E stored \in SUBSET Addresses : fdb_db' \in [stored -> AccountStates]
      BY <1>3, <2>1 DEF NextThreadCount, FdbTypeOK
    <2>5. QED BY <1>3, <2>2, <2>3, <2>4 DEF NextThreadCount, FdbNew
  <1>4. QED BY <1>1, <1>2, <1>3, FdbCases

\* main stays within its sections.
MainTypes == section \in 1 .. Len(Sections) + 1 /\ panicked \in BOOLEAN

LEMMA MainTypesStep ==
    ASSUME MainTypes, [BenchNext]_benchVars
    PROVE  MainTypes'
  <1>1. Len(Sections) = 5
    BY DEF Sections
  <1>2. CASE SkipSection \/ RowStep
    <2>1. panicked' = panicked /\ section' \in {section, section + 1} /\ ~(section > 5)
      BY <1>1, <1>2
      DEF SkipSection, RowStep, SequentialRow, MdbxSequentialRow, MdbxBatchedRow,
          BlockStmRow, FdbRow, Push, NextSection, In, AllSectionsDone
    <2>2. QED BY <1>1, <2>1 DEF MainTypes
  <1>3. CASE Panic
    BY <1>1, <1>3 DEF Panic, MainTypes
  <1>4. CASE UNCHANGED <<section, panicked>>
    BY <1>4 DEF MainTypes
  <1>5. QED
    BY <1>2, <1>3, <1>4
    DEF BenchNext, MainStep, RowStep, RunSequential, RunMdbxSequential, RunMdbxBatched,
        RunBlockStm, RunFdbMain, RunFdb, benchVars, mainVars

\* Type correctness of the benchmark: whatever the sections selected and the
\* thread counts, every executor's variables keep their types beside the others,
\* and main stays within its sections.
THEOREM BenchTypeCorrect == BenchSpec => []BenchTypeOK
  <1>1. BenchSpec => []BaselineTypeOK
    <2>1. BaselineInductive => BaselineTypeOK
      BY DEF BaselineInductive
    <2>2. QED BY <2>1, BenchRunsExecutors, BaselineInductiveInvariant, PTL
  <1>2. BenchSpec => []SeqTypeOK /\ []BatchTypeOK /\ []ExecTypeOK
    BY BenchRunsExecutors, SeqTypeCorrect, BatchTypeCorrect, ExecTypeCorrect, PTL
  <1>3. BenchSpec => []FdbTypeOK
    <2>1. FdbInv => FdbTypeOK
      BY DEF FdbInv, FdbInductive
    <2>2. QED BY <2>1, FdbInvInit, FdbInvStep, PTL DEF BenchSpec
  <1>4. BenchSpec => []MainTypes
    <2>1. Len(Sections) = 5
      BY DEF Sections
    <2>2. BenchInit => MainTypes
      <3>1. BenchInit => section = 1 /\ panicked = FALSE
        BY DEF BenchInit
      <3>2. 1 \in 1 .. Len(Sections) + 1
        BY <2>1
      <3>3. QED BY <3>1, <3>2 DEF MainTypes
    <2>3. MainTypes /\ [BenchNext]_benchVars => MainTypes'
      BY MainTypesStep
    <2>4. QED BY <2>2, <2>3, PTL DEF BenchSpec
  <1>5. BaselineTypeOK /\ SeqTypeOK /\ BatchTypeOK /\ ExecTypeOK /\ FdbTypeOK /\ MainTypes
           => BenchTypeOK
    BY DEF BenchTypeOK, MainTypes
  <1>6. QED BY <1>1, <1>2, <1>3, <1>4, <1>5, PTL

-----------------------------------------------------------------------------
(* The totals of a result are sums over blocks, or over threads.               *)

Pick(s) == CHOOSE i \in s : TRUE

IsSum(g, f) ==
    g = [s \in SUBSET DOMAIN f |->
            IF s = {} THEN 0 ELSE f[Pick(s)] + g[s \ {Pick(s)}]]

LEMMA SumFunctionDef ==
    \A f : Fun!SumFunction(f) = (CHOOSE g : IsSum(g, f))[DOMAIN f]
  BY DEF Fun!SumFunction, Fun!SumFunctionOnSet, Fun!FoldFunctionOnSet,
         Fun!MapThenFoldSet, IsSum, Pick

Together(P, s) == UNION {P[i] : i \in s}

\* P[i], for i \in D, are disjoint sets of transactions.
Parts(n, D, P) ==
    /\ \A i \in D : P[i] \in SUBSET (0 .. n - 1)
    /\ \A i, j \in D : i # j => P[i] \cap P[j] = {}

\* One of them, and the others.
LEMMA DisjointParts ==
    ASSUME NEW n \in Nat, NEW D, NEW P, Parts(n, D, P),
           NEW s \in SUBSET D, NEW i \in s
    PROVE  Cardinality(Together(P, s))
              = Cardinality(P[i]) + Cardinality(Together(P, s \ {i}))
  <1> DEFINE R == Together(P, s \ {i})
             Q == P[i]
  <1>1. /\ R \in SUBSET (0 .. n - 1) /\ Q \in SUBSET (0 .. n - 1)
        /\ Together(P, s) = Q \cup R
        /\ Q \cap R = {}
    BY DEF Together, Parts
  <1> HIDE DEF R, Q
  <1>2. IsFiniteSet(R) /\ IsFiniteSet(Q) /\ Cardinality(R) \in Nat /\ Cardinality(Q) \in Nat
    BY <1>1, IndicesFinite
  <1>3. Cardinality(Q \cup R) = Cardinality(Q) + Cardinality(R) - Cardinality(Q \cap R)
    BY <1>2, FS_Union
  <1>4. Cardinality(Q \cap R) = 0
    BY <1>1, FS_EmptySet
  <1>5. Cardinality(Q \cup R) = Cardinality(Q) + Cardinality(R)
    BY <1>2, <1>3, <1>4
  <1>6. QED BY <1>1, <1>5 DEF R, Q

\* The sizes of disjoint parts add up to that of the whole.
LEMMA SumOfParts ==
    ASSUME NEW n \in Nat, NEW f, IsFiniteSet(DOMAIN f), NEW P,
           Parts(n, DOMAIN f, P), \A i \in DOMAIN f : f[i] = Cardinality(P[i])
    PROVE  Fun!SumFunction(f) = Cardinality(Together(P, DOMAIN f))
  <1> DEFINE D == DOMAIN f
             size(s) == Cardinality(Together(P, s))
             g0 == [s \in SUBSET D |-> size(s)]
             g == CHOOSE h : IsSum(h, f)
             Bad == {m \in Nat : \E s \in SUBSET D : Cardinality(s) = m /\ g[s] # size(s)}
  <1>1. ASSUME NEW s \in SUBSET D, NEW i \in s
        PROVE  size(s) = f[i] + size(s \ {i})
    <2>1. Cardinality(Together(P, s))
             = Cardinality(P[i]) + Cardinality(Together(P, s \ {i}))
      BY DisjointParts
    <2>2. QED BY <2>1
  <1>2. size({}) = 0
    <2>1. Together(P, {}) = {}
      BY DEF Together
    <2>2. QED BY <2>1, FS_EmptySet
  <1>3. \A s \in SUBSET D : s # {} => Pick(s) \in s
    BY DEF Pick
  <1> HIDE DEF size
  <1>4. IsSum(g0, f)
    <2>1. ASSUME NEW s \in SUBSET D
          PROVE  size(s) = IF s = {} THEN 0 ELSE f[Pick(s)] + g0[s \ {Pick(s)}]
      <3>1. CASE s = {}
        BY <1>2, <3>1
      <3>2. CASE s # {}
        <4>1. size(s) = f[Pick(s)] + size(s \ {Pick(s)})
          BY <1>1, <1>3, <3>2
        <4>2. s \ {Pick(s)} \in SUBSET D
          OBVIOUS
        <4>3. g0[s \ {Pick(s)}] = size(s \ {Pick(s)})
          BY <4>2
        <4>4. QED BY <3>2, <4>1, <4>3
      <3>3. QED BY <3>1, <3>2
    <2>2. QED BY <2>1 DEF IsSum
  <1>5. IsSum(g, f)
    BY <1>4
  <1> HIDE DEF g, g0
  <1>6. ASSUME NEW s \in SUBSET D
        PROVE  g[s] = IF s = {} THEN 0 ELSE f[Pick(s)] + g[s \ {Pick(s)}]
    BY <1>5 DEF IsSum
  <1>7. \A s \in SUBSET D : IsFiniteSet(s) /\ Cardinality(s) \in Nat
    BY FS_Subset, FS_CardinalityType
  <1>8. Bad = {}
    <2> SUFFICES ASSUME Bad # {} PROVE FALSE
      OBVIOUS
    <2>1. PICK m \in Bad : \A j \in Bad : m <= j
      <3>1. Bad \in SUBSET Nat
        OBVIOUS
      <3> HIDE DEF Bad
      <3>2. QED BY <3>1, LeastNatural
    <2>2. PICK s \in SUBSET D : Cardinality(s) = m /\ g[s] # size(s)
      BY <2>1
    <2>3. s # {}
      BY <1>2, <1>6, <2>2
    <2> DEFINE i == Pick(s)
               r == s \ {i}
    <2>4. i \in s /\ r \in SUBSET D
      BY <1>3, <2>3
    <2>5. g[s] = f[i] + g[r]
      BY <1>6, <2>3
    <2> HIDE DEF i
    <2>6. size(s) = f[i] + size(r)
      BY <1>1, <2>4
    <2>7. Cardinality(r) = m - 1 /\ Cardinality(r) \in Nat
      <3>1. Cardinality(r) = Cardinality(s) - 1
        BY <1>7, <2>4, FS_RemoveElement
      <3> HIDE DEF r
      <3>2. QED BY <1>7, <2>2, <2>4, <3>1
    <2>8. g[r] # size(r)
      BY <2>2, <2>5, <2>6
    <2> HIDE DEF r
    <2>9. Cardinality(r) \in Bad
      BY <2>4, <2>7, <2>8
    <2>10. m \in Nat /\ m <= Cardinality(r)
      BY <2>1, <2>9
    <2>11. QED BY <2>7, <2>10
  <1>9. g[D] = size(D)
    BY <1>7, <1>8
  <1>10. Fun!SumFunction(f) = g[D]
    BY SumFunctionDef DEF g
  <1>11. QED BY <1>9, <1>10 DEF size

\* Block b of the workload.
BlockOf(b) == BlockStart(b - 1) .. BlockStart(b) - 1

\* The blocks are disjoint and, when all of them have been executed, make up the
\* workload.
LEMMA BlocksAreParts ==
    ASSUME NEW n \in Nat, BlockStart(n) = NumTxns, NEW P, P = [b \in 1 .. n |-> BlockOf(b)]
    PROVE  Parts(NumTxns, 1 .. n, P) /\ Together(P, 1 .. n) = 0 .. NumTxns - 1
  <1>1. ASSUME NEW i \in Nat, NEW j \in Nat, i <= j
        PROVE  /\ BlockStart(i) \in 0 .. NumTxns /\ BlockStart(j) \in 0 .. NumTxns
               /\ BlockStart(i) <= BlockStart(j)
    <2>1. /\ i * BlockSize \in Nat /\ j * BlockSize \in Nat
          /\ i * BlockSize <= j * BlockSize
      BY <1>1, TimesMonotone, BlockSizeAssumption
    <2>2. BlockStart(i) \in 0 .. NumTxns /\ BlockStart(j) \in 0 .. NumTxns
      BY BlockStarts
    <2>3. QED BY <2>1, <2>2, NumTxnsAssumption DEF BlockStart
  <1>2. ASSUME NEW i \in 1 .. n PROVE P[i] \in SUBSET (0 .. NumTxns - 1)
    <2>1. i \in Nat /\ i - 1 \in Nat
      OBVIOUS
    <2>2. BlockStart(i) \in 0 .. NumTxns /\ BlockStart(i - 1) \in 0 .. NumTxns
      BY <2>1, BlockStarts
    <2>3. QED BY <2>2, NumTxnsAssumption DEF BlockOf
  <1>3. ASSUME NEW i \in 1 .. n, NEW j \in 1 .. n, i < j PROVE P[i] \cap P[j] = {}
    <2>1. i \in Nat /\ j - 1 \in Nat /\ i <= j - 1 /\ j \in Nat /\ i - 1 \in Nat
      BY <1>3
    <2>2. BlockStart(i) <= BlockStart(j - 1)
      BY <1>1, <2>1
    <2>3. /\ BlockStart(i) \in 0 .. NumTxns /\ BlockStart(i - 1) \in 0 .. NumTxns
          /\ BlockStart(j) \in 0 .. NumTxns /\ BlockStart(j - 1) \in 0 .. NumTxns
      BY <2>1, BlockStarts
    <2>4. QED BY <2>2, <2>3, NumTxnsAssumption DEF BlockOf
  <1>4. Parts(NumTxns, 1 .. n, P)
    <2>1. ASSUME NEW i \in 1 .. n, NEW j \in 1 .. n, i # j PROVE P[i] \cap P[j] = {}
      <3>1. i < j \/ j < i
        BY <2>1
      <3>2. P[j] \cap P[i] = P[i] \cap P[j]
        OBVIOUS
      <3>3. QED BY <1>3, <3>1, <3>2
    <2>2. QED BY <1>2, <2>1 DEF Parts
  <1>5. ASSUME NEW t \in 0 .. NumTxns - 1 PROVE t \in Together(P, 1 .. n)
    <2> DEFINE d == t \div BlockSize
    <2>1. /\ t \in Nat /\ t < NumTxns /\ d \in Nat
          /\ d * BlockSize <= t /\ t < d * BlockSize + BlockSize
      BY Quotient, BlockSizeAssumption, NumTxnsAssumption
    <2> HIDE DEF d
    <2>2. /\ d * BlockSize \in Nat /\ (d + 1) * BlockSize = d * BlockSize + BlockSize
          /\ BlockStart(d) <= d * BlockSize /\ BlockStart(d) \in 0 .. NumTxns
          /\ BlockStart(d + 1) \in 0 .. NumTxns
      BY <2>1, BlockStarts
    <2>3. BlockStart(d) <= t
      BY <2>1, <2>2
    <2>4. t < BlockStart(d + 1)
      BY <2>1, <2>2, BlockSizeAssumption, NumTxnsAssumption DEF BlockStart
    <2>5. d < n
      <3> SUFFICES ASSUME n <= d PROVE FALSE
        BY <2>1
      <3>1. NumTxns <= BlockStart(d)
        BY <1>1, <2>1
      <3>2. QED BY <2>1, <2>2, <2>3, <3>1, NumTxnsAssumption
    <2>6. d + 1 \in 1 .. n /\ (d + 1) - 1 = d
      BY <2>1, <2>5
    <2>7. t \in P[d + 1]
      BY <2>1, <2>2, <2>3, <2>4, <2>6 DEF BlockOf
    <2>8. QED BY <2>6, <2>7 DEF Together
  <1>6. Together(P, 1 .. n) \subseteq 0 .. NumTxns - 1
    BY <1>2 DEF Together
  <1>7. QED BY <1>4, <1>5, <1>6

LEMMA WholeWorkload == Cardinality(0 .. NumTxns - 1) = NumTxns
  <1>1. 0 \in Int /\ NumTxns - 1 \in Int
    BY NumTxnsAssumption
  <1>2. Cardinality(0 .. NumTxns - 1)
           = IF 0 > NumTxns - 1 THEN 0 ELSE (NumTxns - 1) - 0 + 1
    BY <1>1, FS_Interval
  <1>3. QED BY <1>2, NumTxnsAssumption

\* Counts that are all zero.
LEMMA SumOfZeros ==
    ASSUME NEW f, IsFiniteSet(DOMAIN f), \A i \in DOMAIN f : f[i] = 0
    PROVE  Fun!SumFunction(f) = 0
  <1> DEFINE P == [i \in DOMAIN f |-> {}]
  <1>1. Parts(0, DOMAIN f, P)
    BY DEF Parts
  <1>2. \A i \in DOMAIN f : f[i] = Cardinality(P[i])
    BY FS_EmptySet
  <1>3. Together(P, DOMAIN f) = {}
    BY DEF Together
  <1> HIDE DEF P
  <1>4. Fun!SumFunction(f) = Cardinality(Together(P, DOMAIN f))
    BY <1>1, <1>2, SumOfParts
  <1>5. QED BY <1>3, <1>4, FS_EmptySet

\* MultiBlockResult, when every transaction of the workload is applied.
LEMMA BatchTotals ==
    ASSUME BatchTypeOK, BlockResultsExact, bat_pc = "returned",
           AppliedInOrder(txs) = 0 .. NumTxns - 1
    PROVE  TotalSuccessful = NumTxns /\ TotalFailed = 0
  <1> DEFINE n == Len(bat_blocks)
             P == [b \in 1 .. n |-> BlockOf(b)]
             f == [k \in DOMAIN bat_blocks |-> bat_blocks[k].successful]
             g == [k \in DOMAIN bat_blocks |-> bat_blocks[k].failed]
  <1>1. /\ n \in Nat /\ DOMAIN bat_blocks = 1 .. n /\ DOMAIN f = 1 .. n /\ DOMAIN g = 1 .. n
        /\ \A b \in 1 .. n : /\ f[b] = bat_blocks[b].successful /\ f[b] \in Nat
                             /\ g[b] = bat_blocks[b].failed /\ g[b] \in Nat
    <2> DEFINE Results == [successful : 0 .. BlockSize, failed : 0 .. BlockSize]
    <2>1. bat_blocks \in Seq(Results)
      BY DEF BatchTypeOK
    <2>2. n \in Nat /\ DOMAIN bat_blocks = 1 .. n
      BY <2>1
    <2> HIDE DEF Results
    <2>3. \A b \in DOMAIN bat_blocks : bat_blocks[b] \in Results
      BY <2>1
    <2>4. QED BY <2>2, <2>3, BlockSizeAssumption DEF Results
  <1>2. BlockStart(n) = NumTxns
    BY DEF BlockResultsExact
  <1>3. ASSUME NEW b \in 1 .. n
        PROVE  /\ bat_blocks[b].successful = Cardinality(AppliedInOrder(txs) \cap BlockOf(b))
               /\ bat_blocks[b].successful + bat_blocks[b].failed = Cardinality(BlockOf(b))
    BY DEF BlockResultsExact, BlockOf
  <1> HIDE DEF n, f, g, P
  <1>4. Parts(NumTxns, 1 .. n, P) /\ Together(P, 1 .. n) = 0 .. NumTxns - 1
    BY <1>1, <1>2, BlocksAreParts DEF P
  <1>5. ASSUME NEW b \in 1 .. n PROVE f[b] = Cardinality(P[b]) /\ g[b] = 0
    <2>1. P[b] = BlockOf(b)
      BY DEF P
    <2>2. AppliedInOrder(txs) \cap BlockOf(b) = BlockOf(b)
      BY <1>4, <2>1 DEF Parts
    <2>3. f[b] = Cardinality(P[b]) /\ f[b] + g[b] = f[b]
      BY <1>1, <1>3, <2>1, <2>2
    <2>4. QED BY <1>1, <2>3
  <1>6. IsFiniteSet(1 .. n)
    <2>1. 1 \in Int /\ n \in Int
      BY <1>1
    <2>2. QED BY <2>1, FS_Interval
  <1>7. Fun!SumFunction(f) = NumTxns
    <2>1. Fun!SumFunction(f) = Cardinality(Together(P, 1 .. n))
      BY <1>1, <1>4, <1>5, <1>6, SumOfParts, NumTxnsAssumption
    <2>2. QED BY <1>4, <2>1, WholeWorkload
  <1>8. Fun!SumFunction(g) = 0
    BY <1>1, <1>5, <1>6, SumOfZeros
  <1>9. QED BY <1>7, <1>8 DEF TotalSuccessful, TotalFailed, f, g

\* ParallelExecutionResult, when every signature verifies.
LEMMA FdbTotals ==
    ASSUME FdbInductive, SliceInv, fdb_stage = "done",
           \A t \in 0 .. NumTxns - 1 : txs[t].signed
    PROVE  Fun!SumFunction(fdb_successful) = NumTxns /\ Fun!SumFunction(fdb_failed) = 0
  <1> DEFINE P == [th \in Threads |-> IF th \in Spawned THEN Handled(th) ELSE {}]
  <1>1. /\ DOMAIN fdb_successful = Threads /\ DOMAIN fdb_failed = Threads
        /\ \A th \in Threads : fdb_successful[th] \in Nat /\ fdb_failed[th] \in Nat
    BY DEF FdbInductive, FdbTypeOK
  <1>2. IsFiniteSet(Threads) /\ Threads \subseteq Nat
    BY FS_Interval, MaxThreadsAssumption DEF Threads
  <1>3. ASSUME NEW th \in Spawned
        PROVE  /\ th \in Threads /\ P[th] = StartIdx(th) .. EndIdx(th) - 1
               /\ StartIdx(th) \in Nat /\ EndIdx(th) \in 0 .. NumTxns
               /\ StartIdx(th) <= EndIdx(th)
               /\ fdb_successful[th] = Cardinality(P[th])
               /\ fdb_successful[th] + fdb_failed[th] = EndIdx(th) - StartIdx(th)
    <2>1. th \in Threads
      BY DEF Spawned
    <2>2. /\ StartIdx(th) \in Nat /\ EndIdx(th) \in Nat /\ EndIdx(th) <= NumTxns
          /\ StartIdx(th) <= EndIdx(th)
      BY <2>1, SliceBounds
    <2>3. Progress(th) /\ fdb_pos[th] = EndIdx(th)
      BY DEF SliceInv, Started, InSlice
    <2>4. P[th] = Handled(th)
      BY <2>1
    <2>5. Handled(th) = StartIdx(th) .. EndIdx(th) - 1
      BY <2>2, <2>3, NumTxnsAssumption DEF Handled
    <2>6. QED BY <2>1, <2>2, <2>3, <2>4, <2>5, NumTxnsAssumption DEF Progress
  <1>4. ASSUME NEW th \in Threads, th \notin Spawned
        PROVE  P[th] = {} /\ fdb_successful[th] = 0 /\ fdb_failed[th] = 0
    BY <1>4 DEF SliceInv, Unused
  <1> HIDE DEF P
  <1>5. ASSUME NEW th \in Threads
        PROVE  fdb_successful[th] = Cardinality(P[th]) /\ fdb_failed[th] = 0
    <2>1. CASE th \in Spawned
      <3>1. Cardinality(P[th]) = EndIdx(th) - StartIdx(th)
        <4>1. StartIdx(th) \in Int /\ EndIdx(th) - 1 \in Int
          BY <1>3, <2>1
        <4>2. Cardinality(P[th]) = IF StartIdx(th) > EndIdx(th) - 1 THEN 0
                                   ELSE (EndIdx(th) - 1) - StartIdx(th) + 1
          BY <1>3, <2>1, <4>1, FS_Interval
        <4>3. QED BY <1>3, <2>1, <4>2, NumTxnsAssumption
      <3>2. QED BY <1>1, <1>3, <2>1, <3>1, NumTxnsAssumption
    <2>2. CASE th \notin Spawned
      BY <1>4, <2>2, FS_EmptySet
    <2>3. QED BY <2>1, <2>2
  <1>6. Parts(NumTxns, Threads, P)
    <2>1. ASSUME NEW th \in Threads PROVE P[th] \in SUBSET (0 .. NumTxns - 1)
      BY <1>3, <1>4, NumTxnsAssumption
    <2>2. ASSUME NEW i \in Threads, NEW j \in Threads, i < j PROVE P[i] \cap P[j] = {}
      <3>1. CASE i \notin Spawned \/ j \notin Spawned
        BY <1>4, <3>1
      <3>2. CASE i \in Spawned /\ j \in Spawned
        <4>1. EndIdx(i) <= StartIdx(j)
          BY <2>2, SliceBounds
        <4>2. QED BY <1>3, <3>2, <4>1, NumTxnsAssumption
      <3>3. QED BY <3>1, <3>2
    <2>3. ASSUME NEW i \in Threads, NEW j \in Threads, i # j PROVE P[i] \cap P[j] = {}
      <3>1. i < j \/ j < i
        BY <1>2, <2>3
      <3>2. P[j] \cap P[i] = P[i] \cap P[j]
        OBVIOUS
      <3>3. QED BY <2>2, <3>1, <3>2
    <2>4. QED BY <2>1, <2>3 DEF Parts
  <1>7. Together(P, Threads) = 0 .. NumTxns - 1
    <2>1. ASSUME NEW t \in 0 .. NumTxns - 1 PROVE t \in Together(P, Threads)
      <3>1. PICK th \in Spawned : t \in StartIdx(th) .. EndIdx(th) - 1
        BY SlicesCover DEF Positions
      <3>2. th \in Threads /\ t \in P[th]
        BY <1>3, <3>1
      <3>3. QED BY <3>2 DEF Together
    <2>2. Together(P, Threads) \subseteq 0 .. NumTxns - 1
      BY <1>6 DEF Parts, Together
    <2>3. QED BY <2>1, <2>2
  <1>8. Fun!SumFunction(fdb_successful) = NumTxns
    <2>1. Fun!SumFunction(fdb_successful) = Cardinality(Together(P, Threads))
      BY <1>1, <1>2, <1>5, <1>6, SumOfParts, NumTxnsAssumption
    <2>2. QED BY <1>7, <2>1, WholeWorkload
  <1>9. Fun!SumFunction(fdb_failed) = 0
    BY <1>1, <1>2, <1>5, SumOfZeros
  <1>10. QED BY <1>8, <1>9

-----------------------------------------------------------------------------
(* The rows main prints.                                                       *)

\* A row that comes from the ledger of the ordered execution, but for the fees.
Exact(row) == \A a \in ExactOn(row) : EndsAs(row, a, LedgerAfter(txs, NumTxns)[a])

\* A row of an execution that applied everything, and touched nothing else.
Complete(row) ==
    /\ row.successful = NumTxns /\ row.failed = 0
    /\ Exact(row)
    /\ \A a \in Addresses \ HotAccounts(hot_accounts) :
          IF row.executor = "block_stm" THEN a \notin DOMAIN row.ledger
          ELSE row.ledger[a] = Genesis[a]

\* A transaction of the workload touches no cold account.
LEMMA ColdAccounts ==
    ASSUME Drawn,
           NEW a \in Addresses \ HotAccounts(hot_accounts)
    PROVE  LedgerAfter(txs, NumTxns)[a] = Genesis[a]
  <1>1. WellFormed(txs, NumTxns)
    BY FdbWorkloadsWellFormed DEF Drawn
  <1>2. \A u \in 0 .. NumTxns - 1 : a \notin {txs[u].from, txs[u].to}
    BY <1>1 DEF Drawn, WellFormed
  <1>3. NumTxns \in 0 .. NumTxns
    BY NumTxnsAssumption
  <1>4. QED BY <1>1, <1>2, <1>3, LedgerUntouched, NumTxnsAssumption

\* On a workload that can be executed, the ordered execution applies everything.
LEMMA ExecutableApplied ==
    ASSUME Drawn, Executable
    PROVE  /\ \A t \in 0 .. NumTxns - 1 : txs[t].signed
           /\ AppliedInOrder(txs) = 0 .. NumTxns - 1
           /\ EverythingSent(txs, NumTxns)
  <1>1. txs \in Workloads(NumTxns, SigOutcomes)
    BY DEF Drawn
  <1>2. DOMAIN txs = 0 .. NumTxns - 1
    BY <1>1, FdbWorkloadsWellFormed DEF WellFormed
  <1>3. (\A t \in 0 .. NumTxns - 1 : txs[t].signed) /\ Funded(txs)
    BY <1>2 DEF Executable, Funded
  <1>4. QED
    BY <1>1, <1>3, GeneratedApplied, NumTxnsAssumption, SigOutcomesAssumption

\* What makes a row of an executor that charges no fee exact, and complete.
LEMMA ExactRow ==
    ASSUME Drawn, NEW row, row.executor \notin {"sequential", "block_stm"},
           row.ledger = LedgerAfter(txs, NumTxns)
    PROVE  Exact(row)
  <1>1. WellFormed(txs, NumTxns) /\ NumTxns \in 0 .. NumTxns
    BY FdbWorkloadsWellFormed, NumTxnsAssumption DEF Drawn
  <1>2. DOMAIN row.ledger = Addresses
    BY <1>1, LedgerTyped, NumTxnsAssumption
  <1>3. QED BY <1>2 DEF Exact, ExactOn, EndsAs, WithoutGas

LEMMA CompleteRow ==
    ASSUME Drawn, NEW row, row.executor \notin {"sequential", "block_stm"},
           row.ledger = LedgerAfter(txs, NumTxns),
           row.successful = NumTxns, row.failed = 0
    PROVE  Complete(row)
  BY ExactRow, ColdAccounts DEF Complete

LEMMA BaselineRow ==
    ASSUME BaselineExact, returned, AmplyFunded,
           NEW row, row.executor = "sequential", row.ledger = evm_db
    PROVE  Exact(row)
  <1> DEFINE ledger == LedgerAfter(txs, NumTxns)
  <1>1. evm_next = NumTxns /\ evm_db \in [Addresses -> AccountStates]
    BY DEF BaselineExact, BaselineInductive, BaselineTypeOK
  <1>2. \A a \in Addresses :
           /\ evm_db[a].nonce = ledger[a].nonce
           /\ evm_db[a].balance + Fee * evm_db[a].nonce = ledger[a].balance
    BY <1>1 DEF BaselineExact, BaselineLedger
  <1>3. ledger \in [Addresses -> AccountStates]
    <2>1. NumTxns \in 0 .. NumTxns
      BY NumTxnsAssumption
    <2>2. QED
      BY <2>1, LedgerTyped, NumTxnsAssumption DEF BaselineExact, BaselineInductive
  <1> HIDE DEF ledger
  <1>5. ASSUME NEW a \in Addresses
        PROVE  [evm_db[a] EXCEPT !.balance = @ + Fee * evm_db[a].nonce] = ledger[a]
    <2>1. evm_db[a] \in AccountStates /\ ledger[a] \in AccountStates
      BY <1>1, <1>3
    <2>2. [evm_db[a] EXCEPT !.balance = @ + Fee * evm_db[a].nonce]
             = [nonce |-> evm_db[a].nonce,
                balance |-> evm_db[a].balance + Fee * evm_db[a].nonce]
      BY <2>1 DEF AccountStates
    <2>3. ledger[a] = [nonce |-> ledger[a].nonce, balance |-> ledger[a].balance]
      BY <2>1 DEF AccountStates
    <2>4. QED BY <1>2, <2>2, <2>3
  <1>6. \A a \in Addresses : a \in DOMAIN row.ledger /\ WithoutGas(row, a) = ledger[a]
    BY <1>1, <1>5 DEF WithoutGas
  <1>7. QED BY <1>6 DEF Exact, ExactOn, EndsAs, ledger

\* The baseline commits everything on a workload that can be executed and paid
\* for: a sender's nonce is past those of all its transfers.
LEMMA BaselineCompletes ==
    ASSUME BaselineExact, returned, AmplyFunded, Executable,
           Drawn
    PROVE  evm_result.successful = NumTxns /\ evm_result.failed = 0
  <1>1. /\ evm_next = NumTxns /\ evm_db \in [Addresses -> AccountStates]
        /\ WellFormed(txs, NumTxns) /\ applied \subseteq 0 .. NumTxns - 1
        /\ evm_result \in [successful : Nat, failed : Nat]
    BY DEF BaselineExact, BaselineInductive, BaselineTypeOK, Passed
  <1>2. txs \in Workloads(NumTxns, SigOutcomes) /\ EverythingSent(txs, NumTxns)
    BY ExecutableApplied DEF Drawn
  <1>3. ASSUME NEW t \in 0 .. NumTxns - 1 PROVE t \in applied
    <2> DEFINE a == txs[t].from
               S == SentBefore(txs, t, a)
               T == SentBefore(txs, NumTxns, a)
    <2>1. a \in Addresses
      BY <1>1 DEF WellFormed, SignedTransactions
    <2>2. evm_db[a].nonce = Cardinality(T)
      BY <1>1, <1>2, <2>1 DEF EverythingSent, BaselineExact, BaselineLedger
    <2>3. txs[t].nonce = Cardinality(S)
      BY <1>2, GeneratedNonce, NumTxnsAssumption
    <2>4. /\ S \in SUBSET (0 .. NumTxns - 1) /\ T \in SUBSET (0 .. NumTxns - 1)
          /\ t \notin S /\ S \cup {t} \in SUBSET T
      BY <1>1, NumTxnsAssumption DEF SentBefore, WellFormed
    <2> HIDE DEF S, T, a
    <2>5. /\ IsFiniteSet(S) /\ Cardinality(S) \in Nat
          /\ IsFiniteSet(T) /\ Cardinality(T) \in Nat
      BY <2>4, IndicesFinite, NumTxnsAssumption
    <2>6. Cardinality(S \cup {t}) = Cardinality(S) + 1
      BY <2>4, <2>5, FS_AddElement
    <2>7. Cardinality(S \cup {t}) <= Cardinality(T)
      BY <2>4, <2>5, FS_Subset
    <2>8. txs[t].nonce < evm_db[a].nonce
      BY <2>2, <2>3, <2>5, <2>6, <2>7
    <2>9. QED BY <2>8 DEF a, BaselineExact, BaselineInductive, CommittedByNonce
  <1>4. applied = 0 .. NumTxns - 1
    BY <1>1, <1>3
  <1>5. /\ evm_result.successful = NumTxns
        /\ evm_result.successful + evm_result.failed = NumTxns
    BY <1>1, <1>4, WholeWorkload DEF BaselineExact, BaselineInductive, GasAccounted
  <1>6. QED BY <1>1, <1>5, NumTxnsAssumption

LEMMA BaselineRowComplete ==
    ASSUME BaselineExact, returned, AmplyFunded, Executable,
           Drawn,
           NEW row, row.executor = "sequential", row.ledger = evm_db,
           row.successful = evm_result.successful, row.failed = evm_result.failed
    PROVE  Complete(row)
  <1>1. evm_next = NumTxns /\ evm_db \in [Addresses -> AccountStates]
    BY DEF BaselineExact, BaselineInductive, BaselineTypeOK
  <1>2. ASSUME NEW a \in Addresses \ HotAccounts(hot_accounts)
        PROVE  row.ledger[a] = Genesis[a]
    <2>1. /\ evm_db[a].nonce = Genesis[a].nonce
          /\ evm_db[a].balance + Fee * evm_db[a].nonce = Genesis[a].balance
      BY <1>1, ColdAccounts DEF BaselineExact, BaselineLedger
    <2>2. Genesis[a] = [nonce |-> 0, balance |-> InitialBalance]
      BY DEF Genesis
    <2>3. evm_db[a] \in AccountStates
      BY <1>1
    <2>4. evm_db[a].nonce = 0 /\ Fee * 0 = 0
      BY <2>1, <2>2, FeeAssumption
    <2>5. evm_db[a].balance = InitialBalance
      BY <2>1, <2>2, <2>3, <2>4, InitialBalanceAssumption DEF AccountStates
    <2>6. evm_db[a] = [nonce |-> evm_db[a].nonce, balance |-> evm_db[a].balance]
      BY <2>3 DEF AccountStates
    <2>7. QED BY <2>2, <2>4, <2>5, <2>6
  <1>3. QED BY <1>2, BaselineRow, BaselineCompletes DEF Complete

\* FoundationDB's threads leave the ledger of the ordered execution, although
\* they run in no order, when they have applied everything.
LEMMA FdbLedger ==
    ASSUME FdbInv, fdb_stage = "done", Executable, Drawn
    PROVE  fdb_db = LedgerAfter(txs, NumTxns)
  <1> DEFINE ledger == LedgerAfter(txs, NumTxns)
  <1>1. Started /\ FdbInductive /\ SliceInv
    BY DEF Started, FdbInv
  <1>2. fdb_db \in [Addresses -> AccountStates] /\ WellFormed(txs, NumTxns)
    BY <1>1 DEF FdbInductive, FdbTypeOK, SetupFirst
  <1>3. ledger \in [Addresses -> AccountStates]
    <2>1. NumTxns \in 0 .. NumTxns
      BY NumTxnsAssumption
    <2>2. QED BY <1>2, <2>1, LedgerTyped, NumTxnsAssumption
  <1>4. fdb_applied = 0 .. NumTxns - 1
    BY <1>1, DoneHandlesAll, ExecutableApplied
  <1>5. ASSUME NEW a \in Addresses PROVE fdb_db[a] = ledger[a]
    <2> DEFINE s == Cardinality(SentBefore(txs, NumTxns, a))
               r == Cardinality(ReceivedBefore(txs, NumTxns, a))
    <2>1. /\ AppliedFrom(a) = SentBefore(txs, NumTxns, a)
          /\ AppliedTo(a) = ReceivedBefore(txs, NumTxns, a)
      BY <1>2, <1>4, NumTxnsAssumption
      DEF AppliedFrom, AppliedTo, SentBefore, ReceivedBefore, WellFormed
    <2>2. fdb_db[a].nonce = s /\ fdb_db[a].balance + s = InitialBalance + r
      BY <1>1, <2>1 DEF FdbInductive, LedgerExplained
    <2>3. ledger[a].nonce = s /\ ledger[a].balance + s = InitialBalance + r
      BY ExecutableApplied DEF EverythingSent
    <2>4. s \in Nat
      <3>1. SentBefore(txs, NumTxns, a) \in SUBSET (0 .. NumTxns - 1)
        BY <1>2 DEF SentBefore, WellFormed
      <3>2. QED BY <3>1, IndicesFinite, NumTxnsAssumption
    <2>5. fdb_db[a] \in AccountStates /\ ledger[a] \in AccountStates
      BY <1>2, <1>3
    <2> HIDE DEF s, r, ledger
    <2>6. fdb_db[a].nonce = ledger[a].nonce /\ fdb_db[a].balance = ledger[a].balance
      BY <2>2, <2>3, <2>4, <2>5 DEF AccountStates
    <2>7. /\ fdb_db[a] = [nonce |-> fdb_db[a].nonce, balance |-> fdb_db[a].balance]
          /\ ledger[a] = [nonce |-> ledger[a].nonce, balance |-> ledger[a].balance]
      BY <2>5 DEF AccountStates
    <2>8. QED BY <2>6, <2>7
  <1> HIDE DEF ledger
  <1>6. fdb_db = ledger
    BY <1>2, <1>3, <1>5
  <1>7. QED BY <1>6 DEF ledger

\* What a row should be.
GoodRow(row) ==
    (row.executor = "sequential" => AmplyFunded) =>
        /\ row.preserves_order => Exact(row)
        /\ Executable => Complete(row)

RowsGood == \A k \in DOMAIN all_results : GoodRow(all_results[k])

\* The inductive invariant: the workload is the one generated, FoundationDB's
\* executor is as its own invariants say, and so are the rows so far.
BenchInv ==
    /\ Drawn
    /\ FdbInv
    /\ \E S : all_results \in Seq(S)
    /\ RowsGood

\* What is proved of the other executors and holds in every state of the benchmark.
ExecutorFacts ==
    /\ BaselineExact
    /\ RerunIsExact
    /\ BatchTypeOK
    /\ BlockResultsExact
    /\ TypeOK
    /\ StmExact
    /\ FailuresCountedOnce

LEMMA BenchInvInit == BenchInit => BenchInv
  <1> SUFFICES ASSUME BenchInit PROVE BenchInv
    OBVIOUS
  <1>1. all_results = <<>> /\ Drawn
    BY WorkloadDrawn DEF BenchInit
  <1>2. all_results \in Seq({}) /\ DOMAIN all_results = {}
    BY <1>1
  <1>3. QED BY <1>1, <1>2, FdbInvInit DEF BenchInv, RowsGood

LEMMA ExecutableKept ==
    ASSUME UNCHANGED txs
    PROVE  Executable' <=> Executable
  BY DEF Executable

\* No step changes the command line or the workload.
LEMMA SetupKept ==
    ASSUME [BenchNext]_benchVars
    PROVE  UNCHANGED <<txs, hot_accounts, selected>>
  <1>1. UNCHANGED <<txs, selected>>
    BY BenchCases
  <1>2. hot_accounts' = hot_accounts
    BY DEF BenchNext, MainStep, SkipSection, Panic, SequentialRow, MdbxSequentialRow,
           MdbxBatchedRow, BlockStmRow, FdbRow, Push, RunSequential, RunMdbxSequential,
           RunMdbxBatched, RunBlockStm, RunFdbMain, RunFdb, benchVars, mainVars
  <1>3. QED BY <1>1, <1>2

\* Block-STM's database against the ordered execution, and the accounts that are
\* not in it.
LEMMA StmRowExact ==
    ASSUME StmExact, Joined, NEW row, row.executor = "block_stm", row.ledger = FinalDb
    PROVE  Exact(row)
  <1>1. DOMAIN FinalDb = Written
    BY DEF FinalDb, CommittedStates
  <1> SUFFICES ASSUME NEW a \in Addresses, ExactAt(a)
               PROVE  EndsAs(row, a, LedgerAfter(txs, NumTxns)[a])
    BY DEF Exact, ExactOn
  <1>2. (IF a \in Written THEN FinalDb[a] ELSE Genesis[a]) = LedgerAfter(txs, NumTxns)[a]
    BY DEF StmExact, FinalLedger
  <1>3. QED BY <1>1, <1>2 DEF EndsAs, WithoutGas

LEMMA StmRowCold ==
    ASSUME Drawn, StmExact, Joined, NEW row, row.ledger = FinalDb
    PROVE  \A a \in Addresses \ HotAccounts(hot_accounts) : a \notin DOMAIN row.ledger
  <1>1. DOMAIN FinalDb = Written
    BY DEF FinalDb, CommittedStates
  <1>2. DOMAIN txs = Txns
    BY FdbWorkloadsWellFormed DEF Drawn, WellFormed, Txns
  <1>3. \A a \in Addresses \ HotAccounts(hot_accounts), t \in Txns : ~Touches(t, a)
    BY <1>2 DEF Drawn, Touches
  <1>4. QED BY <1>1, <1>3 DEF StmExact

\* Every step that prints a row prints a good one.
LEMMA RowPrinted ==
    ASSUME BenchInv, ExecutorFacts, RowStep
    PROVE  \E row : all_results' = Append(all_results, row) /\ GoodRow(row)
  <1>0. Drawn /\ FdbInv
    BY DEF BenchInv
  <1>i. committed_idx \in Int
    BY NumTxnsAssumption DEF ExecutorFacts, TypeOK
  <1>1. CASE SequentialRow
    <2> DEFINE row == Row(TRUE, evm_result.successful, evm_result.failed, evm_db)
    <2>1. /\ all_results' = Append(all_results, row) /\ returned
          /\ Sections[section] = "sequential"
      BY <1>1 DEF SequentialRow, Push, In
    <2>2. /\ row.executor = "sequential" /\ row.ledger = evm_db
          /\ row.successful = evm_result.successful /\ row.failed = evm_result.failed
      BY <2>1 DEF Row
    <2> HIDE DEF row
    <2>3. AmplyFunded => Exact(row)
      BY <2>1, <2>2, BaselineRow DEF ExecutorFacts
    <2>4. AmplyFunded /\ Executable => Complete(row)
      BY <1>0, <2>1, <2>2, BaselineRowComplete DEF ExecutorFacts
    <2>5. QED BY <2>1, <2>2, <2>3, <2>4 DEF GoodRow
  <1>2. CASE MdbxSequentialRow
    <2> DEFINE row == Row(TRUE, seq_successful, seq_failed, seq_accounts)
    <2>1. /\ all_results' = Append(all_results, row) /\ seq_pc = "returned"
          /\ Sections[section] = "mdbx_sequential"
      BY <1>2 DEF MdbxSequentialRow, Push, In
    <2>2. /\ row.executor = "mdbx_sequential" /\ row.ledger = seq_accounts
          /\ row.successful = seq_successful /\ row.failed = seq_failed
      BY <2>1 DEF Row
    <2>3. /\ seq_accounts = LedgerAfter(txs, NumTxns)
          /\ seq_successful = Cardinality(AppliedInOrder(txs))
          /\ seq_failed = NumTxns - seq_successful
      BY <2>1 DEF ExecutorFacts, RerunIsExact
    <2> HIDE DEF row
    <2>4. Exact(row)
      BY <1>0, <2>2, <2>3, ExactRow
    <2>5. Executable => seq_successful = NumTxns /\ seq_failed = 0
      BY <1>0, <2>3, ExecutableApplied, WholeWorkload, NumTxnsAssumption
    <2>6. Executable => Complete(row)
      BY <1>0, <2>2, <2>3, <2>5, CompleteRow
    <2>7. QED BY <2>1, <2>2, <2>4, <2>6 DEF GoodRow
  <1>3. CASE MdbxBatchedRow
    <2> DEFINE row == Row(TRUE, TotalSuccessful, TotalFailed, bat_accounts)
    <2>1. /\ all_results' = Append(all_results, row) /\ bat_pc = "returned"
          /\ Sections[section] = "mdbx_batched"
      BY <1>3 DEF MdbxBatchedRow, Push, In
    <2>2. /\ row.executor = "mdbx_batched" /\ row.ledger = bat_accounts
          /\ row.successful = TotalSuccessful /\ row.failed = TotalFailed
      BY <2>1 DEF Row
    <2>3. bat_accounts = LedgerAfter(txs, NumTxns)
      BY <2>1 DEF ExecutorFacts, BlockResultsExact
    <2> HIDE DEF row
    <2>4. Exact(row)
      BY <1>0, <2>2, <2>3, ExactRow
    <2>5. Executable => TotalSuccessful = NumTxns /\ TotalFailed = 0
      BY <1>0, <2>1, ExecutableApplied, BatchTotals DEF ExecutorFacts
    <2>6. Executable => Complete(row)
      BY <1>0, <2>2, <2>3, <2>5, CompleteRow
    <2>7. QED BY <2>1, <2>2, <2>4, <2>6 DEF GoodRow
  <1>4. CASE BlockStmRow
    <2> DEFINE row == Row(TRUE, Successful, fail_count, FinalDb)
    <2>1. /\ all_results' = Append(all_results, row) /\ Joined
          /\ Sections[section] = "block_stm"
      BY <1>4 DEF BlockStmRow, Push, In
    <2>2. /\ row.executor = "block_stm" /\ row.ledger = FinalDb
          /\ row.successful = Successful /\ row.failed = fail_count
      BY <2>1 DEF Row
    <2> HIDE DEF row
    <2>3. Exact(row)
      BY <2>1, <2>2, StmRowExact DEF ExecutorFacts
    <2>4. ASSUME Executable PROVE Complete(row)
      <3>1. \A t \in 0 .. NumTxns - 1 : txs[t].signed
        BY <1>0, <2>4, ExecutableApplied
      <3>2. {t \in Txns : ~txs[t].signed} = {}
        BY <3>1 DEF Txns
      <3>3. fail_count = 0 /\ Successful + fail_count = NumTxns
        BY <2>1, <3>2, FS_EmptySet DEF ExecutorFacts, FailuresCountedOnce
      <3>4. Successful = NumTxns
        BY <1>i, <3>3, NumTxnsAssumption DEF Successful
      <3>5. QED BY <1>0, <2>1, <2>2, <2>3, <3>3, <3>4, StmRowCold DEF ExecutorFacts, Complete
    <2>5. QED BY <2>1, <2>2, <2>3, <2>4 DEF GoodRow
  <1>5. CASE FdbRow
    <2> DEFINE row == Row(FALSE, Fun!SumFunction(fdb_successful),
                          Fun!SumFunction(fdb_failed), fdb_db)
    <2>1. /\ all_results' = Append(all_results, row) /\ fdb_stage = "done"
          /\ Sections[section] = "fdb"
      BY <1>5 DEF FdbRow, Push, In
    <2>2. /\ row.executor = "fdb" /\ row.preserves_order = FALSE /\ row.ledger = fdb_db
          /\ row.successful = Fun!SumFunction(fdb_successful)
          /\ row.failed = Fun!SumFunction(fdb_failed)
      BY <2>1 DEF Row
    <2> HIDE DEF row
    <2>3. ASSUME Executable PROVE Complete(row)
      <3>1. fdb_db = LedgerAfter(txs, NumTxns)
        BY <1>0, <2>1, <2>3, FdbLedger
      <3>2. Fun!SumFunction(fdb_successful) = NumTxns /\ Fun!SumFunction(fdb_failed) = 0
        BY <1>0, <2>1, <2>3, ExecutableApplied, FdbTotals DEF FdbInv
      <3>3. QED BY <1>0, <2>2, <3>1, <3>2, CompleteRow
    <2>4. QED BY <2>1, <2>2, <2>3 DEF GoodRow
  <1>6. QED BY <1>1, <1>2, <1>3, <1>4, <1>5 DEF RowStep

LEMMA RowStepOK ==
    ASSUME BenchInv, ExecutorFacts, RowStep, UNCHANGED <<txs, hot_accounts, selected>>
    PROVE  RowsGood' /\ \E S : all_results' \in Seq(S)
  <1>1. PICK row : all_results' = Append(all_results, row) /\ GoodRow(row)
    BY RowPrinted
  <1>2. PICK S : all_results \in Seq(S)
    BY DEF BenchInv
  <1>3. all_results \in Seq(S \cup {row})
    BY <1>2
  <1>4. /\ all_results' \in Seq(S \cup {row})
        /\ DOMAIN all_results' = 1 .. Len(all_results) + 1
        /\ DOMAIN all_results = 1 .. Len(all_results) /\ Len(all_results) \in Nat
        /\ all_results'[Len(all_results) + 1] = row
        /\ \A k \in 1 .. Len(all_results) : all_results'[k] = all_results[k]
    BY <1>1, <1>3
  <1>5. ASSUME NEW k \in DOMAIN all_results'
        PROVE  all_results'[k] = row \/ (k \in DOMAIN all_results
                                            /\ all_results'[k] = all_results[k])
    BY <1>4
  <1>6. \A k \in DOMAIN all_results' : GoodRow(all_results'[k])
    BY <1>1, <1>5 DEF BenchInv, RowsGood
  <1>7. RowsGood'
    BY <1>6, FundedKept, ExecutableKept
    DEF RowsGood, GoodRow, Exact, Complete, ExactOn, EndsAs, WithoutGas, ExactAt,
        Uncontended, Independent, Touches
  <1>8. QED BY <1>4, <1>7

LEMMA BenchInvStep ==
    ASSUME BenchInv, ExecutorFacts, [BenchNext]_benchVars
    PROVE  BenchInv'
  <1>1. UNCHANGED <<txs, hot_accounts, selected>>
    BY SetupKept
  <1>2. Drawn'
    BY <1>1 DEF BenchInv, Drawn
  <1>3. FdbInv'
    BY FdbInvStep DEF BenchInv
  <1>4. CASE RowStep
    BY <1>1, <1>2, <1>3, <1>4, RowStepOK DEF BenchInv
  <1>5. CASE UNCHANGED all_results
    <2>1. RowsGood'
      BY <1>1, <1>5, FundedKept, ExecutableKept
      DEF BenchInv, RowsGood, GoodRow, Exact, Complete, ExactOn, EndsAs, WithoutGas,
          ExactAt, Uncontended, Independent, Touches
    <2>2. QED BY <1>2, <1>3, <1>5, <2>1 DEF BenchInv
  <1>6. QED BY <1>4, <1>5, BenchCases

LEMMA ExecutorFactsHold ==
    ASSUME Workers # {}
    PROVE  BenchSpec => []ExecutorFacts
  <1>1. ExecSpec => []StmExact /\ []FailuresCountedOnce /\ []TypeOK
    <2>1. ExecSpec => []StmExact
      BY StmIsExact
    <2>2. ExecSpec => []FailuresCountedOnce
      BY FailuresOnce
    <2>3. ExecTypeOK => TypeOK
      BY DEF ExecTypeOK
    <2>4. QED BY <2>1, <2>2, <2>3, ExecTypeCorrect, PTL
  <1>2. QED
    BY <1>1, BenchRunsExecutors, BaselineIsExact, RerunsAreExact, BatchTypeCorrect,
       BlockResultsAreExact, PTL DEF ExecutorFacts

LEMMA BenchInvariant ==
    ASSUME Workers # {}
    PROVE  BenchSpec => []BenchInv
  <1>1. BenchInit => BenchInv
    BY BenchInvInit
  <1>2. BenchInv /\ ExecutorFacts /\ [BenchNext]_benchVars => BenchInv'
    BY BenchInvStep
  <1>3. BenchSpec => []ExecutorFacts
    BY ExecutorFactsHold
  <1>4. QED BY <1>1, <1>2, <1>3, PTL DEF BenchSpec

\* Whatever is selected, every "strict" row comes from the ledger of the ordered
\* execution, for any workload, fee, block size, number of threads and
\* interruption (main drops an interrupted run and prints nothing for it): on
\* every account, and for several threads of Block-STM on the uncontended ones.
THEOREM StrictRowsAreExact ==
    ASSUME Workers # {}
    PROVE  BenchSpec => []StrictRowsExact
  <1>1. BenchInv => StrictRowsExact
    BY DEF BenchInv, RowsGood, GoodRow, Exact, StrictRowsExact
  <1>2. BenchSpec => []BenchInv
    BY BenchInvariant
  <1>3. QED BY <1>1, <1>2, PTL

\* The comparison main prints is one of equals: on a workload that can be executed
\* and paid for, every executor, with any number of threads, whatever block size
\* and whatever keyspace it finds, counts everything once, ends in the same ledger
\* but for the fees (Block-STM's threads where they do not meet) and leaves the
\* cold accounts alone.
THEOREM AllRowsAgree ==
    ASSUME Workers # {}
    PROVE  BenchSpec => []RowsAgree
  <1>1. BenchInv => RowsAgree
    BY DEF BenchInv, RowsGood, GoodRow, Complete, Exact, RowsAgree
  <1>2. BenchSpec => []BenchInv
    BY BenchInvariant
  <1>3. QED BY <1>1, <1>2, PTL
=============================================================================

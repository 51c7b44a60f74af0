------------------------ MODULE MdbxSequentialProofs ------------------------
(***************************************************************************)
(* MDBX sequential executor: for any workload and number of accounts, and  *)
(* interrupted and called again anywhere, between the two writes of a      *)
(* transfer included, the table is never more than half a transfer away    *)
(* from strict order, and a call that returns is exact.                    *)
(***************************************************************************)
EXTENDS MdbxSequential, TransferProofs, TLAPS

\* Between two writes: the sender has paid, and what the receiver is about to
\* be given was computed from the ledger before the transfer.
HalfWay ==
    LET tx == txs[seq_next]
        before == LedgerAfter(txs, seq_next)
    IN  /\ seq_next \in 0 .. NumTxns - 1
        /\ Succeeds(tx, before)
        /\ seq_accounts = HalfApplied(seq_next)
        /\ seq_receiver = Credit(tx, before[tx.to])

\* The counters of the call are those of the ordered execution so far.
CountsExact ==
    /\ seq_successful = Cardinality(AppliedInOrder(txs) \cap (0 .. seq_next - 1))
    /\ seq_failed \in Nat
    /\ seq_successful + seq_failed = seq_next

\* The inductive invariant: at every line of the loop the table is the ledger of
\* the ordered execution up to `next`, whatever an earlier call has left.
SeqInv ==
    /\ WellFormed(txs, NumTxns)
    /\ seq_pc \in {"init", "loop", "credit", "returned", "interrupted"}
    /\ seq_next \in 0 .. NumTxns
    /\ DurablePrefix
    /\ CountsExact
    /\ seq_pc \in {"init", "interrupted"} => seq_next = 0
    /\ seq_pc \in {"loop", "returned"} => seq_accounts = LedgerAfter(txs, seq_next)
    /\ seq_pc = "returned" => seq_next = NumTxns
    /\ seq_pc = "credit" => HalfWay
    /\ seq_pc # "credit" => seq_receiver = NoAccount

LEMMA NoneYet ==
    ASSUME NEW x
    PROVE  Cardinality(AppliedInOrder(x) \cap (0 .. 0 - 1)) = 0
  <1>1. AppliedInOrder(x) \cap (0 .. 0 - 1) = {}
    OBVIOUS
  <1>2. QED BY <1>1, FS_EmptySet

LEMMA SeqInitOK == SeqInit => SeqInv
  <1> SUFFICES ASSUME SeqInit PROVE SeqInv
    OBVIOUS
  <1>1. WellFormed(txs, NumTxns)
    <2>1. txs \in Workloads(NumTxns, SigOutcomes)
      BY DEF SeqInit
    <2>2. QED
      BY <2>1, WorkloadsWellFormed, NumTxnsAssumption, SigOutcomesAssumption
  <1>2. /\ seq_accounts = Empty /\ seq_pc = "init" /\ seq_next = 0
        /\ seq_receiver = NoAccount
        /\ seq_successful = 0 /\ seq_failed = 0
    BY DEF SeqInit, SeqStart
  <1>3. DurablePrefix
    BY <1>2 DEF DurablePrefix
  <1>4. CountsExact
    BY <1>2, NoneYet DEF CountsExact
  <1>5. QED BY <1>1, <1>2, <1>3, <1>4, NumTxnsAssumption DEF SeqInv

-----------------------------------------------------------------------------
(* What the writes do to the table.                                            *)

\* The account of a ledger the table may hold after a transaction is an account.
LEMMA HalfAppliedTyped ==
    ASSUME WellFormed(txs, NumTxns), NEW k \in 0 .. NumTxns - 1,
           Succeeds(txs[k], LedgerAfter(txs, k))
    PROVE  HalfApplied(k) \in [Addresses -> AccountStates]
  <1>1. k \in 0 .. NumTxns
    BY NumTxnsAssumption
  <1>2. LedgerAfter(txs, k) \in [Addresses -> AccountStates]
    BY <1>1, LedgerTyped, NumTxnsAssumption
  <1>3. txs[k] \in SignedTransactions
    BY DEF WellFormed
  <1>4. txs[k].from \in Addresses /\ txs[k].value \in Nat
    BY <1>3 DEF SignedTransactions
  <1>5. Debit(txs[k], LedgerAfter(txs, k)[txs[k].from]) \in AccountStates
    BY <1>2, <1>4 DEF Succeeds, Accepts, Debit, AccountStates
  <1>6. QED BY <1>2, <1>4, <1>5 DEF HalfApplied

\* Whatever is in the table, it maps addresses to accounts.
LEMMA TableTyped ==
    ASSUME SeqInv
    PROVE  MdbxTypeOK(seq_accounts)
  <1>1. CASE seq_accounts = Empty
    BY <1>1 DEF Empty, MdbxTypeOK
  <1>2. ASSUME seq_accounts \in [Addresses -> AccountStates] PROVE MdbxTypeOK(seq_accounts)
    BY <1>2 DEF MdbxTypeOK
  <1>3. ASSUME NEW k \in 0 .. NumTxns, seq_accounts = LedgerAfter(txs, k) PROVE MdbxTypeOK(seq_accounts)
    BY <1>2, <1>3, LedgerTyped, NumTxnsAssumption DEF SeqInv
  <1>4. ASSUME NEW k \in 0 .. NumTxns - 1, Succeeds(txs[k], LedgerAfter(txs, k)),
               seq_accounts = HalfApplied(k)
        PROVE  MdbxTypeOK(seq_accounts)
    BY <1>2, <1>4, HalfAppliedTyped DEF SeqInv
  <1>5. QED BY <1>1, <1>3, <1>4 DEF SeqInv, DurablePrefix

\* init_accounts leaves nothing of what was there.
LEMMA SeqBeginEffect ==
    ASSUME SeqInv, seq_accounts' = InitAccounts(seq_accounts)
    PROVE  seq_accounts' = Genesis
  <1>1. DOMAIN seq_accounts \subseteq Addresses
    BY TableTyped DEF MdbxTypeOK
  <1>2. DOMAIN Genesis = Addresses
    BY DEF Genesis
  <1>3. Put(seq_accounts, Genesis) = Genesis
    BY <1>1, <1>2 DEF Put, Genesis
  <1>4. QED BY <1>3 DEF InitAccounts

\* A write of an account the table has.
LEMMA SetAccountEffect ==
    ASSUME seq_accounts \in [Addresses -> AccountStates], NEW a \in Addresses, NEW account,
           seq_accounts' = SetAccount(seq_accounts, a, account)
    PROVE  seq_accounts' = [seq_accounts EXCEPT ![a] = account]
  BY DEF SetAccount, Put

\* The state in which the loop looks at a transaction.
LEMMA LoopIs ==
    ASSUME SeqInv, seq_pc = "loop", seq_next < NumTxns
    PROVE  LET tx == txs[seq_next] IN
           /\ seq_next \in 0 .. NumTxns - 1 /\ seq_next + 1 \in 0 .. NumTxns
           /\ tx \in SignedTransactions
           /\ tx.from \in Addresses /\ tx.to \in Addresses /\ tx.from # tx.to
           /\ seq_accounts = LedgerAfter(txs, seq_next)
           /\ seq_accounts \in [Addresses -> AccountStates]
           /\ Passes(tx) <=> Succeeds(tx, LedgerAfter(txs, seq_next))
           /\ LedgerAfter(txs, seq_next + 1) = Apply(tx, LedgerAfter(txs, seq_next))
  <1> DEFINE tx == txs[seq_next]
  <1>1. seq_next \in 0 .. NumTxns - 1 /\ seq_next + 1 \in 0 .. NumTxns /\ seq_next \in Nat
    BY NumTxnsAssumption DEF SeqInv
  <1>2. tx \in SignedTransactions /\ tx.from # tx.to
    BY <1>1 DEF SeqInv, WellFormed
  <1>3. tx.from \in Addresses /\ tx.to \in Addresses
    BY <1>2 DEF SignedTransactions
  <1>4. seq_accounts = LedgerAfter(txs, seq_next)
    BY DEF SeqInv
  <1>5. seq_accounts \in [Addresses -> AccountStates]
    BY <1>4, LedgerTyped, NumTxnsAssumption DEF SeqInv
  <1>6. Passes(tx) <=> Succeeds(tx, LedgerAfter(txs, seq_next))
    BY <1>3, <1>4, <1>5 DEF Passes, Succeeds, Stored
  <1>7. LedgerAfter(txs, seq_next + 1) = Apply(tx, LedgerAfter(txs, seq_next))
    BY <1>1, LedgerAfterNext
  <1>8. QED BY <1>1, <1>2, <1>3, <1>4, <1>5, <1>6, <1>7

\* After the first write the transfer is half applied.
LEMMA DebitEffect ==
    ASSUME SeqInv, DebitSender
    PROVE  HalfWay'
  <1> DEFINE tx == txs[seq_next]
             before == LedgerAfter(txs, seq_next)
  <1>1. /\ seq_pc = "loop" /\ seq_next < NumTxns /\ Passes(tx)
        /\ UNCHANGED <<txs, seq_next>>
        /\ seq_receiver' = Credit(tx, GetOrNew(seq_accounts, tx.to))
        /\ seq_accounts' = SetAccount(seq_accounts, tx.from, Debit(tx, seq_accounts[tx.from]))
    BY DEF DebitSender
  <1>2. /\ seq_next \in 0 .. NumTxns - 1
        /\ tx.from \in Addresses /\ tx.to \in Addresses
        /\ seq_accounts = before /\ seq_accounts \in [Addresses -> AccountStates]
        /\ Succeeds(tx, before)
    BY <1>1, LoopIs
  <1>3. seq_receiver' = Credit(tx, before[tx.to])
    BY <1>1, <1>2 DEF GetOrNew, Stored
  <1>4. seq_accounts' = [seq_accounts EXCEPT ![tx.from] = Debit(tx, seq_accounts[tx.from])]
    BY <1>1, <1>2, SetAccountEffect
  <1>5. seq_accounts' = HalfApplied(seq_next)
    BY <1>2, <1>4 DEF HalfApplied
  <1>6. /\ txs'[seq_next'] = tx /\ LedgerAfter(txs', seq_next') = before
        /\ HalfApplied(seq_next)' = HalfApplied(seq_next)
    BY <1>1 DEF HalfApplied
  <1> HIDE DEF tx, before
  <1>7. QED BY <1>1, <1>2, <1>3, <1>5, <1>6 DEF HalfWay, tx, before

\* The second write completes it: the receiver's state computed before the first
\* one is not stale, because nobody sends to itself.
LEMMA CreditEffect ==
    ASSUME SeqInv, CreditReceiver
    PROVE  /\ seq_next \in 0 .. NumTxns - 1 /\ seq_next + 1 \in 0 .. NumTxns
           /\ Succeeds(txs[seq_next], LedgerAfter(txs, seq_next))
           /\ seq_accounts' = LedgerAfter(txs, seq_next + 1)
  <1> DEFINE tx == txs[seq_next]
             before == LedgerAfter(txs, seq_next)
  <1>1. seq_pc = "credit" /\ seq_accounts' = SetAccount(seq_accounts, tx.to, seq_receiver)
    BY DEF CreditReceiver
  <1>2. /\ seq_next \in 0 .. NumTxns - 1 /\ Succeeds(tx, before)
        /\ seq_accounts = HalfApplied(seq_next)
        /\ seq_receiver = Credit(tx, before[tx.to])
    BY <1>1 DEF SeqInv, HalfWay
  <1>3. seq_next + 1 \in 0 .. NumTxns /\ seq_next \in 0 .. NumTxns /\ seq_next \in Nat
    BY <1>2, NumTxnsAssumption
  <1>4. tx \in SignedTransactions /\ tx.from # tx.to
    BY <1>2 DEF SeqInv, WellFormed
  <1>5. tx.from \in Addresses /\ tx.to \in Addresses
    BY <1>4 DEF SignedTransactions
  <1>6. before \in [Addresses -> AccountStates]
    BY <1>3, LedgerTyped, NumTxnsAssumption DEF SeqInv
  <1>7. seq_accounts \in [Addresses -> AccountStates]
    BY <1>2, HalfAppliedTyped DEF SeqInv
  <1>8. seq_accounts' = [seq_accounts EXCEPT ![tx.to] = seq_receiver]
    BY <1>1, <1>5, <1>7, SetAccountEffect
  <1>9. seq_accounts = [before EXCEPT ![tx.from] = Debit(tx, before[tx.from])]
    BY <1>2, <1>5, <1>6 DEF HalfApplied
  <1>10. Apply(tx, before) = [before EXCEPT ![tx.from] = Debit(tx, before[tx.from]),
                                            ![tx.to] = Credit(tx, before[tx.to])]
    BY <1>2, <1>4, <1>5, <1>6 DEF Apply
  <1>11. LedgerAfter(txs, seq_next + 1) = Apply(tx, before)
    BY <1>3, LedgerAfterNext
  <1> HIDE DEF tx, before
  <1>12. seq_accounts' = Apply(tx, before)
    BY <1>2, <1>4, <1>5, <1>6, <1>8, <1>9, <1>10
  <1>13. QED BY <1>2, <1>3, <1>11, <1>12 DEF tx, before

-----------------------------------------------------------------------------

\* The counters after transaction `next`.
LEMMA SeqCounts ==
    ASSUME SeqInv, seq_next \in 0 .. NumTxns - 1, UNCHANGED txs, seq_next' = seq_next + 1,
           \/ /\ Succeeds(txs[seq_next], LedgerAfter(txs, seq_next))
              /\ seq_successful' = seq_successful + 1 /\ seq_failed' = seq_failed
           \/ /\ ~Succeeds(txs[seq_next], LedgerAfter(txs, seq_next))
              /\ seq_successful' = seq_successful /\ seq_failed' = seq_failed + 1
    PROVE  CountsExact'
  <1> DEFINE n(k) == Cardinality(AppliedInOrder(txs) \cap (0 .. k - 1))
  <1>1. /\ seq_successful = n(seq_next) /\ seq_failed \in Nat
        /\ seq_successful + seq_failed = seq_next
    BY DEF SeqInv, CountsExact
  <1>2. seq_next \in Nat /\ (seq_next + 1) - 1 = seq_next
    BY NumTxnsAssumption
  <1>3. /\ n(seq_next) \in Nat
        /\ Succeeds(txs[seq_next], LedgerAfter(txs, seq_next)) => n(seq_next + 1) = n(seq_next) + 1
        /\ ~Succeeds(txs[seq_next], LedgerAfter(txs, seq_next)) => n(seq_next + 1) = n(seq_next)
    <2>1. 0 \in 0 .. seq_next
      BY <1>2
    <2>2. QED BY <1>2, <2>1, AppliedCount, NumTxnsAssumption DEF SeqInv
  <1>4. n(seq_next)' = n(seq_next + 1)
    OBVIOUS
  <1> HIDE DEF n
  <1>5. /\ (seq_successful = n(seq_next))' /\ seq_failed' \in Nat
        /\ seq_successful' + seq_failed' = seq_next'
    BY <1>1, <1>2, <1>3, <1>4
  <1>6. QED BY <1>5 DEF CountsExact, n

\* A table that is the ledger of some prefix stays one when it is not written.
LEMMA PrefixKept ==
    ASSUME SeqInv, UNCHANGED <<seq_accounts, txs>>
    PROVE  DurablePrefix' /\ WellFormed(txs, NumTxns)'
  BY DEF SeqInv, DurablePrefix, HalfApplied, WellFormed

LEMMA SeqStep ==
    ASSUME SeqInv, [SeqNext]_seqVars
    PROVE  SeqInv'
  <1>1. CASE Begin
    <2>1. /\ UNCHANGED <<txs, seq_next, seq_receiver, seq_successful, seq_failed>>
          /\ seq_pc = "init"
          /\ seq_pc' = "loop" /\ seq_next = 0
          /\ seq_accounts' = InitAccounts(seq_accounts) /\ seq_receiver = NoAccount
      BY <1>1 DEF Begin, SeqInv
    <2>2. seq_accounts' = LedgerAfter(txs, seq_next)
      BY <2>1, SeqBeginEffect, LedgerAfterZero
    <2>3. DurablePrefix'
      <3>1. seq_accounts' = LedgerAfter(txs', seq_next')
        BY <2>1, <2>2
      <3>2. seq_next' \in 0 .. NumTxns
        BY <2>1 DEF SeqInv
      <3>3. QED BY <3>1, <3>2 DEF DurablePrefix
    <2>4. WellFormed(txs, NumTxns)' /\ CountsExact'
      BY <2>1 DEF SeqInv, WellFormed, CountsExact
    <2>5. QED BY <2>1, <2>2, <2>3, <2>4 DEF SeqInv
  <1>2. CASE Reject
    <2>1. /\ UNCHANGED <<seq_accounts, txs, seq_pc, seq_receiver, seq_successful>>
          /\ seq_pc = "loop"
          /\ seq_next < NumTxns /\ seq_failed' = seq_failed + 1
          /\ seq_next' = seq_next + 1
          /\ ~Passes(txs[seq_next])
      BY <1>2 DEF Reject
    <2>2. /\ seq_next \in 0 .. NumTxns - 1 /\ seq_next' \in 0 .. NumTxns
          /\ ~Succeeds(txs[seq_next], LedgerAfter(txs, seq_next))
          /\ seq_accounts = LedgerAfter(txs, seq_next)
          /\ LedgerAfter(txs, seq_next + 1) = Apply(txs[seq_next], LedgerAfter(txs, seq_next))
      BY <2>1, LoopIs
    <2>3. seq_accounts' = LedgerAfter(txs', seq_next')
      BY <2>1, <2>2 DEF Apply
    <2>4. CountsExact'
      BY <2>1, <2>2, SeqCounts
    <2>5. DurablePrefix' /\ WellFormed(txs, NumTxns)'
      BY <2>1, PrefixKept
    <2>6. QED BY <2>1, <2>2, <2>3, <2>4, <2>5 DEF SeqInv
  <1>3. CASE DebitSender
    <2>1. UNCHANGED <<txs, seq_next, seq_successful, seq_failed>> /\ seq_pc' = "credit"
      BY <1>3 DEF DebitSender
    <2>2. HalfWay'
      BY <1>3, DebitEffect
    <2>3. DurablePrefix'
      <3>1. /\ seq_next' \in 0 .. NumTxns - 1 /\ seq_accounts' = HalfApplied(seq_next)'
            /\ Succeeds(txs[seq_next], LedgerAfter(txs, seq_next))'
        BY <2>2 DEF HalfWay
      <3>2. QED BY <3>1 DEF DurablePrefix, HalfApplied
    <2>4. WellFormed(txs, NumTxns)' /\ CountsExact' /\ seq_next' \in 0 .. NumTxns
      BY <2>1 DEF SeqInv, WellFormed, CountsExact
    <2>5. QED BY <2>1, <2>2, <2>3, <2>4 DEF SeqInv
  <1>4. CASE CreditReceiver
    <2>1. /\ UNCHANGED <<txs, seq_failed>> /\ seq_pc' = "loop"
          /\ seq_receiver' = NoAccount
          /\ seq_successful' = seq_successful + 1 /\ seq_next' = seq_next + 1
      BY <1>4 DEF CreditReceiver
    <2>2. /\ seq_next \in 0 .. NumTxns - 1 /\ seq_next' \in 0 .. NumTxns
          /\ Succeeds(txs[seq_next], LedgerAfter(txs, seq_next))
          /\ seq_accounts' = LedgerAfter(txs', seq_next')
      BY <1>4, <2>1, CreditEffect
    <2>3. CountsExact'
      BY <2>1, <2>2, SeqCounts
    <2>4. DurablePrefix'
      BY <2>2 DEF DurablePrefix
    <2>5. WellFormed(txs, NumTxns)'
      BY <2>1 DEF SeqInv, WellFormed
    <2>6. QED BY <2>1, <2>2, <2>3, <2>4, <2>5 DEF SeqInv
  <1>5. CASE Return
    <2>1. /\ UNCHANGED <<seq_accounts, txs, seq_next, seq_receiver, seq_successful,
                         seq_failed>>
          /\ seq_pc = "loop" /\ seq_pc' = "returned" /\ seq_next = NumTxns
      BY <1>5 DEF Return
    <2>2. CountsExact'
      BY <2>1 DEF SeqInv, CountsExact
    <2>3. DurablePrefix' /\ WellFormed(txs, NumTxns)'
      BY <2>1, PrefixKept
    <2>4. QED BY <2>1, <2>2, <2>3 DEF SeqInv
  <1>6. CASE Interrupted \/ Rerun
    <2>1. /\ UNCHANGED <<seq_accounts, txs>> /\ seq_pc' \in {"init", "interrupted"}
          /\ seq_next' = 0 /\ seq_successful' = 0 /\ seq_failed' = 0
          /\ seq_receiver' = NoAccount
      BY <1>6 DEF Interrupted, Rerun, SeqInv
    <2>2. CountsExact'
      BY <2>1, NoneYet DEF CountsExact
    <2>3. DurablePrefix' /\ WellFormed(txs, NumTxns)'
      BY <2>1, PrefixKept
    <2>4. seq_next' \in 0 .. NumTxns
      BY <2>1, NumTxnsAssumption
    <2>5. QED BY <2>1, <2>2, <2>3, <2>4 DEF SeqInv
  <1>7. CASE UNCHANGED seqVars
    <2>1. UNCHANGED <<seq_accounts, txs, seq_pc, seq_next, seq_receiver, seq_successful,
                      seq_failed>>
      BY <1>7 DEF seqVars, locals
    <2>2. DurablePrefix' /\ WellFormed(txs, NumTxns)'
      BY <2>1, PrefixKept
    <2>3. CountsExact'
      BY <2>1 DEF SeqInv, CountsExact
    <2>4. HalfWay' <=> HalfWay
      BY <2>1 DEF HalfWay, HalfApplied
    <2>5. QED BY <2>1, <2>2, <2>3, <2>4 DEF SeqInv
  <1>8. QED BY <1>1, <1>2, <1>3, <1>4, <1>5, <1>6, <1>7 DEF SeqNext

\* The table and the counters follow the ordered execution at every line of
\* execute_workload, in every call.
THEOREM SeqInvariant == SeqSpec => []SeqInv
  <1>1. SeqInv /\ [SeqNext]_seqVars => SeqInv'
    BY SeqStep
  <1>2. QED BY SeqInitOK, <1>1, PTL DEF SeqSpec

\* Every variable of execute_workload keeps its type: no balance goes below zero
\* and neither counter exceeds the workload.
THEOREM SeqTypeCorrect == SeqSpec => []SeqTypeOK
  <1>1. SeqInv => SeqTypeOK
    <2> SUFFICES ASSUME SeqInv PROVE SeqTypeOK
      OBVIOUS
    <2>1. txs \in [0 .. NumTxns - 1 -> SignedTransactions]
      BY DEF SeqInv, WellFormed
    <2>2. seq_receiver \in AccountStates \cup {NoAccount}
      <3>1. CASE seq_pc # "credit"
        BY <3>1 DEF SeqInv
      <3>2. CASE seq_pc = "credit"
        <4>1. /\ seq_next \in 0 .. NumTxns - 1 /\ seq_next \in 0 .. NumTxns
              /\ seq_receiver = Credit(txs[seq_next], LedgerAfter(txs, seq_next)[txs[seq_next].to])
          BY <3>2 DEF SeqInv, HalfWay
        <4>2. LedgerAfter(txs, seq_next) \in [Addresses -> AccountStates]
          BY <4>1, LedgerTyped, NumTxnsAssumption DEF SeqInv
        <4>3. txs[seq_next] \in SignedTransactions
          BY <2>1, <4>1
        <4>4. txs[seq_next].to \in Addresses /\ txs[seq_next].value \in Nat
          BY <4>3 DEF SignedTransactions
        <4>5. QED BY <4>1, <4>2, <4>4 DEF Credit, AccountStates
      <3>3. QED BY <3>1, <3>2
    <2>3. seq_successful \in 0 .. NumTxns /\ seq_failed \in 0 .. NumTxns
      <3>1. seq_next \in 0 .. NumTxns /\ 0 \in 0 .. seq_next /\ seq_next - 0 = seq_next
        BY NumTxnsAssumption DEF SeqInv
      <3>2. seq_successful \in 0 .. seq_next
        BY <3>1, AppliedAtMost, NumTxnsAssumption DEF SeqInv, CountsExact
      <3>3. seq_failed \in Nat /\ seq_successful + seq_failed = seq_next
        BY DEF SeqInv, CountsExact
      <3>4. QED BY <3>1, <3>2, <3>3, NumTxnsAssumption
    <2>4. QED BY <2>1, <2>2, <2>3, TableTyped DEF SeqTypeOK, SeqInv
  <1>2. QED BY <1>1, SeqInvariant, PTL

\* Wherever a call is interrupted, the table is the ledger of a prefix of the
\* workload or that and the debit of the next transfer: the window between the
\* two set_account calls never costs more than one transfer's value.
THEOREM TableIsPrefix == SeqSpec => []DurablePrefix
  <1>1. SeqInv => DurablePrefix
    BY DEF SeqInv
  <1>2. QED BY <1>1, SeqInvariant, PTL

\* A call that returns is exact, however many interrupted or completed calls came
\* before it on the same path.
THEOREM RerunsAreExact == SeqSpec => []RerunIsExact
  <1>1. SeqInv => RerunIsExact
    <2> SUFFICES ASSUME SeqInv, seq_pc = "returned"
                 PROVE  /\ seq_accounts = LedgerAfter(txs, NumTxns)
                        /\ seq_successful = Cardinality(AppliedInOrder(txs))
                        /\ seq_failed = NumTxns - seq_successful
      BY DEF RerunIsExact
    <2>1. seq_accounts = LedgerAfter(txs, NumTxns) /\ seq_next = NumTxns
      BY DEF SeqInv
    <2>2. AppliedInOrder(txs) \cap (0 .. NumTxns - 1) = AppliedInOrder(txs)
      BY AppliedIndices, NumTxnsAssumption DEF SeqInv
    <2>3. seq_successful = Cardinality(AppliedInOrder(txs))
      BY <2>1, <2>2 DEF SeqInv, CountsExact
    <2>4. seq_successful \in Nat
      <3>1. AppliedInOrder(txs) \in SUBSET (0 .. NumTxns - 1)
        BY AppliedIndices, NumTxnsAssumption DEF SeqInv
      <3>2. QED BY <2>3, <3>1, IndicesFinite, NumTxnsAssumption
    <2>5. seq_failed \in Nat /\ seq_successful + seq_failed = NumTxns
      BY <2>1 DEF SeqInv, CountsExact
    <2>6. seq_failed = NumTxns - seq_successful
      BY <2>4, <2>5, NumTxnsAssumption
    <2>7. QED BY <2>1, <2>3, <2>6
  <1>2. QED BY <1>1, SeqInvariant, PTL
=============================================================================

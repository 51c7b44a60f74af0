------------------------------ MODULE FdbProofs ------------------------------
(***************************************************************************)
(* FoundationDB executor: for any number of transfers, accounts and        *)
(* threads, and any faults, no transfer is lost, none is applied twice and *)
(* each sender's transfers are applied in order.                           *)
(***************************************************************************)
EXTENDS FdbParallel, TransferProofs, TLAPS

LEMMA PositionsFinite ==
    ASSUME NEW S \in SUBSET Positions
    PROVE  IsFiniteSet(S) /\ Cardinality(S) \in Nat
  <1>1. IsFiniteSet(0 .. NumTxns - 1)
    BY FS_Interval, NumTxnsAssumption
  <1>2. IsFiniteSet(S)
    BY <1>1, FS_Subset DEF Positions
  <1>3. QED BY <1>2, FS_CardinalityType

\* generate: increasing nonces per sender, and no transfer to oneself.
LEMMA FdbWorkloadsWellFormed ==
    ASSUME NEW x \in Workloads(NumTxns, SigOutcomes)
    PROVE  WellFormed(x, NumTxns)
  BY WorkloadsWellFormed, NumTxnsAssumption, SigOutcomesAssumption

-----------------------------------------------------------------------------

\* An executor about to be called, whatever the keyspace holds.
FdbNew ==
    /\ WellFormed(txs, NumTxns)
    /\ num_threads \in 1 .. MaxThreads
    /\ \E stored \in SUBSET Addresses : fdb_db \in [stored -> AccountStates]
    /\ FdbStart

LEMMA FdbInitNew == FdbInit => FdbNew
  <1> SUFFICES ASSUME FdbInit PROVE FdbNew
    OBVIOUS
  <1>1. WellFormed(txs, NumTxns)
    BY FdbWorkloadsWellFormed DEF FdbInit
  <1>2. \E stored \in SUBSET Addresses : fdb_db \in [stored -> AccountStates]
    <2>1. NoKeys \in [{} -> AccountStates]
      BY DEF NoKeys
    <2>2. [a \in Addresses |-> [nonce |-> 1, balance |-> 0]]
              \in [Addresses -> AccountStates]
      BY DEF AccountStates
    <2>3. QED BY <2>1, <2>2 DEF FdbInit
  <1>3. QED BY <1>1, <1>2 DEF FdbInit, FdbNew

LEMMA FdbNewOK == FdbNew => FdbInductive
  <1> SUFFICES ASSUME FdbNew PROVE FdbInductive
    OBVIOUS
  <1> USE DEF FdbNew, FdbStart
  <1>1. FdbTypeOK
    BY NumTxnsAssumption DEF FdbTypeOK, NoRead, WellFormed
  <1>2. SetupFirst
    BY DEF SetupFirst, Started
  <1>3. SnapshotsCurrent
    BY DEF SnapshotsCurrent
  <1>4. AppliedByNonce /\ LedgerExplained
    BY DEF AppliedByNonce, LedgerExplained, Started
  <1>5. QED BY <1>1, <1>2, <1>3, <1>4 DEF FdbInductive

\* What a thread about to commit knows when it meets no conflict.
LEMMA CleanCommit ==
    ASSUME FdbInductive, NEW th \in Threads, fdb_pc[th] = "commit", ~Conflicts(th)
    PROVE  LET tx == Transfer(th) IN
           /\ Started
           /\ WellFormed(txs, NumTxns)
           /\ fdb_pos[th] \in Positions
           /\ tx \in SignedTransactions
           /\ tx.from # tx.to
           /\ tx.value = 1
           /\ fdb_db \in [Addresses -> AccountStates]
           /\ fdb_snap[th][1] = fdb_db[tx.from]
           /\ fdb_snap[th][2] = fdb_db[tx.to]
           /\ fdb_db[tx.from].nonce = tx.nonce
           /\ fdb_db[tx.from].balance >= 1
           /\ fdb_pos[th] \notin fdb_applied
  <1>1. Started /\ fdb_pos[th] \in Positions /\ WellFormed(txs, NumTxns)
    <2>1. Started /\ fdb_pos[th] < NumTxns /\ WellFormed(txs, NumTxns)
      BY DEF FdbInductive, SetupFirst
    <2>2. fdb_pos[th] \in 0 .. NumTxns
      BY DEF FdbInductive, FdbTypeOK
    <2>3. QED BY <2>1, <2>2, NumTxnsAssumption DEF Positions
  <1> DEFINE tx == Transfer(th)
  <1>2. tx \in SignedTransactions /\ tx.from # tx.to /\ tx.value = 1
    BY <1>1 DEF WellFormed, Positions, Transfer
  <1>3. fdb_db \in [Addresses -> AccountStates]
    <2>1. PICK stored \in SUBSET Addresses : fdb_db \in [stored -> AccountStates]
      BY DEF FdbInductive, FdbTypeOK
    <2>2. DOMAIN fdb_db = Addresses
      BY <1>1 DEF FdbInductive, SetupFirst
    <2>3. QED BY <2>1, <2>2
  <1>4. tx.from \notin fdb_dirty[th] /\ tx.to \notin fdb_dirty[th]
    BY DEF Conflicts, ReadSet
  <1>5. /\ fdb_snap[th][1] = fdb_db[tx.from] /\ fdb_snap[th][2] = fdb_db[tx.to]
        /\ Accepts(tx, fdb_snap[th][1])
    BY <1>4 DEF FdbInductive, SnapshotsCurrent
  <1>6. fdb_db[tx.from].nonce = tx.nonce /\ fdb_db[tx.from].balance >= 1
    BY <1>2, <1>5 DEF Accepts
  <1>7. fdb_pos[th] \notin fdb_applied
    <2>1. fdb_db[tx.from].nonce \in Nat
      BY <1>2, <1>3 DEF SignedTransactions, AccountStates
    <2>2. fdb_pos[th] \in fdb_applied <=> tx.nonce < fdb_db[tx.from].nonce
      BY <1>1 DEF FdbInductive, AppliedByNonce, Transfer, Positions
    <2>3. QED BY <1>6, <2>1, <2>2
  <1>8. QED BY <1>1, <1>2, <1>3, <1>5, <1>6, <1>7

\* The writes of a commit without conflict.
LEMMA WriteEffect ==
    ASSUME FdbInductive, NEW th \in Threads, fdb_pc[th] = "commit", ~Conflicts(th),
           Write(th)
    PROVE  LET tx == Transfer(th) IN
           /\ fdb_db' \in [Addresses -> AccountStates]
           /\ fdb_db'[tx.from].nonce = tx.nonce + 1
           /\ fdb_db'[tx.from].balance + 1 = fdb_db[tx.from].balance
           /\ fdb_db'[tx.to].nonce = fdb_db[tx.to].nonce
           /\ fdb_db'[tx.to].balance = fdb_db[tx.to].balance + 1
           /\ \A a \in Addresses \ {tx.from, tx.to} : fdb_db'[a] = fdb_db[a]
           /\ fdb_applied' = fdb_applied \cup {fdb_pos[th]}
  <1> DEFINE tx == Transfer(th)
             sender == Debit(tx, fdb_db[tx.from])
             receiver == Credit(tx, fdb_db[tx.to])
  <1>1. /\ tx.from \in Addresses /\ tx.to \in Addresses /\ tx.from # tx.to
        /\ tx.value = 1 /\ tx.nonce \in Nat
        /\ fdb_db \in [Addresses -> AccountStates]
        /\ fdb_db[tx.from].nonce = tx.nonce /\ fdb_db[tx.from].balance >= 1
    BY CleanCommit DEF SignedTransactions
  <1>2. /\ fdb_db' = [fdb_db EXCEPT ![tx.from] = sender, ![tx.to] = receiver]
        /\ fdb_applied' = fdb_applied \cup {fdb_pos[th]}
    BY CleanCommit DEF Write
  <1>3. /\ sender \in AccountStates
        /\ sender.nonce = tx.nonce + 1
        /\ sender.balance + 1 = fdb_db[tx.from].balance
    BY <1>1 DEF Debit, AccountStates
  <1>4. /\ receiver \in AccountStates
        /\ receiver.nonce = fdb_db[tx.to].nonce
        /\ receiver.balance = fdb_db[tx.to].balance + 1
    BY <1>1 DEF Credit, AccountStates
  <1> HIDE DEF tx, sender, receiver
  <1>5. /\ fdb_db' \in [Addresses -> AccountStates]
        /\ fdb_db'[tx.from] = sender
        /\ fdb_db'[tx.to] = receiver
        /\ \A a \in Addresses \ {tx.from, tx.to} : fdb_db'[a] = fdb_db[a]
    BY <1>1, <1>2, <1>3, <1>4
  <1>6. QED BY <1>2, <1>3, <1>4, <1>5 DEF tx

\* A commit without conflict keeps nonces and the applied transfers in step.
LEMMA WriteKeepsNonces ==
    ASSUME FdbInductive, NEW th \in Threads, fdb_pc[th] = "commit", ~Conflicts(th),
           Write(th), txs' = txs
    PROVE  AppliedByNonce'
  <1> DEFINE tx == Transfer(th)
             t == fdb_pos[th]
  <1>1. /\ t \in Positions /\ tx = txs[t] /\ tx.from # tx.to /\ tx.nonce \in Nat
        /\ fdb_db[tx.from].nonce = tx.nonce /\ WellFormed(txs, NumTxns) /\ Started
        /\ fdb_db \in [Addresses -> AccountStates]
    BY CleanCommit DEF Transfer, SignedTransactions
  <1>2. /\ fdb_db'[tx.from].nonce = tx.nonce + 1
        /\ fdb_db'[tx.to].nonce = fdb_db[tx.to].nonce
        /\ \A a \in Addresses \ {tx.from, tx.to} : fdb_db'[a] = fdb_db[a]
        /\ fdb_applied' = fdb_applied \cup {t}
    BY WriteEffect
  <1> HIDE DEF tx, t
  <1>3. ASSUME NEW u \in Positions
        PROVE  u \in fdb_applied' <=> txs[u].nonce < fdb_db'[txs[u].from].nonce
    <2>1. /\ txs[u].nonce \in Nat /\ txs[u].from \in Addresses
          /\ fdb_db[txs[u].from].nonce \in Nat
      BY <1>1 DEF WellFormed, Positions, SignedTransactions, AccountStates
    <2>2. u \in fdb_applied <=> txs[u].nonce < fdb_db[txs[u].from].nonce
      BY <1>1 DEF FdbInductive, AppliedByNonce, Positions
    <2>3. CASE txs[u].from = tx.from
      <3>1. u # t => txs[u].nonce # tx.nonce
        <4>1. u < t => txs[u].nonce < tx.nonce
          BY <1>1, <2>3 DEF WellFormed, Positions
        <4>2. t < u => tx.nonce < txs[u].nonce
          BY <1>1, <2>3 DEF WellFormed, Positions
        <4>3. QED BY <1>1, <2>1, <4>1, <4>2 DEF Positions
      <3>2. u = t => txs[u].nonce = tx.nonce
        BY <1>1
      <3>3. QED BY <1>1, <1>2, <2>1, <2>2, <2>3, <3>1, <3>2
    <2>4. CASE txs[u].from # tx.from
      <3>1. u # t
        BY <1>1, <2>4
      <3>2. fdb_db'[txs[u].from].nonce = fdb_db[txs[u].from].nonce
        BY <1>2, <2>1, <2>4
      <3>3. QED BY <1>2, <2>2, <3>1, <3>2
    <2>5. QED BY <2>3, <2>4
  <1>4. QED BY <1>3 DEF AppliedByNonce, Positions

\* A commit without conflict adds its transfer to the explanation.
LEMMA WriteKeepsLedger ==
    ASSUME FdbInductive, NEW th \in Threads, fdb_pc[th] = "commit", ~Conflicts(th),
           Write(th), txs' = txs
    PROVE  LedgerExplained'
  <1> DEFINE tx == Transfer(th)
             t == fdb_pos[th]
  <1>1. /\ t \in Positions /\ tx = txs[t] /\ tx.from # tx.to /\ tx.nonce \in Nat
        /\ fdb_db[tx.from].nonce = tx.nonce /\ Started /\ t \notin fdb_applied
        /\ fdb_db \in [Addresses -> AccountStates] /\ tx.from \in Addresses
    BY CleanCommit DEF Transfer, SignedTransactions
  <1>2. /\ fdb_db' \in [Addresses -> AccountStates]
        /\ fdb_db'[tx.from].nonce = tx.nonce + 1
        /\ fdb_db'[tx.from].balance + 1 = fdb_db[tx.from].balance
        /\ fdb_db'[tx.to].nonce = fdb_db[tx.to].nonce
        /\ fdb_db'[tx.to].balance = fdb_db[tx.to].balance + 1
        /\ \A a \in Addresses \ {tx.from, tx.to} : fdb_db'[a] = fdb_db[a]
        /\ fdb_applied' = fdb_applied \cup {t}
    BY WriteEffect
  <1>3. fdb_applied \subseteq Positions
    BY DEF FdbInductive, FdbTypeOK, Positions
  <1> HIDE DEF tx, t
  <1>4. ASSUME NEW a \in Addresses
        PROVE  /\ fdb_db'[a].nonce = Cardinality(AppliedFrom(a)')
               /\ fdb_db'[a].balance + Cardinality(AppliedFrom(a)')
                     = InitialBalance + Cardinality(AppliedTo(a)')
    <2>1. /\ IsFiniteSet(AppliedFrom(a)) /\ Cardinality(AppliedFrom(a)) \in Nat
          /\ IsFiniteSet(AppliedTo(a)) /\ Cardinality(AppliedTo(a)) \in Nat
      BY <1>3, PositionsFinite DEF AppliedFrom, AppliedTo
    <2>2. t \notin AppliedFrom(a) /\ t \notin AppliedTo(a)
      BY <1>1 DEF AppliedFrom, AppliedTo
    <2>3. /\ fdb_db[a].nonce = Cardinality(AppliedFrom(a))
          /\ fdb_db[a].balance + Cardinality(AppliedFrom(a))
                    = InitialBalance + Cardinality(AppliedTo(a))
      BY <1>1 DEF FdbInductive, LedgerExplained
    <2>4. AppliedFrom(a)' = IF a = tx.from THEN AppliedFrom(a) \cup {t} ELSE AppliedFrom(a)
      BY <1>1, <1>2 DEF AppliedFrom
    <2>5. AppliedTo(a)' = IF a = tx.to THEN AppliedTo(a) \cup {t} ELSE AppliedTo(a)
      BY <1>1, <1>2 DEF AppliedTo
    <2>6. Cardinality(AppliedFrom(a) \cup {t}) = Cardinality(AppliedFrom(a)) + 1
      BY <2>1, <2>2, FS_AddElement
    <2>7. Cardinality(AppliedTo(a) \cup {t}) = Cardinality(AppliedTo(a)) + 1
      BY <2>1, <2>2, FS_AddElement
    <2>8. /\ fdb_db[a].nonce \in Nat /\ fdb_db[a].balance \in Nat
          /\ fdb_db'[a].nonce \in Nat /\ fdb_db'[a].balance \in Nat
      BY <1>1, <1>2 DEF AccountStates
    <2>9. CASE a = tx.from
      BY <1>1, <1>2, <2>1, <2>3, <2>4, <2>5, <2>6, <2>8, <2>9, InitialBalanceAssumption
    <2>10. CASE a = tx.to
      BY <1>1, <1>2, <2>1, <2>3, <2>4, <2>5, <2>7, <2>8, <2>10, InitialBalanceAssumption
    <2>11. CASE a \notin {tx.from, tx.to}
      BY <1>2, <2>3, <2>4, <2>5, <2>11
    <2>12. QED BY <2>9, <2>10, <2>11
  <1>5. QED BY <1>4 DEF LedgerExplained

-----------------------------------------------------------------------------
(* One lemma per action *)

\* What AppliedByNonce and LedgerExplained speak of does not change.
LEMMA LedgerFrame ==
    ASSUME FdbInductive, UNCHANGED <<txs, fdb_db, fdb_applied>>, Started' => Started
    PROVE  AppliedByNonce' /\ LedgerExplained'
  <1>1. AppliedByNonce'
    BY DEF FdbInductive, AppliedByNonce
  <1>2. LedgerExplained'
    BY DEF FdbInductive, LedgerExplained, AppliedFrom, AppliedTo
  <1>3. QED BY <1>1, <1>2

LEMMA ClearDatabaseOK ==
    ASSUME FdbInductive, ClearDatabase
    PROVE  FdbInductive'
  <1> USE DEF ClearDatabase, setupVars, threadVars
  <1>1. ~Started /\ ~Started'
    BY DEF Started
  <1>2. FdbTypeOK'
    <2>1. \E stored \in SUBSET Addresses : fdb_db' \in [stored -> AccountStates]
      <3>1. fdb_db' \in [{} -> AccountStates]
        BY DEF NoKeys
      <3>2. QED BY <3>1
    <2>2. QED BY <2>1 DEF FdbInductive, FdbTypeOK
  <1>3. SetupFirst'
    BY <1>1 DEF FdbInductive, SetupFirst, NoKeys
  <1>4. SnapshotsCurrent'
    BY <1>1 DEF FdbInductive, SetupFirst, SnapshotsCurrent
  <1>5. AppliedByNonce' /\ LedgerExplained'
    BY <1>1 DEF AppliedByNonce, LedgerExplained
  <1>6. QED BY <1>2, <1>3, <1>4, <1>5 DEF FdbInductive

LEMMA InitBatchOK ==
    ASSUME FdbInductive, InitBatch
    PROVE  FdbInductive'
  <1> USE DEF InitBatch, setupVars, threadVars
  <1>1. ~Started /\ ~Started'
    BY DEF Started
  <1>2. FdbTypeOK'
    <2>1. \E stored \in SUBSET Addresses : fdb_db' \in [stored -> AccountStates]
      <3>1. PICK batch \in SUBSET (Addresses \ DOMAIN fdb_db) :
                fdb_db' = [a \in DOMAIN fdb_db \cup batch |->
                          IF a \in batch THEN Genesis[a] ELSE fdb_db[a]]
        OBVIOUS
      <3>2. PICK stored \in SUBSET Addresses : fdb_db \in [stored -> AccountStates]
        BY DEF FdbInductive, FdbTypeOK
      <3>3. fdb_db' \in [stored \cup batch -> AccountStates]
        BY <3>1, <3>2, GenesisOK
      <3>4. stored \cup batch \in SUBSET Addresses
        BY <3>1, <3>2
      <3>5. QED BY <3>3, <3>4
    <2>2. QED BY <2>1 DEF FdbInductive, FdbTypeOK
  <1>3. SetupFirst'
    <2>1. \A a \in DOMAIN fdb_db' : fdb_db'[a] = Genesis[a]
      BY DEF FdbInductive, SetupFirst
    <2>2. Genesis' = Genesis
      BY DEF Genesis
    <2>3. QED BY <1>1, <2>1, <2>2 DEF FdbInductive, SetupFirst
  <1>4. SnapshotsCurrent'
    BY <1>1 DEF FdbInductive, SetupFirst, SnapshotsCurrent
  <1>5. AppliedByNonce' /\ LedgerExplained'
    BY <1>1 DEF AppliedByNonce, LedgerExplained
  <1>6. QED BY <1>2, <1>3, <1>4, <1>5 DEF FdbInductive

\* StartIdx is an index; a slice that is spawned begins inside the workload.
LEMMA SlicesInside ==
    ASSUME FdbInductive, NEW th \in Threads
    PROVE  StartIdx(th) \in Nat /\ StartIdx(th + 1) \in Nat
  <1> DEFINE q == TxsPerThread(NumTxns, num_threads)
  <1>1. num_threads \in Nat \ {0}
    BY MaxThreadsAssumption DEF FdbInductive, FdbTypeOK
  <1>2. NumTxns + num_threads - 1 \in Nat
    BY <1>1, NumTxnsAssumption
  <1>3. q \in Nat
    BY <1>1, <1>2 DEF TxsPerThread
  <1>4. th \in Nat
    BY MaxThreadsAssumption DEF Threads
  <1> HIDE DEF q
  <1>5. th * q \in Nat /\ (th + 1) * q \in Nat
    BY <1>3, <1>4
  <1>6. QED BY <1>5 DEF StartIdx, q

LEMMA SpawnOK ==
    ASSUME FdbInductive, Spawn
    PROVE  FdbInductive'
  <1> USE DEF Spawn, setupVars
  <1>1. /\ ~Started /\ Started' /\ fdb_applied = {} /\ fdb_applied' = {}
        /\ \A a \in Addresses : fdb_db[a] = Genesis[a]
        /\ WellFormed(txs, NumTxns)
    BY DEF FdbInductive, SetupFirst, Started
  <1>2. fdb_pc' \in [Threads -> {"idle", "verify"}]
    OBVIOUS
  <1>3. fdb_pos' \in [Threads -> 0 .. NumTxns]
    <2>1. \A th \in Spawned : StartIdx(th) \in 0 .. NumTxns
      BY SlicesInside, NumTxnsAssumption DEF Spawned
    <2>2. QED BY <2>1, NumTxnsAssumption
  <1>4. FdbTypeOK'
    BY <1>2, <1>3 DEF FdbInductive, FdbTypeOK
  <1>5. SetupFirst'
    BY <1>1, <1>2 DEF FdbInductive, SetupFirst
  <1>6. SnapshotsCurrent'
    BY <1>2 DEF SnapshotsCurrent
  <1>7. AppliedByNonce'
    <2>1. ASSUME NEW t \in Positions
          PROVE  ~(txs[t].nonce < fdb_db[txs[t].from].nonce)
      BY <1>1, <2>1 DEF WellFormed, Positions, SignedTransactions, Genesis
    <2>2. QED BY <1>1, <2>1 DEF AppliedByNonce, Positions
  <1>8. LedgerExplained'
    <2>1. Cardinality({}) = 0
      BY FS_EmptySet
    <2>2. \A a \in Addresses : AppliedFrom(a)' = {} /\ AppliedTo(a)' = {}
      BY <1>1 DEF AppliedFrom, AppliedTo
    <2>3. \A a \in Addresses : fdb_db'[a].nonce = 0 /\ fdb_db'[a].balance = InitialBalance
      BY <1>1 DEF Genesis
    <2>4. QED BY <2>1, <2>2, <2>3, InitialBalanceAssumption DEF LedgerExplained
  <1>9. QED BY <1>4, <1>5, <1>6, <1>7, <1>8 DEF FdbInductive

\* SetupFails and Join only change the stage.
LEMMA StageOK ==
    ASSUME FdbInductive, SetupFails \/ Join
    PROVE  FdbInductive'
  <1> USE DEF SetupFails, Join, setupVars, threadVars
  <1>1. (Started' <=> Started) /\ fdb_stage' \in {"failed", "done"}
    BY DEF Started
  <1>2. FdbTypeOK'
    BY <1>1 DEF FdbInductive, FdbTypeOK
  <1>3. SetupFirst'
    BY <1>1 DEF FdbInductive, SetupFirst
  <1>4. SnapshotsCurrent'
    BY DEF FdbInductive, SnapshotsCurrent, Transfer
  <1>5. AppliedByNonce' /\ LedgerExplained'
    BY <1>1, LedgerFrame
  <1>6. QED BY <1>2, <1>3, <1>4, <1>5 DEF FdbInductive

\* A thread that is not idle runs on a complete keyspace.
LEMMA Running ==
    ASSUME FdbInductive, NEW th \in Threads, fdb_pc[th] # "idle"
    PROVE  Started /\ fdb_db \in [Addresses -> AccountStates]
  <1>1. Started /\ DOMAIN fdb_db = Addresses
    BY DEF FdbInductive, SetupFirst
  <1>2. PICK stored \in SUBSET Addresses : fdb_db \in [stored -> AccountStates]
    BY DEF FdbInductive, FdbTypeOK
  <1>3. QED BY <1>1, <1>2

\* A step of one thread that does not write to the database.
LEMMA LocalStep ==
    ASSUME FdbInductive, NEW th \in Threads, Started,
           UNCHANGED <<txs, fdb_db, fdb_stage, fdb_applied>>,
           FdbTypeOK',
           \A o \in Threads \ {th} :
              /\ fdb_pc'[o] = fdb_pc[o] /\ fdb_pos'[o] = fdb_pos[o]
              /\ fdb_snap'[o] = fdb_snap[o] /\ fdb_dirty'[o] = fdb_dirty[o],
           fdb_pc'[th] \in {"run", "sleep", "commit"} => fdb_pos'[th] < NumTxns,
           fdb_pc'[th] = "commit" =>
              /\ fdb_snap'[th] \in AccountStates \X AccountStates
              /\ Accepts(txs[fdb_pos'[th]], fdb_snap'[th][1])
              /\ fdb_snap'[th][1] = fdb_db[txs[fdb_pos'[th]].from]
              /\ fdb_snap'[th][2] = fdb_db[txs[fdb_pos'[th]].to]
    PROVE  FdbInductive'
  <1>1. Started'
    BY DEF Started
  <1>2. SetupFirst'
    BY <1>1 DEF FdbInductive, SetupFirst
  <1>3. SnapshotsCurrent'
    BY DEF FdbInductive, SnapshotsCurrent, Transfer
  <1>4. AppliedByNonce' /\ LedgerExplained'
    BY LedgerFrame
  <1>5. QED BY <1>2, <1>3, <1>4 DEF FdbInductive

LEMMA VerifySignerOK ==
    ASSUME FdbInductive, NEW th \in Threads, VerifySigner(th)
    PROVE  FdbInductive'
  <1> USE DEF VerifySigner, FdbGoto, setupVars
  <1>1. Started
    BY Running
  <1>2. fdb_pos[th] < NumTxns /\ fdb_pos[th] + 1 \in 0 .. NumTxns
    <2>1. EndIdx(th) \in Nat /\ EndIdx(th) <= NumTxns
      BY SlicesInside, NumTxnsAssumption DEF EndIdx
    <2>2. fdb_pos[th] \in Nat /\ fdb_pos[th] < EndIdx(th)
      BY NumTxnsAssumption DEF FdbInductive, FdbTypeOK
    <2>3. QED BY <2>1, <2>2, NumTxnsAssumption
  <1>3. FdbTypeOK'
    <2>1. CASE Transfer(th).signed
      BY <2>1 DEF FdbInductive, FdbTypeOK
    <2>2. CASE ~Transfer(th).signed
      <3>1. fdb_failed' \in [Threads -> Nat]
        <4>1. fdb_failed' = [fdb_failed EXCEPT ![th] = fdb_failed[th] + 1]
          BY <2>2
        <4>2. fdb_failed \in [Threads -> Nat]
          BY DEF FdbInductive, FdbTypeOK
        <4> HIDE DEF VerifySigner
        <4>3. QED BY <4>1, <4>2
      <3>2. fdb_pos' \in [Threads -> 0 .. NumTxns]
        BY <1>2, <2>2 DEF FdbInductive, FdbTypeOK
      <3>3. QED BY <2>2, <3>1, <3>2 DEF FdbInductive, FdbTypeOK
    <2>3. QED BY <2>1, <2>2
  <1>4. fdb_pc'[th] \in {"verify", "run"} /\ (fdb_pc'[th] = "run" => fdb_pos'[th] = fdb_pos[th])
    BY DEF FdbInductive, FdbTypeOK
  <1>5. \A o \in Threads \ {th} :
            /\ fdb_pc'[o] = fdb_pc[o] /\ fdb_pos'[o] = fdb_pos[o]
            /\ fdb_snap'[o] = fdb_snap[o] /\ fdb_dirty'[o] = fdb_dirty[o]
    BY DEF FdbInductive, FdbTypeOK
  <1>6. QED BY <1>1, <1>2, <1>3, <1>4, <1>5, LocalStep

LEMMA ThreadExitsOK ==
    ASSUME FdbInductive, NEW th \in Threads, ThreadExits(th)
    PROVE  FdbInductive'
  <1> USE DEF ThreadExits, FdbGoto, setupVars
  <1>1. Started
    BY Running
  <1>2. FdbTypeOK'
    BY DEF FdbInductive, FdbTypeOK
  <1>3. fdb_pc'[th] = "exited" /\ \A o \in Threads \ {th} : fdb_pc'[o] = fdb_pc[o]
    BY DEF FdbInductive, FdbTypeOK
  <1>4. QED BY <1>1, <1>2, <1>3, LocalStep

LEMMA ReadAccountsOK ==
    ASSUME FdbInductive, NEW th \in Threads, ReadAccounts(th)
    PROVE  FdbInductive'
  <1> USE DEF ReadAccounts, FdbGoto, setupVars
  <1> DEFINE tx == Transfer(th)
  <1>1. Started /\ fdb_db \in [Addresses -> AccountStates]
    BY Running
  <1>2. fdb_pos[th] \in Positions
    <2>1. fdb_pos[th] < NumTxns
      BY DEF FdbInductive, SetupFirst
    <2>2. fdb_pos[th] \in 0 .. NumTxns
      BY DEF FdbInductive, FdbTypeOK
    <2>3. QED BY <2>1, <2>2, NumTxnsAssumption DEF Positions
  <1>3. tx \in SignedTransactions
    BY <1>2 DEF FdbInductive, FdbTypeOK, Transfer, Positions
  <1>4. fdb_db[tx.from] \in AccountStates /\ fdb_db[tx.to] \in AccountStates
    BY <1>1, <1>3 DEF SignedTransactions
  <1>5. Accepts(tx, fdb_db[tx.from])
    BY DEF Readable
  <1>6. /\ fdb_snap' = [fdb_snap EXCEPT ![th] = <<fdb_db[tx.from], fdb_db[tx.to]>>]
        /\ fdb_dirty' = [fdb_dirty EXCEPT ![th] = {}]
        /\ fdb_pc' = [fdb_pc EXCEPT ![th] = "commit"]
    OBVIOUS
  <1>7. tx = txs[fdb_pos[th]]
    BY DEF Transfer
  <1> HIDE DEF tx
  <1>8. FdbTypeOK'
    BY <1>4, <1>6 DEF FdbInductive, FdbTypeOK
  <1>9. /\ fdb_pc'[th] = "commit" /\ fdb_snap'[th] = <<fdb_db[tx.from], fdb_db[tx.to]>>
        /\ \A o \in Threads \ {th} :
              /\ fdb_pc'[o] = fdb_pc[o] /\ fdb_snap'[o] = fdb_snap[o]
              /\ fdb_dirty'[o] = fdb_dirty[o]
    BY <1>6 DEF FdbInductive, FdbTypeOK
  <1>10. fdb_pos' = fdb_pos /\ fdb_pos[th] < NumTxns
    BY DEF FdbInductive, SetupFirst
  <1>11. /\ fdb_snap'[th] \in AccountStates \X AccountStates
         /\ Accepts(txs[fdb_pos'[th]], fdb_snap'[th][1])
         /\ fdb_snap'[th][1] = fdb_db[txs[fdb_pos'[th]].from]
         /\ fdb_snap'[th][2] = fdb_db[txs[fdb_pos'[th]].to]
    BY <1>4, <1>5, <1>7, <1>9, <1>10
  <1>12. QED BY <1>1, <1>8, <1>9, <1>10, <1>11, LocalStep

\* The steps that give up an attempt and keep the position.
LEMMA RetryOK ==
    ASSUME FdbInductive, NEW th \in Threads,
           ValidationFails(th) \/ Wake(th) \/ CommitRetried(th) \/ CommitFails(th)
    PROVE  FdbInductive'
  <1> USE DEF ValidationFails, Wake, CommitRetried, CommitFails, FdbGoto, setupVars
  <1>1. Started
    BY Running
  <1>2. FdbTypeOK'
    BY DEF FdbInductive, FdbTypeOK
  <1>3. /\ fdb_pc'[th] \in {"run", "sleep"} /\ fdb_pos' = fdb_pos
        /\ \A o \in Threads \ {th} :
              /\ fdb_pc'[o] = fdb_pc[o] /\ fdb_snap'[o] = fdb_snap[o]
              /\ fdb_dirty'[o] = fdb_dirty[o]
    BY DEF FdbInductive, FdbTypeOK
  <1>4. fdb_pos[th] < NumTxns
    BY DEF FdbInductive, SetupFirst
  <1>5. QED BY <1>1, <1>2, <1>3, <1>4, LocalStep

\* The steps that write: Commit and CommitUnknownApplied.
LEMMA WriteOK ==
    ASSUME FdbInductive, NEW th \in Threads, Commit(th) \/ CommitUnknownApplied(th)
    PROVE  FdbInductive'
  <1> USE DEF Commit, CommitUnknownApplied, FdbGoto, setupVars
  <1> DEFINE tx == Transfer(th)
  <1>1. /\ fdb_pc[th] = "commit" /\ ~Conflicts(th) /\ Write(th)
        /\ txs' = txs /\ num_threads' = num_threads /\ fdb_stage' = fdb_stage
        /\ fdb_failed' = fdb_failed
        /\ fdb_snap' = [fdb_snap EXCEPT ![th] = NoRead]
    OBVIOUS
  <1>2. /\ Started /\ fdb_pos[th] \in Positions /\ tx \in SignedTransactions
    BY <1>1, CleanCommit
  <1>3. /\ fdb_db' \in [Addresses -> AccountStates]
        /\ \A a \in Addresses \ {tx.from, tx.to} : fdb_db'[a] = fdb_db[a]
        /\ fdb_applied' = fdb_applied \cup {fdb_pos[th]}
    BY <1>1, WriteEffect
  <1>4. fdb_dirty' = [o \in Threads |->
                    IF o # th /\ fdb_pc[o] = "commit" THEN fdb_dirty[o] \cup {tx.from, tx.to}
                    ELSE {}]
    BY DEF Write, WriteSet
  <1>5. /\ fdb_pc'[th] \in {"verify", "run"}
        /\ fdb_pc'[th] = "run" => fdb_pos'[th] = fdb_pos[th]
        /\ \A o \in Threads \ {th} :
              /\ fdb_pc'[o] = fdb_pc[o] /\ fdb_pos'[o] = fdb_pos[o]
              /\ fdb_snap'[o] = fdb_snap[o]
    BY DEF FdbInductive, FdbTypeOK
  <1>6. FdbTypeOK'
    <2>1. /\ fdb_db' \in [Addresses -> AccountStates]
          /\ fdb_applied' \subseteq 0 .. NumTxns - 1
      BY <1>2, <1>3 DEF FdbInductive, FdbTypeOK, Positions
    <2>2. fdb_dirty' \in [Threads -> SUBSET Addresses]
      BY <1>2, <1>4 DEF FdbInductive, FdbTypeOK, SignedTransactions
    <2>3. fdb_pos' \in [Threads -> 0 .. NumTxns]
      <3>1. fdb_pos[th] + 1 \in 0 .. NumTxns
        BY <1>2, NumTxnsAssumption DEF Positions
      <3>2. fdb_pos' = [fdb_pos EXCEPT ![th] = fdb_pos[th] + 1] \/ fdb_pos' = fdb_pos
        OBVIOUS
      <3>3. fdb_pos \in [Threads -> 0 .. NumTxns]
        BY DEF FdbInductive, FdbTypeOK
      <3> HIDE DEF Commit, CommitUnknownApplied
      <3>4. QED BY <3>1, <3>2, <3>3
    <2>4. fdb_successful' \in [Threads -> Nat]
      <3>1. \/ fdb_successful' = [fdb_successful EXCEPT ![th] = fdb_successful[th] + 1]
            \/ fdb_successful' = fdb_successful
        OBVIOUS
      <3>2. fdb_successful \in [Threads -> Nat]
        BY DEF FdbInductive, FdbTypeOK
      <3> HIDE DEF Commit, CommitUnknownApplied
      <3>3. QED BY <3>1, <3>2
    <2>5. fdb_pc' \in [Threads -> {"idle", "verify", "run", "sleep", "commit", "exited"}]
      BY DEF FdbInductive, FdbTypeOK
    <2>6. fdb_snap' \in [Threads -> (AccountStates \X AccountStates) \cup {NoRead}]
      BY <1>1 DEF FdbInductive, FdbTypeOK
    <2>7. \E stored \in SUBSET Addresses : fdb_db' \in [stored -> AccountStates]
      BY <2>1
    <2>8. QED BY <1>1, <2>1, <2>2, <2>3, <2>4, <2>5, <2>6, <2>7 DEF FdbInductive,
                                                                    FdbTypeOK
  <1>7. SetupFirst'
    <2>1. Started' /\ DOMAIN fdb_db' = Addresses /\ fdb_stage' # "init"
      BY <1>1, <1>2, <1>3 DEF Started
    <2>2. fdb_pos[th] < NumTxns
      BY <1>2, NumTxnsAssumption DEF Positions
    <2>3. \A o \in Threads :
              fdb_pc'[o] \in {"run", "sleep", "commit"} => fdb_pos'[o] < NumTxns
      BY <1>5, <2>2 DEF FdbInductive, SetupFirst
    <2>4. QED BY <1>1, <2>1, <2>3 DEF FdbInductive, SetupFirst
  <1>8. SnapshotsCurrent'
    <2> SUFFICES ASSUME NEW o \in Threads, fdb_pc'[o] = "commit"
                 PROVE  LET other == txs'[fdb_pos'[o]] IN
                        /\ fdb_snap'[o] \in AccountStates \X AccountStates
                        /\ Accepts(other, fdb_snap'[o][1])
                        /\ other.from \notin fdb_dirty'[o] => fdb_snap'[o][1] = fdb_db'[other.from]
                        /\ other.to \notin fdb_dirty'[o] => fdb_snap'[o][2] = fdb_db'[other.to]
      BY DEF SnapshotsCurrent, Transfer
    <2> DEFINE other == txs[fdb_pos[o]]
    <2>1. /\ o # th /\ fdb_pc[o] = "commit" /\ fdb_pos'[o] = fdb_pos[o]
          /\ fdb_snap'[o] = fdb_snap[o]
          /\ fdb_dirty'[o] = fdb_dirty[o] \cup {tx.from, tx.to}
      BY <1>4, <1>5
    <2>2. other \in SignedTransactions
      <3>1. fdb_pos[o] \in 0 .. NumTxns - 1
        BY <2>1, NumTxnsAssumption DEF FdbInductive, FdbTypeOK, SetupFirst
      <3>2. QED BY <3>1 DEF FdbInductive, FdbTypeOK
    <2>3. /\ fdb_snap[o] \in AccountStates \X AccountStates
          /\ Accepts(other, fdb_snap[o][1])
          /\ other.from \notin fdb_dirty[o] => fdb_snap[o][1] = fdb_db[other.from]
          /\ other.to \notin fdb_dirty[o] => fdb_snap[o][2] = fdb_db[other.to]
      BY <2>1 DEF FdbInductive, SnapshotsCurrent, Transfer
    <2>4. other.from \in Addresses /\ other.to \in Addresses
      BY <2>2 DEF SignedTransactions
    <2>5. txs'[fdb_pos'[o]] = other
      BY <1>1, <2>1
    <2> HIDE DEF other, tx
    <2>6. QED BY <1>3, <2>1, <2>3, <2>4, <2>5
  <1>9. AppliedByNonce' /\ LedgerExplained'
    BY <1>1, WriteKeepsNonces, WriteKeepsLedger
  <1>10. QED BY <1>6, <1>7, <1>8, <1>9 DEF FdbInductive

LEMMA FdbNextOK ==
    ASSUME FdbInductive, [FdbNext]_fdbVars
    PROVE  FdbInductive'
  <1>1. CASE FdbMain
    BY <1>1, ClearDatabaseOK, InitBatchOK, SpawnOK, StageOK DEF FdbMain
  <1>2. CASE SetupFails
    BY <1>2, StageOK
  <1>3. ASSUME NEW th \in Threads, ThreadStep(th) PROVE FdbInductive'
    BY <1>3, VerifySignerOK, ThreadExitsOK, ReadAccountsOK, RetryOK, WriteOK
       DEF ThreadStep
  <1>4. CASE UNCHANGED fdbVars
    <2> USE <1>4 DEF fdbVars, setupVars, threadVars
    <2>1. FdbTypeOK' /\ SetupFirst'
      BY DEF FdbInductive, FdbTypeOK, SetupFirst, Started
    <2>2. SnapshotsCurrent'
      BY DEF FdbInductive, SnapshotsCurrent, Transfer
    <2>3. AppliedByNonce' /\ LedgerExplained'
      BY LedgerFrame DEF Started
    <2>4. QED BY <2>1, <2>2, <2>3 DEF FdbInductive
  <1>5. QED BY <1>1, <1>2, <1>3, <1>4 DEF FdbNext, Returned

-----------------------------------------------------------------------------
(* The theorems *)

\* For any number of transfers, accounts and threads: what fdb.rs's threads have
\* read is current unless it is in conflict, and each sender's nonce tells which
\* of its transfers have been applied.
THEOREM FdbInductiveInvariant == FdbSpec => []FdbInductive
  <1>1. FdbInit => FdbInductive
    BY FdbInitNew, FdbNewOK
  <1>2. FdbInductive /\ [FdbNext]_fdbVars => FdbInductive'
    BY FdbNextOK
  <1>3. QED BY <1>1, <1>2, PTL DEF FdbSpec

\* execute_thread loses no transfer and repeats none, whatever the conflicts,
\* retries and unknown results: every account is what the applied transfers make
\* of it.
THEOREM LedgerIsExplained == FdbSpec => []LedgerExplained
  <1>1. FdbInductive => LedgerExplained
    BY DEF FdbInductive
  <1>2. QED BY <1>1, FdbInductiveInvariant, PTL

\* One step respects the order of every sender.
LEMMA StepKeepsOrder ==
    ASSUME FdbInductive, [FdbNext]_fdbVars, NEW t \in Positions
    PROVE  /\ t \in fdb_applied => t \in fdb_applied'
           /\ t \in fdb_applied' \ fdb_applied =>
                 /\ \A u \in 0 .. t - 1 : txs[u].from = txs[t].from => u \in fdb_applied
                 /\ fdb_db'[txs[t].from].nonce = txs[t].nonce + 1
  <1>1. CASE fdb_applied' = fdb_applied
    BY <1>1
  <1>2. ASSUME NEW th \in Threads, Commit(th) \/ CommitUnknownApplied(th)
        PROVE  /\ t \in fdb_applied => t \in fdb_applied'
               /\ t \in fdb_applied' \ fdb_applied =>
                    /\ \A u \in 0 .. t - 1 : txs[u].from = txs[t].from => u \in fdb_applied
                    /\ fdb_db'[txs[t].from].nonce = txs[t].nonce + 1
    <2>1. fdb_pc[th] = "commit" /\ ~Conflicts(th) /\ Write(th)
      BY <1>2 DEF Commit, CommitUnknownApplied
    <2>2. /\ Started /\ WellFormed(txs, NumTxns)
          /\ fdb_db[Transfer(th).from].nonce = Transfer(th).nonce
      BY <2>1, CleanCommit
    <2>3. /\ fdb_applied' = fdb_applied \cup {fdb_pos[th]}
          /\ fdb_db'[Transfer(th).from].nonce = Transfer(th).nonce + 1
      BY <2>1, WriteEffect
    <2>4. ASSUME t = fdb_pos[th], NEW u \in 0 .. t - 1, txs[u].from = txs[t].from
          PROVE  u \in fdb_applied
      <3>1. u \in Positions /\ u < t
        BY NumTxnsAssumption DEF Positions
      <3>2. txs[u].nonce < txs[t].nonce
        BY <2>2, <2>4, <3>1 DEF WellFormed, Positions
      <3>3. fdb_db[txs[u].from].nonce = txs[t].nonce
        BY <2>2, <2>4 DEF Transfer
      <3>4. QED BY <2>2, <3>1, <3>2, <3>3 DEF FdbInductive, AppliedByNonce, Positions
    <2>5. QED BY <2>3, <2>4 DEF Transfer
  <1>3. \/ fdb_applied' = fdb_applied
        \/ \E th \in Threads : Commit(th) \/ CommitUnknownApplied(th)
    BY DEF FdbNext, FdbMain, ThreadStep, Returned, ClearDatabase, InitBatch, Spawn,
           SetupFails, Join, VerifySigner, ThreadExits, ReadAccounts, ValidationFails,
           Wake, CommitRetried, CommitFails, fdbVars
  <1>4. QED BY <1>1, <1>2, <1>3

\* "Per-sender ordering is always preserved" (executor/mod.rs): for any number of
\* transfers, accounts and threads, a transfer takes effect at most once and only
\* after all earlier transfers of its sender.
THEOREM SenderOrderKept == FdbSpec => PerSenderOrder
  <1>1. FdbInductive /\ [FdbNext]_fdbVars =>
          [\A t \in 0 .. NumTxns - 1 :
              /\ t \in fdb_applied => t \in fdb_applied'
              /\ t \in fdb_applied' \ fdb_applied =>
                    /\ \A u \in 0 .. t - 1 : txs[u].from = txs[t].from => u \in fdb_applied
                    /\ fdb_db'[txs[t].from].nonce = txs[t].nonce + 1]_fdbVars
    BY StepKeepsOrder DEF Positions
  <1>2. QED BY <1>1, FdbInductiveInvariant, PTL DEF FdbSpec, PerSenderOrder

-----------------------------------------------------------------------------
(* The refinement of the loose order *)

LEMMA SignedInit == FdbNew => OnlySignedRun
  BY DEF FdbNew, FdbStart, OnlySignedRun

\* execute_thread reaches run only through the signature check, and keeps its
\* position until the transfer is applied.
LEMMA SignedStep ==
    ASSUME FdbInductive, OnlySignedRun, [FdbNext]_fdbVars
    PROVE  OnlySignedRun'
  <1> USE DEF OnlySignedRun, Transfer, setupVars, threadVars
  <1>1. CASE FdbMain \/ SetupFails \/ UNCHANGED fdbVars
    <2>1. CASE Spawn
      <3>1. \A th \in Threads : fdb_pc'[th] \in {"verify", "idle"}
        BY <2>1 DEF Spawn
      <3>2. QED BY <3>1
    <2>2. CASE UNCHANGED <<txs, fdb_pc, fdb_pos>>
      BY <2>2
    <2>3. QED
      BY <1>1, <2>1, <2>2
      DEF FdbMain, ClearDatabase, InitBatch, Join, SetupFails, fdbVars
  <1>2. ASSUME NEW th \in Threads, ThreadStep(th) PROVE OnlySignedRun'
    <2> DEFINE Waiting == {"run", "sleep", "commit"}
    <2>1. txs' = txs /\ \A o \in Threads \ {th} : fdb_pc'[o] = fdb_pc[o] /\ fdb_pos'[o] = fdb_pos[o]
      BY <1>2 DEF ThreadStep, VerifySigner, ThreadExits, ReadAccounts,
         ValidationFails, Wake, Commit, CommitUnknownApplied, CommitRetried,
         CommitFails, FdbGoto, FdbInductive, FdbTypeOK
    <2>2. fdb_pc'[th] \in Waiting => txs[fdb_pos'[th]].signed
      <3>1. CASE VerifySigner(th)
        BY <3>1 DEF VerifySigner, FdbGoto, FdbInductive, FdbTypeOK
      <3>2. CASE ThreadExits(th) \/ Commit(th)
        BY <3>2 DEF ThreadExits, Commit, FdbGoto, FdbInductive, FdbTypeOK
      <3>3. CASE \/ ReadAccounts(th) \/ ValidationFails(th) \/ Wake(th)
                 \/ CommitUnknownApplied(th) \/ CommitRetried(th) \/ CommitFails(th)
        <4>1. fdb_pc[th] \in Waiting /\ fdb_pos' = fdb_pos
          BY <3>3 DEF ReadAccounts, ValidationFails, Wake, CommitUnknownApplied,
             CommitRetried, CommitFails
        <4>2. QED BY <4>1
      <3>4. QED BY <1>2, <3>1, <3>2, <3>3 DEF ThreadStep
    <2>3. QED BY <2>1, <2>2
  <1>3. QED BY <1>1, <1>2 DEF FdbNext, Returned

\* A commit without conflict is a transfer that takes effect as a whole.
LEMMA CommitTakesEffect ==
    ASSUME FdbInductive, OnlySignedRun, [FdbNext]_fdbVars,
           NEW th \in Threads, Commit(th) \/ CommitUnknownApplied(th)
    PROVE  Loose!LooseNext
  <1> DEFINE t == fdb_pos[th]
             tx == Transfer(th)
  <1>1. /\ fdb_pc[th] = "commit" /\ ~Conflicts(th) /\ Write(th)
        /\ UNCHANGED <<txs, fdb_stage>>
    BY DEF Commit, CommitUnknownApplied, setupVars
  <1>2. /\ Started /\ t \in Positions /\ tx = txs[t] /\ tx \in SignedTransactions
        /\ tx.from # tx.to /\ tx.value = 1 /\ t \notin fdb_applied
        /\ fdb_db \in [Addresses -> AccountStates]
        /\ fdb_snap[th][1] = fdb_db[tx.from] /\ fdb_snap[th][2] = fdb_db[tx.to]
        /\ fdb_db[tx.from].nonce = tx.nonce /\ fdb_db[tx.from].balance >= 1
        /\ WellFormed(txs, NumTxns)
    BY <1>1, CleanCommit DEF Transfer
  <1>3. tx.signed
    BY <1>1 DEF OnlySignedRun
  <1>4. LedgerView = fdb_db /\ LedgerView' = fdb_db'
    BY <1>1, <1>2 DEF LedgerView, Started
  <1>5. fdb_applied' = fdb_applied \cup {t}
    BY <1>1 DEF Write
  <1>6. \A u \in 0 .. t - 1 : txs[u].from = txs[t].from => u \in fdb_applied
    BY <1>2, <1>5, StepKeepsOrder
  <1>7. Loose!Succeeds(tx, LedgerView)
    BY <1>2, <1>3, <1>4 DEF Loose!Succeeds, Loose!Accepts
  <1>8. fdb_db' = [fdb_db EXCEPT ![tx.from] = Debit(tx, fdb_db[tx.from]),
                                 ![tx.to] = Credit(tx, fdb_db[tx.to])]
    BY <1>1, <1>2 DEF Write
  <1>9. Loose!Apply(tx, LedgerView) =
            [fdb_db EXCEPT ![tx.from] = Debit(tx, fdb_db[tx.from]),
                           ![tx.to] = Credit(tx, fdb_db[tx.to])]
    BY <1>2, <1>4, <1>7
    DEF Loose!Apply, Loose!Debit, Loose!Credit, Debit, Credit, SignedTransactions
  <1>10. t \in DOMAIN txs
    BY <1>2 DEF WellFormed, Positions
  <1> HIDE DEF t, tx
  <1>11. Loose!TakesEffect(t)
    BY <1>1, <1>2, <1>4, <1>5, <1>6, <1>7, <1>8, <1>9
    DEF Loose!TakesEffect, Loose!InTurn
  <1>12. QED BY <1>10, <1>11 DEF Loose!LooseNext

\* Every other step leaves the ledger the transfers see as it is.
LEMMA LooseStep ==
    ASSUME FdbInductive, OnlySignedRun, [FdbNext]_fdbVars
    PROVE  [Loose!LooseNext]_(Loose!looseVars)
  <1> USE DEF Loose!looseVars, setupVars, threadVars
  <1>1. CASE \E th \in Threads : Commit(th) \/ CommitUnknownApplied(th)
    BY <1>1, CommitTakesEffect
  <1>2. CASE ClearDatabase \/ InitBatch \/ SetupFails
    <2>1. ~Started /\ ~Started' /\ UNCHANGED <<txs, fdb_applied>>
      BY <1>2 DEF ClearDatabase, InitBatch, SetupFails, Started
    <2>2. QED BY <2>1 DEF LedgerView, Genesis
  <1>3. CASE Spawn
    <2>1. /\ ~Started /\ Started' /\ UNCHANGED <<txs, fdb_db, fdb_applied>>
          /\ DOMAIN fdb_db = Addresses /\ \A a \in DOMAIN fdb_db : fdb_db[a] = Genesis[a]
      BY <1>3 DEF Spawn, Started, FdbInductive, SetupFirst
    <2>2. fdb_db = Genesis
      <3>1. PICK stored \in SUBSET Addresses : fdb_db \in [stored -> AccountStates]
        BY DEF FdbInductive, FdbTypeOK
      <3>2. QED BY <2>1, <3>1 DEF Genesis
    <2>3. QED BY <2>1, <2>2 DEF LedgerView, Genesis
  <1>4. CASE UNCHANGED <<txs, fdb_db, fdb_applied>> /\ (Started' <=> Started)
    BY <1>4 DEF LedgerView, Genesis
  <1>5. QED
    BY <1>1, <1>2, <1>3, <1>4
    DEF FdbNext, FdbMain, ThreadStep, Returned, Join, VerifySigner, ThreadExits,
        ReadAccounts, ValidationFails, Wake, CommitRetried, CommitFails, fdbVars,
        Started

\* The threads of fdb.rs implement the loose order executor/mod.rs promises, for
\* any number of transfers, accounts and threads, and any faults: whole transfers
\* take effect one at a time, each sender's in its order.
THEOREM FdbImplementsLooseOrder == FdbSpec => ImplementsLooseOrder
  <1>1. FdbInit => Loose!LooseInit
    BY DEF FdbInit, FdbStart, Loose!LooseInit, LedgerView, Started, Genesis,
           Loose!Genesis
  <1>2. FdbInductive /\ OnlySignedRun /\ [FdbNext]_fdbVars => OnlySignedRun'
    BY SignedStep
  <1>3. FdbInductive /\ OnlySignedRun /\ [FdbNext]_fdbVars
            => [Loose!LooseNext]_(Loose!looseVars)
    BY LooseStep
  <1>4. QED
    BY FdbInitNew, SignedInit, <1>1, <1>2, <1>3, FdbInductiveInvariant, PTL
    DEF FdbSpec, ImplementsLooseOrder, Loose!LooseSpec
-----------------------------------------------------------------------------
(* The slices *)

\* Multiplication and division as TxsPerThread and StartIdx use them.
LEMMA TimesMonotone ==
    ASSUME NEW a \in Nat, NEW b \in Nat, NEW q \in Nat, a <= b
    PROVE  a * q \in Nat /\ b * q \in Nat /\ a * q <= b * q
  OBVIOUS

LEMMA Quotient ==
    ASSUME NEW t \in Nat, NEW q \in Nat \ {0}
    PROVE  t \div q \in Nat /\ (t \div q) * q <= t /\ t < (t \div q) * q + q
  OBVIOUS

LEMMA TimesNext ==
    ASSUME NEW d \in Nat, NEW q \in Nat
    PROVE  (d + 1) * q = d * q + q /\ d * q = q * d
  OBVIOUS

\* Rounding up: a slice is not empty, and the slices reach the end.
LEMMA RoundedUp ==
    ASSUME NEW n \in Nat \ {0}, NEW k \in Nat \ {0}
    PROVE  TxsPerThread(n, k) \in Nat \ {0} /\ n <= k * TxsPerThread(n, k)
  <1> DEFINE d == (n + k - 1) \div k
  <1>1. n + k - 1 \in Nat
    OBVIOUS
  <1>2. d \in Nat /\ d * k <= n + k - 1 /\ n + k - 1 < d * k + k
    BY <1>1, Quotient
  <1> HIDE DEF d
  <1>3. d * k = k * d /\ d * k \in Nat
    BY <1>2, TimesNext, TimesMonotone
  <1>4. n <= k * d
    BY <1>2, <1>3
  <1>5. d # 0
    BY <1>2, <1>4
  <1>6. QED BY <1>2, <1>4, <1>5 DEF TxsPerThread, d

\* The bounds of the slices: each ends before the next begins.
LEMMA SliceBounds ==
    ASSUME FdbInductive, NEW th \in Threads
    PROVE  /\ StartIdx(th) \in Nat /\ EndIdx(th) \in Nat /\ EndIdx(th) <= NumTxns
           /\ th \in Spawned => StartIdx(th) <= EndIdx(th)
           /\ \A o \in Threads : th < o => EndIdx(th) <= StartIdx(o)
  <1> DEFINE q == TxsPerThread(NumTxns, num_threads)
  <1>1. num_threads \in Nat \ {0} /\ th \in Nat
    BY MaxThreadsAssumption DEF FdbInductive, FdbTypeOK, Threads
  <1>2. q \in Nat
    BY <1>1, NumTxnsAssumption DEF TxsPerThread
  <1>3. StartIdx(th) = th * q /\ StartIdx(th + 1) = (th + 1) * q
    BY DEF StartIdx
  <1> HIDE DEF q
  <1>4. th * q \in Nat /\ (th + 1) * q \in Nat /\ th * q <= (th + 1) * q
    BY <1>1, <1>2, TimesMonotone
  <1>5. /\ EndIdx(th) \in Nat /\ EndIdx(th) <= NumTxns /\ EndIdx(th) <= (th + 1) * q
        /\ th \in Spawned => StartIdx(th) <= EndIdx(th)
    BY <1>3, <1>4, NumTxnsAssumption DEF EndIdx, Spawned
  <1>6. ASSUME NEW o \in Threads, th < o PROVE EndIdx(th) <= StartIdx(o)
    <2>1. o \in Nat /\ th + 1 <= o
      BY <1>1, <1>6, MaxThreadsAssumption DEF Threads
    <2>2. (th + 1) * q <= o * q /\ o * q \in Nat
      BY <1>1, <1>2, <2>1, TimesMonotone
    <2>3. StartIdx(o) = o * q
      BY DEF StartIdx, q
    <2>4. QED BY <1>4, <1>5, <2>2, <2>3
  <1>7. QED BY <1>3, <1>4, <1>5, <1>6

\* Every transaction is in a slice that is spawned.
LEMMA SlicesCover ==
    ASSUME FdbInductive, NEW t \in Positions
    PROVE  \E th \in Spawned : t \in StartIdx(th) .. EndIdx(th) - 1
  <1> DEFINE q == TxsPerThread(NumTxns, num_threads)
  <1>1. /\ num_threads \in Nat \ {0} /\ num_threads <= MaxThreads
        /\ NumTxns \in Nat \ {0} /\ t \in Nat /\ t < NumTxns
    BY MaxThreadsAssumption, NumTxnsAssumption DEF FdbInductive, FdbTypeOK, Positions
  <1>2. q \in Nat \ {0} /\ NumTxns <= num_threads * q
    BY <1>1, RoundedUp
  <1> DEFINE th == t \div q
  <1>3. th \in Nat /\ th * q <= t /\ t < (th + 1) * q
    BY <1>1, <1>2, Quotient, TimesNext
  <1>4. StartIdx(th) = th * q /\ StartIdx(th + 1) = (th + 1) * q
    BY DEF StartIdx
  <1> HIDE DEF th, q
  <1>5. th < num_threads
    <2>1. CASE num_threads <= th
      <3>1. num_threads * q <= th * q /\ num_threads * q \in Nat /\ th * q \in Nat
        BY <1>1, <1>2, <1>3, <2>1, TimesMonotone
      <3>2. QED BY <1>1, <1>2, <1>3, <3>1
    <2>2. QED BY <1>1, <1>3, <2>1
  <1>6. th * q \in Nat /\ (th + 1) * q \in Nat
    BY <1>2, <1>3, TimesMonotone
  <1>7. th \in Spawned
    BY <1>1, <1>3, <1>4, <1>5, <1>6, MaxThreadsAssumption DEF Spawned, Threads
  <1>8. t \in StartIdx(th) .. EndIdx(th) - 1
    BY <1>1, <1>3, <1>4, <1>6 DEF EndIdx
  <1>9. QED BY <1>7, <1>8

\* The signed transfers a thread has passed.
Handled(th) == {t \in StartIdx(th) .. fdb_pos[th] - 1 : txs[t].signed}

\* A thread stays in its slice and leaves it at the end.
InSlice(th) ==
    /\ fdb_pc[th] # "idle"
    /\ fdb_pos[th] \in StartIdx(th) .. EndIdx(th)
    /\ fdb_pc[th] \in {"run", "sleep", "commit"} => fdb_pos[th] < EndIdx(th)
    /\ fdb_pc[th] = "exited" => fdb_pos[th] = EndIdx(th)

\* What SliceProgress says of one thread.
Progress(th) ==
    /\ Handled(th) \subseteq fdb_applied
    /\ fdb_applied \cap (StartIdx(th) .. EndIdx(th) - 1) \subseteq Handled(th) \cup {fdb_pos[th]}
    /\ fdb_successful[th] = Cardinality(Handled(th))
    /\ fdb_successful[th] + fdb_failed[th] = fdb_pos[th] - StartIdx(th)

\* A thread that is not spawned.
Unused(th) == fdb_pc[th] = "idle" /\ fdb_successful[th] = 0 /\ fdb_failed[th] = 0

AppliedSigned == \A t \in fdb_applied : txs[t].signed

\* The inductive invariant behind SliceProgress and AllHandled.
SliceInv ==
    /\ AppliedSigned
    /\ \A th \in Threads \ Spawned : Unused(th)
    /\ Started => \A th \in Spawned : InSlice(th) /\ Progress(th)
    /\ fdb_stage = "done" => \A th \in Spawned : fdb_pc[th] = "exited"
    /\ ~Started => \A th \in Threads : fdb_successful[th] = 0 /\ fdb_failed[th] = 0

LEMMA SliceInvInit == FdbNew => SliceInv
  BY DEF FdbNew, FdbStart, SliceInv, Unused, AppliedSigned, Started

\* A thread whose variables, and whose slice, a step leaves alone.
LEMMA SliceFrame ==
    ASSUME NEW o, InSlice(o), Progress(o),
           UNCHANGED <<txs, num_threads, fdb_pc[o], fdb_pos[o], fdb_successful[o],
                       fdb_failed[o]>>,
           fdb_applied \subseteq fdb_applied',
           (fdb_applied' \ fdb_applied) \cap (StartIdx(o) .. EndIdx(o) - 1) = {}
    PROVE  InSlice(o)' /\ Progress(o)'
  <1>1. /\ StartIdx(o)' = StartIdx(o) /\ EndIdx(o)' = EndIdx(o)
    BY DEF StartIdx, EndIdx
  <1>2. Handled(o)' = Handled(o)
    BY <1>1 DEF Handled
  <1>3. QED BY <1>1, <1>2 DEF InSlice, Progress

\* How a thread may move: it keeps its position, it skips a transfer that is not
\* signed, or its transfer is applied, with or without its knowing.
Moves(th) ==
    \/ /\ UNCHANGED <<fdb_applied, fdb_pos, fdb_successful, fdb_failed>>
       /\ fdb_pc'[th] # "idle"
       /\ fdb_pc'[th] \in {"run", "sleep", "commit"} => fdb_pos[th] < EndIdx(th)
       /\ fdb_pc'[th] = "exited" => fdb_pos[th] = EndIdx(th)
    \/ /\ fdb_pos[th] < EndIdx(th) /\ ~txs[fdb_pos[th]].signed
       /\ fdb_pos' = [fdb_pos EXCEPT ![th] = @ + 1]
       /\ fdb_failed' = [fdb_failed EXCEPT ![th] = @ + 1]
       /\ UNCHANGED <<fdb_applied, fdb_successful>> /\ fdb_pc'[th] = "verify"
    \/ /\ fdb_pos[th] < EndIdx(th) /\ txs[fdb_pos[th]].signed
       /\ fdb_applied' = fdb_applied \cup {fdb_pos[th]}
       /\ UNCHANGED <<fdb_pos, fdb_successful, fdb_failed>> /\ fdb_pc'[th] = "run"
    \/ /\ fdb_pos[th] < EndIdx(th) /\ txs[fdb_pos[th]].signed
       /\ fdb_applied' = fdb_applied \cup {fdb_pos[th]}
       /\ fdb_pos' = [fdb_pos EXCEPT ![th] = @ + 1]
       /\ fdb_successful' = [fdb_successful EXCEPT ![th] = @ + 1]
       /\ UNCHANGED fdb_failed /\ fdb_pc'[th] = "verify"

LEMMA ThreadMoves ==
    ASSUME FdbInductive, OnlySignedRun, NEW th \in Threads, InSlice(th), ThreadStep(th)
    PROVE  /\ Moves(th) /\ UNCHANGED <<txs, num_threads, fdb_stage>>
           /\ \A o \in Threads \ {th} : fdb_pc'[o] = fdb_pc[o]
           /\ fdb_pc[th] # "exited"
  <1> USE DEF FdbGoto, setupVars
  <1>1. fdb_pc \in [Threads -> {"idle", "verify", "run", "sleep", "commit", "exited"}]
    BY DEF FdbInductive, FdbTypeOK
  <1>2. CASE VerifySigner(th)
    BY <1>1, <1>2 DEF VerifySigner, Moves, Transfer
  <1>3. CASE ThreadExits(th)
    BY <1>1, <1>3 DEF ThreadExits, Moves
  <1>4. CASE \/ ReadAccounts(th) \/ ValidationFails(th) \/ Wake(th)
             \/ CommitRetried(th) \/ CommitFails(th)
    BY <1>1, <1>4
    DEF ReadAccounts, ValidationFails, Wake, CommitRetried, CommitFails, Moves, InSlice
  <1>5. CASE Commit(th) \/ CommitUnknownApplied(th)
    <2>1. fdb_pos[th] < EndIdx(th) /\ txs[fdb_pos[th]].signed
      BY <1>5 DEF Commit, CommitUnknownApplied, InSlice, OnlySignedRun, Transfer
    <2>2. QED
      BY <1>1, <1>5, <2>1 DEF Commit, CommitUnknownApplied, Write, Moves
  <1>6. QED BY <1>2, <1>3, <1>4, <1>5 DEF ThreadStep

\* A thread's own slice after its step.
LEMMA OwnSlice ==
    ASSUME FdbInductive, AppliedSigned, NEW th \in Spawned, InSlice(th), Progress(th),
           Moves(th), UNCHANGED <<txs, num_threads>>
    PROVE  InSlice(th)' /\ Progress(th)'
  <1> DEFINE a == StartIdx(th)
             e == EndIdx(th)
             p == fdb_pos[th]
             seen == {t \in a .. p - 1 : txs[t].signed}
  <1>1. StartIdx(th)' = a /\ EndIdx(th)' = e
    BY DEF StartIdx, EndIdx
  <1>2. /\ a \in Nat /\ e \in Nat /\ e <= NumTxns /\ th \in Threads
        /\ p \in a .. e /\ p \in Nat
    BY SliceBounds DEF InSlice, Spawned
  <1>3. /\ fdb_pos \in [Threads -> 0 .. NumTxns] /\ fdb_successful \in [Threads -> Nat]
        /\ fdb_failed \in [Threads -> Nat]
    BY DEF FdbInductive, FdbTypeOK
  <1>4. Handled(th) = seen /\ Handled(th)' = {t \in a .. fdb_pos'[th] - 1 : txs[t].signed}
    BY <1>1 DEF Handled
  <1>5. /\ seen \subseteq fdb_applied
        /\ fdb_applied \cap (a .. e - 1) \subseteq seen \cup {p}
        /\ fdb_successful[th] = Cardinality(seen)
        /\ fdb_successful[th] + fdb_failed[th] = p - a
    BY <1>4 DEF Progress
  <1>6. seen \subseteq Positions
    BY <1>2, NumTxnsAssumption DEF Positions
  <1>7. IsFiniteSet(seen) /\ p \notin seen
    BY <1>2, <1>6, PositionsFinite
  <1>8. Cardinality(seen \cup {p}) = Cardinality(seen) + 1
    BY <1>7, FS_AddElement
  <1>9. /\ {t \in a .. p : txs[t].signed} = IF txs[p].signed THEN seen \cup {p} ELSE seen
    BY <1>2
  <1>10. (p + 1) - 1 = p
    BY <1>2
  <1> HIDE DEF a, e, seen
  <1> SUFFICES /\ fdb_pc'[th] # "idle" /\ fdb_pos'[th] \in a .. e
               /\ fdb_pc'[th] \in {"run", "sleep", "commit"} => fdb_pos'[th] < e
               /\ fdb_pc'[th] = "exited" => fdb_pos'[th] = e
               /\ Handled(th)' \subseteq fdb_applied'
               /\ fdb_applied' \cap (a .. e - 1) \subseteq Handled(th)' \cup {fdb_pos'[th]}
               /\ fdb_successful'[th] = Cardinality(Handled(th)')
               /\ fdb_successful'[th] + fdb_failed'[th] = fdb_pos'[th] - a
    BY <1>1 DEF InSlice, Progress
  <1>11. CASE /\ UNCHANGED <<fdb_applied, fdb_pos, fdb_successful, fdb_failed>>
              /\ fdb_pc'[th] # "idle"
              /\ fdb_pc'[th] \in {"run", "sleep", "commit"} => p < e
              /\ fdb_pc'[th] = "exited" => p = e
    <2>1. Handled(th)' = seen
      BY <1>4, <1>11 DEF seen
    <2>2. QED BY <1>2, <1>5, <1>11, <2>1
  <1>12. CASE /\ p < e /\ ~txs[p].signed
              /\ fdb_pos' = [fdb_pos EXCEPT ![th] = @ + 1]
              /\ fdb_failed' = [fdb_failed EXCEPT ![th] = @ + 1]
              /\ UNCHANGED <<fdb_applied, fdb_successful>> /\ fdb_pc'[th] = "verify"
    <2>1. fdb_pos'[th] = p + 1 /\ fdb_failed'[th] = fdb_failed[th] + 1
      BY <1>2, <1>3, <1>12
    <2>2. Handled(th)' = seen
      BY <1>4, <1>9, <1>10, <1>12, <2>1
    <2>3. p \notin fdb_applied
      BY <1>12 DEF AppliedSigned
    <2>4. QED
      BY <1>2, <1>3, <1>5, <1>12, <2>1, <2>2, <2>3
  <1>13. CASE /\ p < e /\ txs[p].signed /\ fdb_applied' = fdb_applied \cup {p}
              /\ UNCHANGED <<fdb_pos, fdb_successful, fdb_failed>> /\ fdb_pc'[th] = "run"
    <2>1. Handled(th)' = seen
      BY <1>4, <1>13 DEF seen
    <2>2. QED BY <1>2, <1>5, <1>13, <2>1
  <1>14. CASE /\ p < e /\ txs[p].signed /\ fdb_applied' = fdb_applied \cup {p}
              /\ fdb_pos' = [fdb_pos EXCEPT ![th] = @ + 1]
              /\ fdb_successful' = [fdb_successful EXCEPT ![th] = @ + 1]
              /\ UNCHANGED fdb_failed /\ fdb_pc'[th] = "verify"
    <2>1. fdb_pos'[th] = p + 1 /\ fdb_successful'[th] = fdb_successful[th] + 1
      BY <1>2, <1>3, <1>14
    <2>2. Handled(th)' = seen \cup {p}
      BY <1>4, <1>9, <1>10, <1>14, <2>1
    <2>3. fdb_successful'[th] + fdb_failed'[th] = fdb_pos'[th] - a
      BY <1>2, <1>3, <1>5, <1>14, <2>1
    <2>4. QED BY <1>2, <1>5, <1>8, <1>14, <2>1, <2>2, <2>3
  <1>15. QED BY <1>11, <1>12, <1>13, <1>14 DEF Moves, e

LEMMA SliceThread ==
    ASSUME FdbInductive, OnlySignedRun, SliceInv, NEW th \in Threads, ThreadStep(th)
    PROVE  SliceInv'
  <1>0. fdb_pc[th] # "idle"
    BY DEF ThreadStep, VerifySigner, ThreadExits, ReadAccounts, ValidationFails, Wake,
           Commit, CommitUnknownApplied, CommitRetried, CommitFails
  <1>1. Started /\ th \in Spawned /\ InSlice(th) /\ Progress(th)
    BY <1>0, Running DEF SliceInv, Unused
  <1>2. /\ Moves(th) /\ UNCHANGED <<txs, num_threads, fdb_stage>>
        /\ \A o \in Threads \ {th} : fdb_pc'[o] = fdb_pc[o]
        /\ fdb_pc[th] # "exited"
    BY <1>1, ThreadMoves
  <1>3. Started' /\ fdb_stage' # "done"
    BY <1>1, <1>2 DEF Started, SliceInv
  <1>4. Spawned' = Spawned
    BY <1>2 DEF Spawned, StartIdx, Threads
  <1>5. /\ fdb_pos \in [Threads -> 0 .. NumTxns] /\ fdb_successful \in [Threads -> Nat]
        /\ fdb_failed \in [Threads -> Nat]
    BY DEF FdbInductive, FdbTypeOK
  <1>6. /\ fdb_applied \subseteq fdb_applied'
        /\ \A t \in fdb_applied' \ fdb_applied :
              t = fdb_pos[th] /\ txs[t].signed /\ fdb_pos[th] < EndIdx(th)
    BY <1>2 DEF Moves
  <1>7. AppliedSigned'
    BY <1>2, <1>6 DEF SliceInv, AppliedSigned
  <1>8. ASSUME NEW o \in Spawned, o # th PROVE InSlice(o)' /\ Progress(o)'
    <2>1. /\ o \in Threads /\ o \in Nat /\ th \in Nat
          /\ UNCHANGED <<fdb_pc[o], fdb_pos[o], fdb_successful[o], fdb_failed[o]>>
      <3>1. o \in Threads /\ o \in Nat /\ th \in Nat
        BY MaxThreadsAssumption DEF Spawned, Threads
      <3>2. fdb_pc'[o] = fdb_pc[o]
        BY <1>2, <1>8, <3>1
      <3>3. /\ fdb_pos'[o] = fdb_pos[o] /\ fdb_successful'[o] = fdb_successful[o]
            /\ fdb_failed'[o] = fdb_failed[o]
        BY <1>2, <1>5, <1>8, <3>1 DEF Moves
      <3>4. QED BY <3>1, <3>2, <3>3
    <2>2. ASSUME fdb_pos[th] < EndIdx(th)
          PROVE  fdb_pos[th] \notin StartIdx(o) .. EndIdx(o) - 1
      <3>1. /\ fdb_pos[th] \in Nat /\ StartIdx(th) <= fdb_pos[th] /\ StartIdx(th) \in Nat
            /\ EndIdx(th) \in Nat /\ StartIdx(o) \in Nat /\ EndIdx(o) \in Nat
        BY <1>1, <2>1, SliceBounds DEF InSlice
      <3>2. CASE th < o
        <4>1. EndIdx(th) <= StartIdx(o)
          BY <2>1, <3>2, SliceBounds
        <4>2. QED BY <2>2, <3>1, <4>1
      <3>3. CASE o < th
        <4>1. EndIdx(o) <= StartIdx(th)
          BY <2>1, <3>3, SliceBounds
        <4>2. QED BY <3>1, <4>1
      <3>4. QED BY <1>8, <2>1, <3>2, <3>3
    <2>3. (fdb_applied' \ fdb_applied) \cap (StartIdx(o) .. EndIdx(o) - 1) = {}
      BY <1>6, <2>2
    <2>4. InSlice(o) /\ Progress(o)
      BY <1>1 DEF SliceInv
    <2>5. QED BY <1>2, <1>6, <2>1, <2>3, <2>4, SliceFrame
  <1>9. InSlice(th)' /\ Progress(th)'
    BY <1>1, <1>2, OwnSlice DEF SliceInv
  <1>10. ASSUME NEW o \in Threads \ Spawned PROVE Unused(o)'
    <2>1. Unused(o) /\ o # th /\ fdb_pc'[o] = fdb_pc[o]
      BY <1>1, <1>2 DEF SliceInv
    <2>2. fdb_successful'[o] = fdb_successful[o] /\ fdb_failed'[o] = fdb_failed[o]
      BY <1>2, <1>5, <2>1 DEF Moves
    <2>3. QED BY <2>1, <2>2 DEF Unused
  <1>11. QED BY <1>3, <1>4, <1>7, <1>8, <1>9, <1>10 DEF SliceInv

LEMMA SliceSpawn ==
    ASSUME FdbInductive, SliceInv, Spawn
    PROVE  SliceInv'
  <1>1. /\ ~Started /\ fdb_stage' = "running" /\ fdb_applied = {}
        /\ UNCHANGED <<txs, num_threads, fdb_successful, fdb_failed, fdb_applied>>
        /\ fdb_pc' = [th \in Threads |-> IF th \in Spawned THEN "verify" ELSE "idle"]
        /\ fdb_pos' = [th \in Threads |-> IF th \in Spawned THEN StartIdx(th) ELSE 0]
    BY DEF Spawn, setupVars, Started, FdbInductive, SetupFirst
  <1>2. Spawned' = Spawned
    BY <1>1 DEF Spawned, StartIdx, Threads
  <1>3. AppliedSigned'
    BY <1>1 DEF AppliedSigned
  <1>4. ASSUME NEW th \in Spawned PROVE InSlice(th)' /\ Progress(th)'
    <2>1. th \in Threads /\ fdb_pc'[th] = "verify" /\ fdb_pos'[th] = StartIdx(th)
      BY <1>1 DEF Spawned
    <2>2. StartIdx(th)' = StartIdx(th) /\ EndIdx(th)' = EndIdx(th)
      BY <1>1 DEF StartIdx, EndIdx
    <2>3. StartIdx(th) \in Nat /\ EndIdx(th) \in Nat /\ StartIdx(th) <= EndIdx(th)
      BY <2>1, SliceBounds
    <2>4. InSlice(th)'
      BY <2>1, <2>2, <2>3 DEF InSlice
    <2>5. Handled(th)' = {}
      BY <2>1, <2>2, <2>3 DEF Handled
    <2>6. fdb_successful'[th] = 0 /\ fdb_failed'[th] = 0
      BY <1>1, <2>1 DEF SliceInv
    <2>7. Progress(th)'
      BY <1>1, <2>1, <2>2, <2>3, <2>5, <2>6, FS_EmptySet DEF Progress
    <2>8. QED BY <2>4, <2>7
  <1>5. \A th \in Threads \ Spawned : Unused(th)'
    BY <1>1 DEF SliceInv, Unused
  <1>6. QED BY <1>1, <1>2, <1>3, <1>4, <1>5 DEF SliceInv, Started

LEMMA SliceStep ==
    ASSUME FdbInductive, OnlySignedRun, SliceInv, [FdbNext]_fdbVars
    PROVE  SliceInv'
  <1>1. CASE \/ ClearDatabase \/ InitBatch \/ SetupFails \/ Join \/ Returned
             \/ UNCHANGED fdbVars
    <2>1. UNCHANGED <<txs, num_threads, fdb_pc, fdb_pos, fdb_successful, fdb_failed,
                      fdb_applied>>
      BY <1>1
      DEF ClearDatabase, InitBatch, SetupFails, Join, Returned, fdbVars, setupVars,
          threadVars
    <2>2. /\ Started' <=> Started
          /\ fdb_stage' = "done" => \A th \in Spawned : fdb_pc[th] = "exited"
      BY <1>1
      DEF ClearDatabase, InitBatch, SetupFails, Join, Returned, fdbVars, Started, SliceInv
    <2>3. Spawned' = Spawned
      BY <2>1 DEF Spawned, StartIdx, Threads
    <2>4. AppliedSigned'
      BY <2>1 DEF SliceInv, AppliedSigned
    <2>5. ASSUME Started, NEW th \in Spawned PROVE InSlice(th)' /\ Progress(th)'
      BY <2>1, <2>5, SliceFrame DEF SliceInv
    <2>6. QED BY <2>1, <2>2, <2>3, <2>4, <2>5 DEF SliceInv, Unused
  <1>2. CASE Spawn
    BY <1>2, SliceSpawn
  <1>3. ASSUME NEW th \in Threads, ThreadStep(th) PROVE SliceInv'
    BY <1>3, SliceThread
  <1>4. QED BY <1>1, <1>2, <1>3 DEF FdbNext, FdbMain

LEMMA SlicesInvariant ==
    FdbSpec => [](FdbInductive /\ SliceInv)
  <1>1. FdbInductive /\ OnlySignedRun /\ [FdbNext]_fdbVars => OnlySignedRun'
    BY SignedStep
  <1>2. FdbInductive /\ OnlySignedRun /\ SliceInv /\ [FdbNext]_fdbVars => SliceInv'
    BY SliceStep
  <1>3. QED
    BY FdbInitNew, SignedInit, SliceInvInit, <1>1, <1>2, FdbInductiveInvariant, PTL
    DEF FdbSpec

\* Type correctness of the FoundationDB executor: whatever is retried, no balance
\* goes below zero, and no thread leaves the workload.
THEOREM FdbTypeCorrect == FdbSpec => []FdbTypeOK
  <1>1. FdbInductive => FdbTypeOK
    BY DEF FdbInductive
  <1>2. QED BY <1>1, FdbInductiveInvariant, PTL

\* For any number of threads and transactions, the position of a thread tells what
\* of its slice has been applied and how it has been counted; at most the transfer
\* it is retrying has been applied without its knowing.
THEOREM SlicesProgress == FdbSpec => []SliceProgress
  <1>1. SliceInv => SliceProgress
    BY DEF SliceInv, SliceProgress, Started, Progress, Handled
  <1>2. QED BY <1>1, SlicesInvariant, PTL

\* When all threads have been joined, exactly the signed transfers have been
\* applied.
LEMMA DoneHandlesAll ==
    ASSUME FdbInductive, SliceInv, fdb_stage = "done"
    PROVE  fdb_applied = {t \in 0 .. NumTxns - 1 : txs[t].signed}
  <1>1. fdb_applied \subseteq {t \in 0 .. NumTxns - 1 : txs[t].signed}
    BY DEF FdbInductive, FdbTypeOK, SliceInv, AppliedSigned
  <1>2. ASSUME NEW t \in 0 .. NumTxns - 1, txs[t].signed PROVE t \in fdb_applied
    <2>1. PICK th \in Spawned : t \in StartIdx(th) .. EndIdx(th) - 1
      BY SlicesCover DEF Positions
    <2>2. InSlice(th) /\ Progress(th) /\ fdb_pc[th] = "exited"
      BY DEF SliceInv, Started
    <2>3. t \in Handled(th)
      BY <1>2, <2>1, <2>2 DEF InSlice, Handled
    <2>4. QED BY <2>2, <2>3 DEF Progress
  <1>3. QED BY <1>1, <1>2

\* The ceiling division of execute_workload loses no transaction and hands none
\* to two threads: when all threads have been joined, exactly the signed ones
\* have been applied.
THEOREM EveryTransferHandled == FdbSpec => []AllHandled
  <1>1. FdbInductive /\ SliceInv => AllHandled
    BY DoneHandlesAll DEF AllHandled
  <1>2. QED BY <1>1, SlicesInvariant, PTL
=============================================================================

----------------------------- MODULE MdbxProofs -----------------------------
(***************************************************************************)
(* MDBX batched executor: for any workload, block size and number of       *)
(* accounts, and interrupted and called again anywhere, it implements the  *)
(* durable ledger.                                                         *)
(***************************************************************************)
EXTENDS MdbxBatched, TransferProofs, TLAPS

\* What the refinement rests on: table and cache map addresses to accounts, a
\* call starts with nothing in the cache, and executes on a table that holds
\* every account of the workload.
BatchLedger ==
    /\ WellFormed(txs, NumTxns)
    /\ bat_next \in 0 .. NumTxns
    /\ \E stored \in SUBSET Addresses : bat_accounts \in [stored -> AccountStates]
    /\ \E stored \in SUBSET Addresses : bat_cache \in [stored -> AccountStates]
    /\ bat_pc = "init" => bat_cache = Empty /\ bat_next = 0
    /\ bat_pc = "loop" => DOMAIN bat_accounts = Addresses

LEMMA EmptyIs == Empty \in [{} -> AccountStates]
  BY DEF Empty

LEMMA BatchLedgerInit == BatchInit => BatchLedger
  <1> SUFFICES ASSUME BatchInit PROVE BatchLedger
    OBVIOUS
  <1>1. WellFormed(txs, NumTxns)
    <2>1. txs \in Workloads(NumTxns, SigOutcomes)
      BY DEF BatchInit
    <2>2. QED
      BY <2>1, WorkloadsWellFormed, NumTxnsAssumption, SigOutcomesAssumption
  <1>2. bat_accounts = Empty /\ bat_cache = Empty /\ bat_pc = "init" /\ bat_next = 0
    BY DEF BatchInit, BatchStart
  <1>3. \E stored \in SUBSET Addresses : Empty \in [stored -> AccountStates]
    BY EmptyIs
  <1>4. bat_next \in 0 .. NumTxns
    BY <1>2, NumTxnsAssumption
  <1>5. QED BY <1>1, <1>2, <1>3, <1>4 DEF BatchLedger

\* The state in which execute_block runs a transaction.
LEMMA InBlockIs ==
    ASSUME BatchLedger, InBlock
    PROVE  LET tx == txs[bat_next] IN
           /\ bat_next \in 0 .. NumTxns - 1 /\ bat_next \in DOMAIN txs
           /\ tx \in SignedTransactions /\ tx.from # tx.to /\ tx.value = 1
           /\ bat_accounts \in [Addresses -> AccountStates]
           /\ DOMAIN bat_cache \subseteq Addresses
           /\ \A a \in DOMAIN bat_cache : bat_cache[a] \in AccountStates
           /\ View \in [Addresses -> AccountStates]
           /\ \A a \in Addresses : Cached(a) = View[a]
           /\ CachePasses(tx) <=> Succeeds(tx, View)
  <1> DEFINE tx == txs[bat_next]
  <1>1. bat_next \in 0 .. NumTxns - 1 /\ bat_next \in DOMAIN txs
    BY NumTxnsAssumption DEF BatchLedger, InBlock, WellFormed
  <1>2. tx \in SignedTransactions /\ tx.from # tx.to /\ tx.value = 1
    BY <1>1 DEF BatchLedger, WellFormed
  <1>3. bat_accounts \in [Addresses -> AccountStates]
    BY DEF BatchLedger, InBlock
  <1>4. /\ DOMAIN bat_cache \subseteq Addresses
        /\ \A a \in DOMAIN bat_cache : bat_cache[a] \in AccountStates
    BY DEF BatchLedger
  <1>5. \A a \in Addresses : Cached(a) \in AccountStates
    BY <1>3, <1>4 DEF Cached, GetOrNew, Stored
  <1>6. View = [a \in Addresses |-> Cached(a)]
    BY <1>3, <1>4 DEF View
  <1>7. View \in [Addresses -> AccountStates] /\ \A a \in Addresses : Cached(a) = View[a]
    BY <1>5, <1>6
  <1>8. CachePasses(tx) <=> Succeeds(tx, View)
    <2>1. tx.from \in Addresses
      BY <1>2 DEF SignedTransactions
    <2>2. Visible(tx.from) /\ Cached(tx.from) = View[tx.from]
      BY <1>3, <1>7, <2>1 DEF Visible, Stored
    <2>3. QED BY <2>2 DEF CachePasses, Succeeds
  <1>9. QED BY <1>1, <1>2, <1>3, <1>4, <1>7, <1>8

\* A cached transfer changes the view as the transfer changes a ledger.
LEMMA CacheTransferEffect ==
    ASSUME BatchLedger, CacheTransfer
    PROVE  /\ View' = Apply(txs[bat_next], View)
           /\ bat_cache' \in [DOMAIN bat_cache \cup {txs[bat_next].from, txs[bat_next].to}
                              -> AccountStates]
           /\ Succeeds(txs[bat_next], View)
  <1> DEFINE tx == txs[bat_next]
             sender == Debit(tx, View[tx.from])
             receiver == Credit(tx, View[tx.to])
             touched == DOMAIN bat_cache \cup {tx.from, tx.to}
  <1>1. InBlock /\ CachePasses(tx) /\ UNCHANGED bat_accounts
    BY DEF CacheTransfer
  <1>2. /\ tx.from \in Addresses /\ tx.to \in Addresses /\ tx.from # tx.to
        /\ tx.value = 1
        /\ bat_accounts \in [Addresses -> AccountStates]
        /\ DOMAIN bat_cache \subseteq Addresses
        /\ \A a \in DOMAIN bat_cache : bat_cache[a] \in AccountStates
        /\ View \in [Addresses -> AccountStates]
        /\ \A a \in Addresses : Cached(a) = View[a]
        /\ Succeeds(tx, View)
    BY <1>1, InBlockIs DEF SignedTransactions
  <1>3. sender \in AccountStates /\ receiver \in AccountStates
    <2>1. View[tx.from].balance >= 1
      BY <1>2 DEF Succeeds, Accepts
    <2>2. QED BY <1>2, <2>1 DEF Debit, Credit, AccountStates
  <1>4. bat_cache' = CacheSet(CacheSet(bat_cache, tx.from, sender), tx.to, receiver)
    BY <1>2 DEF CacheTransfer
  <1> HIDE DEF tx, sender, receiver
  <1>5. bat_cache' = [a \in touched |->
                     IF a = tx.to THEN receiver
                     ELSE IF a = tx.from THEN sender ELSE bat_cache[a]]
    BY <1>4 DEF CacheSet
  <1>6. bat_cache' \in [touched -> AccountStates]
    BY <1>2, <1>3, <1>5
  <1>7. View' = [a \in Addresses |->
                    IF a = tx.to THEN receiver
                    ELSE IF a = tx.from THEN sender ELSE View[a]]
    <2>1. DOMAIN bat_accounts' \cup DOMAIN bat_cache' = Addresses
      BY <1>1, <1>2, <1>5
    <2>2. \A a \in Addresses : Cached(a)' = IF a = tx.to THEN receiver
                                            ELSE IF a = tx.from THEN sender ELSE View[a]
      BY <1>1, <1>2, <1>5 DEF Cached, GetOrNew, Stored
    <2>3. QED BY <2>1, <2>2 DEF View
  <1>8. Apply(tx, View) = [View EXCEPT ![tx.from] = sender, ![tx.to] = receiver]
    BY <1>2 DEF Apply, sender, receiver
  <1>9. View' = Apply(tx, View)
    BY <1>2, <1>7, <1>8
  <1>10. QED BY <1>2, <1>6, <1>9 DEF tx

\* A commit makes the view the table, and leaves the view as it is.
LEMMA CommitCacheEffect ==
    ASSUME BatchLedger, CommitCache
    PROVE  /\ bat_accounts' = View /\ View' = View
           /\ bat_accounts' \in [Addresses -> AccountStates]
  <1>1. /\ bat_accounts' = Put(bat_accounts, bat_cache) /\ bat_cache' = Empty
        /\ bat_pc = "loop"
    BY DEF CommitCache
  <1>2. bat_accounts \in [Addresses -> AccountStates]
    BY <1>1 DEF BatchLedger
  <1>3. /\ DOMAIN bat_cache \subseteq Addresses
        /\ \A a \in DOMAIN bat_cache : bat_cache[a] \in AccountStates
    BY DEF BatchLedger
  <1>4. bat_accounts' = [a \in Addresses |->
                        IF a \in DOMAIN bat_cache THEN bat_cache[a] ELSE bat_accounts[a]]
    BY <1>1, <1>2, <1>3 DEF Put
  <1>5. View = [a \in Addresses |->
                   IF a \in DOMAIN bat_cache THEN bat_cache[a] ELSE bat_accounts[a]]
    BY <1>2, <1>3 DEF View, Cached, GetOrNew, Stored
  <1>6. View' = bat_accounts'
    BY <1>1, <1>4 DEF View, Cached, GetOrNew, Stored, Empty
  <1>7. QED BY <1>2, <1>3, <1>4, <1>5, <1>6

\* With nothing in the cache the view is the table.
LEMMA DiscardedView ==
    ASSUME BatchLedger, UNCHANGED bat_accounts, bat_cache' = Empty
    PROVE  View' = bat_accounts
  <1>1. PICK stored \in SUBSET Addresses : bat_accounts \in [stored -> AccountStates]
    BY DEF BatchLedger
  <1>2. QED BY <1>1 DEF View, Cached, GetOrNew, Stored, Empty

\* init_accounts puts every account over whatever an earlier call has left.
LEMMA BeginEffect ==
    ASSUME BatchLedger, BatchBegin
    PROVE  bat_accounts' = Genesis /\ View' = Genesis /\ bat_next = 0 /\ bat_cache' = Empty
  <1>1. /\ bat_accounts' = Put(bat_accounts, Genesis) /\ bat_cache' = bat_cache
        /\ bat_cache = Empty /\ bat_next = 0
    BY DEF BatchBegin, InitAccounts, BatchLedger
  <1>2. DOMAIN bat_accounts \subseteq Addresses
    BY DEF BatchLedger
  <1>3. DOMAIN Genesis = Addresses
    BY DEF Genesis
  <1>4. Put(bat_accounts, Genesis) = Genesis
    BY <1>2, <1>3 DEF Put, Genesis
  <1>5. View' = Genesis
    BY <1>1, <1>3, <1>4, GenesisOK DEF View, Cached, GetOrNew, Stored, Empty
  <1>6. QED BY <1>1, <1>4, <1>5

-----------------------------------------------------------------------------

LEMMA BatchLedgerStep ==
    ASSUME BatchLedger, [BatchNext]_batchVars
    PROVE  BatchLedger'
  <1>1. CASE BatchBegin
    <2>1. UNCHANGED <<txs, bat_next>> /\ bat_pc' = "loop"
      BY <1>1 DEF BatchBegin
    <2>2. /\ bat_accounts' \in [Addresses -> AccountStates]
          /\ bat_cache' \in [{} -> AccountStates]
      BY <1>1, BeginEffect, GenesisOK, EmptyIs
    <2>3. QED BY <2>1, <2>2 DEF BatchLedger, WellFormed
  <1>2. CASE CacheReject
    <2>1. /\ UNCHANGED <<txs, bat_accounts, bat_cache, bat_pc>>
          /\ bat_next' = bat_next + 1 /\ bat_pc = "loop"
      BY <1>2 DEF CacheReject, InBlock
    <2>2. bat_next' \in 0 .. NumTxns
      BY <1>2, <2>1, InBlockIs, NumTxnsAssumption DEF CacheReject
    <2>3. QED BY <2>1, <2>2 DEF BatchLedger, WellFormed
  <1>3. CASE CacheTransfer
    <2>1. /\ UNCHANGED <<txs, bat_accounts, bat_pc>> /\ bat_next' = bat_next + 1
          /\ bat_pc = "loop" /\ InBlock
      BY <1>3 DEF CacheTransfer, InBlock
    <2>2. bat_next' \in 0 .. NumTxns
      BY <2>1, InBlockIs, NumTxnsAssumption
    <2>3. DOMAIN bat_cache \cup {txs[bat_next].from, txs[bat_next].to} \subseteq Addresses
      BY <2>1, InBlockIs DEF SignedTransactions
    <2>4. \E stored \in SUBSET Addresses : bat_cache' \in [stored -> AccountStates]
      BY <1>3, <2>3, CacheTransferEffect
    <2>5. QED BY <2>1, <2>2, <2>4 DEF BatchLedger, WellFormed
  <1>4. CASE CommitCache
    <2>1. UNCHANGED <<txs, bat_next, bat_pc>> /\ bat_pc = "loop" /\ bat_cache' = Empty
      BY <1>4 DEF CommitCache
    <2>2. /\ bat_accounts' \in [Addresses -> AccountStates]
          /\ bat_cache' \in [{} -> AccountStates]
      BY <1>4, <2>1, CommitCacheEffect, EmptyIs
    <2>3. QED BY <2>1, <2>2 DEF BatchLedger, WellFormed
  <1>5. CASE BatchReturn
    BY <1>5 DEF BatchReturn, BatchLedger, WellFormed
  <1>6. CASE BatchInterrupted \/ BatchRerun
    <2>1. /\ UNCHANGED <<txs, bat_accounts>> /\ bat_next' = 0 /\ bat_cache' = Empty
          /\ bat_pc' # "loop"
      BY <1>6 DEF BatchInterrupted, BatchRerun, Discarded
    <2>2. \E stored \in SUBSET Addresses : Empty \in [stored -> AccountStates]
      BY EmptyIs
    <2>3. bat_next' \in 0 .. NumTxns
      BY <2>1, NumTxnsAssumption
    <2>4. QED BY <2>1, <2>2, <2>3 DEF BatchLedger, WellFormed
  <1>7. CASE UNCHANGED batchVars
    BY <1>7 DEF batchVars, BatchLedger, WellFormed
  <1>8. QED BY <1>1, <1>2, <1>3, <1>4, <1>5, <1>6, <1>7 DEF BatchNext

\* DurableLedger has its own copy of the definitions of Transfers.
LEMMA SameTransfers ==
    /\ Durable!Genesis = Genesis
    /\ Durable!NoAccounts = Empty
    /\ \A tx, ledger : Durable!Succeeds(tx, ledger) <=> Succeeds(tx, ledger)
    /\ \A tx, ledger : Durable!Apply(tx, ledger) = Apply(tx, ledger)
  BY DEF Durable!Genesis, Genesis, Durable!NoAccounts, Empty, Durable!Succeeds,
         Succeeds, Durable!Accepts, Accepts, Durable!Apply, Apply, Durable!Debit,
         Debit, Durable!Credit, Credit

LEMMA DurableStep ==
    ASSUME BatchLedger, [BatchNext]_batchVars
    PROVE  [Durable!Reset \/ Durable!Execute \/ Durable!Checkpoint
                \/ Durable!LoseMemory]_(Durable!ledgerVars)
  <1>1. CASE BatchBegin
    <2>1. UNCHANGED <<txs, bat_next>>
      BY <1>1 DEF BatchBegin
    <2>2. QED BY <1>1, <2>1, BeginEffect, SameTransfers DEF Durable!Reset
  <1>2. ASSUME InBlock, bat_next' = bat_next + 1, UNCHANGED <<txs, bat_accounts>>,
               View' = Apply(txs[bat_next], View)
        PROVE  Durable!Execute
    <2>1. bat_next \in DOMAIN txs /\ txs[bat_next].from \in Addresses
      BY <1>2, InBlockIs DEF SignedTransactions
    <2>2. DOMAIN View = Addresses /\ DOMAIN Empty = {}
      BY <1>2, InBlockIs DEF Empty
    <2>3. View # Empty
      BY <2>1, <2>2
    <2>4. QED BY <1>2, <2>1, <2>3, SameTransfers DEF Durable!Execute
  <1>3. CASE CacheReject
    <2>1. InBlock /\ ~CachePasses(txs[bat_next]) /\ bat_next' = bat_next + 1
          /\ UNCHANGED <<txs, bat_accounts, bat_cache>>
      BY <1>3 DEF CacheReject
    <2>2. View' = View
      BY <2>1 DEF View, Cached, GetOrNew, Stored
    <2>3. Apply(txs[bat_next], View) = View
      BY <2>1, InBlockIs DEF Apply
    <2>4. QED BY <1>2, <2>1, <2>2, <2>3
  <1>4. CASE CacheTransfer
    <2>1. InBlock /\ bat_next' = bat_next + 1 /\ UNCHANGED <<txs, bat_accounts>>
      BY <1>4 DEF CacheTransfer
    <2>2. QED BY <1>2, <1>4, <2>1, CacheTransferEffect
  <1>5. CASE CommitCache
    <2>1. UNCHANGED <<txs, bat_next>>
      BY <1>5 DEF CommitCache
    <2>2. QED BY <1>5, <2>1, CommitCacheEffect DEF Durable!Checkpoint
  <1>6. CASE BatchInterrupted \/ BatchRerun
    <2>1. UNCHANGED <<txs, bat_accounts>> /\ bat_next' = 0 /\ bat_cache' = Empty
      BY <1>6 DEF BatchInterrupted, BatchRerun, Discarded
    <2>2. QED BY <2>1, DiscardedView DEF Durable!LoseMemory
  <1>7. CASE BatchReturn \/ UNCHANGED batchVars
    <2>1. UNCHANGED <<txs, bat_accounts, bat_cache, bat_next>>
      BY <1>7 DEF BatchReturn, batchVars
    <2>2. View' = View
      BY <2>1 DEF View, Cached, GetOrNew, Stored
    <2>3. QED BY <2>1, <2>2 DEF Durable!ledgerVars
  <1>8. QED BY <1>1, <1>3, <1>4, <1>5, <1>6, <1>7 DEF BatchNext

\* The batched executor implements the durable ledger: its cache over the table
\* advances one transaction at a time, commit_cache makes all of it durable, and
\* an interruption anywhere loses exactly what was not committed.
THEOREM BatchImplementsDurableLedger == BatchSpec => ImplementsDurableLedger
  <1>1. BatchInit => Durable!LedgerInit
    <2> SUFFICES ASSUME BatchInit PROVE Durable!LedgerInit
      OBVIOUS
    <2>1. bat_accounts = Empty /\ bat_cache = Empty /\ bat_next = 0
      BY DEF BatchInit, BatchStart
    <2>2. View = Empty
      BY <2>1 DEF View, Cached, Empty
    <2>3. QED BY <2>1, <2>2, SameTransfers DEF Durable!LedgerInit
  <1>2. BatchLedger /\ [BatchNext]_batchVars => BatchLedger'
    BY BatchLedgerStep
  <1>3. BatchLedger /\ [BatchNext]_batchVars
            => [Durable!Reset \/ Durable!Execute \/ Durable!Checkpoint
                    \/ Durable!LoseMemory]_(Durable!ledgerVars)
    BY DurableStep
  <1>4. QED
    BY BatchLedgerInit, <1>1, <1>2, <1>3, PTL
    DEF BatchSpec, ImplementsDurableLedger, Durable!LedgerSpec

-----------------------------------------------------------------------------
(* The boundaries of the blocks.                                               *)

LEMMA BlockStarts ==
    ASSUME NEW b \in Nat
    PROVE  /\ b * BlockSize \in Nat
           /\ (b + 1) * BlockSize = b * BlockSize + BlockSize
           /\ BlockStart(b) \in 0 .. NumTxns
           /\ BlockStart(b) <= b * BlockSize
           /\ BlockStart(b) <= BlockStart(b + 1)
           /\ BlockStart(b + 1) <= BlockStart(b) + BlockSize
  <1>1. b * BlockSize \in Nat /\ (b + 1) * BlockSize = b * BlockSize + BlockSize
    BY BlockSizeAssumption
  <1>2. BlockSize \in Nat /\ NumTxns \in Nat
    BY BlockSizeAssumption, NumTxnsAssumption
  <1> DEFINE p == b * BlockSize
             q == (b + 1) * BlockSize
  <1>3. /\ BlockStart(b) = IF p < NumTxns THEN p ELSE NumTxns
        /\ BlockStart(b + 1) = IF q < NumTxns THEN q ELSE NumTxns
    BY DEF BlockStart
  <1>4. p \in Nat /\ q = p + BlockSize
    BY <1>1
  <1> HIDE DEF p, q
  <1>5. /\ BlockStart(b) \in 0 .. NumTxns
        /\ BlockStart(b) <= p
        /\ BlockStart(b) <= BlockStart(b + 1)
        /\ BlockStart(b + 1) <= BlockStart(b) + BlockSize
    BY <1>2, <1>3, <1>4
  <1>6. QED BY <1>1, <1>5 DEF p

LEMMA FirstBlock == BlockStart(0) = 0
  BY NumTxnsAssumption, BlockSizeAssumption DEF BlockStart

\* A multiple of the block size in block b + 1 is the end of that block.
LEMMA NextMultiple ==
    ASSUME NEW b \in Nat, NEW k \in Nat, k % BlockSize = 0,
           b * BlockSize < k, k <= (b + 1) * BlockSize
    PROVE  k = (b + 1) * BlockSize
  <1> DEFINE q == k \div BlockSize
  <1>1. q \in Nat /\ k = q * BlockSize
    BY BlockSizeAssumption
  <1> HIDE DEF q
  <1>2. q > b
    <2> SUFFICES ASSUME q <= b PROVE FALSE
      BY <1>1
    <2>1. q * BlockSize <= b * BlockSize
      BY <1>1, BlockSizeAssumption
    <2>2. b * BlockSize \in Nat
      BY BlockSizeAssumption
    <2>3. QED BY <1>1, <2>1, <2>2
  <1>3. (b + 1) * BlockSize <= q * BlockSize
    BY <1>1, <1>2, BlockSizeAssumption
  <1>4. (b + 1) * BlockSize \in Nat
    BY BlockSizeAssumption
  <1>5. QED BY <1>1, <1>3, <1>4

LEMMA MultipleEnds ==
    ASSUME NEW b \in Nat
    PROVE  ((b + 1) * BlockSize) % BlockSize = 0 /\ (b + 1) * BlockSize > b * BlockSize
  BY BlockSizeAssumption

-----------------------------------------------------------------------------
(* The table, the cache and the counters against the ordered execution.        *)

\* What a BlockResult says of block b, 1 being the first.
ExactFor(b, s, f) ==
    /\ s = Cardinality(AppliedInOrder(txs) \cap (BlockStart(b - 1) .. BlockStart(b) - 1))
    /\ s + f = BlockStart(b) - BlockStart(b - 1)

\* The block under way.
CurrentBlock ==
    LET lo == BlockStart(Len(bat_blocks)) IN
    /\ lo <= bat_next /\ bat_next <= BlockStart(Len(bat_blocks) + 1)
    /\ View = LedgerAfter(txs, bat_next)
    /\ bat_accounts = LedgerAfter(txs, lo)
    /\ bat_successful = Cardinality(AppliedInOrder(txs) \cap (lo .. bat_next - 1))
    /\ bat_successful + bat_failed = bat_next - lo

BlockResults == [successful : 0 .. BlockSize, failed : 0 .. BlockSize]

\* The inductive invariant: the view is the ledger of the ordered execution up
\* to `next`, the table that up to the last block boundary, and the results and
\* counters are those of the blocks so far, whatever an earlier call has left.
BatchInv ==
    /\ BatchLedger
    /\ txs \in Workloads(NumTxns, SigOutcomes)
    /\ bat_pc \in {"init", "loop", "returned", "interrupted"}
    /\ bat_failed \in Nat
    /\ bat_blocks \in Seq(BlockResults)
    /\ Len(bat_blocks) <= NumTxns
    /\ BlockAtomic
    /\ bat_pc \in {"init", "interrupted"} =>
          /\ bat_next = 0 /\ bat_cache = Empty /\ bat_successful = 0 /\ bat_failed = 0
          /\ bat_blocks = <<>>
    /\ bat_pc \in {"loop", "returned"} => CurrentBlock
    /\ bat_pc = "returned" => bat_next = NumTxns /\ BlockStart(Len(bat_blocks)) = NumTxns
    /\ \A b \in 1 .. Len(bat_blocks) : ExactFor(b, bat_blocks[b].successful, bat_blocks[b].failed)

\* The block under way has no more results than it has transactions.
LEMMA CurrentCounts ==
    ASSUME BatchInv, CurrentBlock
    PROVE  LET lo == BlockStart(Len(bat_blocks)) IN
           /\ Len(bat_blocks) \in Nat /\ lo \in 0 .. bat_next /\ bat_next \in 0 .. NumTxns
           /\ bat_successful \in 0 .. bat_next - lo /\ bat_failed \in 0 .. bat_next - lo
           /\ bat_next - lo <= BlockSize
  <1> DEFINE lo == BlockStart(Len(bat_blocks))
  <1>1. Len(bat_blocks) \in Nat
    BY DEF BatchInv
  <1>2. /\ bat_next \in 0 .. NumTxns /\ lo <= bat_next
        /\ bat_next <= BlockStart(Len(bat_blocks) + 1)
    BY DEF BatchInv, BatchLedger, CurrentBlock
  <1>3. /\ lo \in 0 .. NumTxns /\ BlockStart(Len(bat_blocks) + 1) <= lo + BlockSize
        /\ BlockStart(Len(bat_blocks) + 1) \in 0 .. NumTxns
    <2>1. Len(bat_blocks) + 1 \in Nat
      BY <1>1
    <2>2. QED BY <1>1, <2>1, BlockStarts
  <1>4. lo \in 0 .. bat_next
    BY <1>2, <1>3
  <1>5. bat_successful \in 0 .. bat_next - lo
    BY <1>2, <1>4, AppliedAtMost, NumTxnsAssumption
    DEF BatchInv, BatchLedger, CurrentBlock
  <1>6. bat_failed \in Nat /\ bat_successful + bat_failed = bat_next - lo
    BY DEF BatchInv, CurrentBlock
  <1> HIDE DEF lo
  <1>7. bat_next - lo <= BlockSize
    BY <1>2, <1>3, <1>4, BlockSizeAssumption
  <1>8. bat_failed \in 0 .. bat_next - lo
    BY <1>4, <1>5, <1>6
  <1>9. QED BY <1>1, <1>2, <1>4, <1>5, <1>7, <1>8 DEF lo

LEMMA BatchInvInit == BatchInit => BatchInv
  <1> SUFFICES ASSUME BatchInit PROVE BatchInv
    OBVIOUS
  <1>1. BatchLedger
    BY BatchLedgerInit
  <1>2. /\ bat_accounts = Empty /\ bat_pc = "init" /\ bat_next = 0 /\ bat_cache = Empty
        /\ bat_successful = 0 /\ bat_failed = 0 /\ bat_blocks = <<>>
        /\ txs \in Workloads(NumTxns, SigOutcomes)
    BY DEF BatchInit, BatchStart
  <1>3. BlockAtomic
    BY <1>2 DEF BlockAtomic
  <1>4. bat_blocks \in Seq(BlockResults) /\ Len(bat_blocks) = 0 /\ 1 .. Len(bat_blocks) = {}
    BY <1>2
  <1>5. QED BY <1>1, <1>2, <1>3, <1>4, NumTxnsAssumption DEF BatchInv

\* A step that leaves the table alone leaves it a whole number of blocks.
LEMMA AtomicKept ==
    ASSUME BatchInv, UNCHANGED <<bat_accounts, txs>>
    PROVE  BlockAtomic' /\ txs' \in Workloads(NumTxns, SigOutcomes)
  BY DEF BatchInv, BlockAtomic, BlockStart

LEMMA ResultsKept ==
    ASSUME BatchInv, UNCHANGED <<txs, bat_blocks>>
    PROVE  /\ bat_blocks' \in Seq(BlockResults) /\ Len(bat_blocks') <= NumTxns
           /\ \A b \in 1 .. Len(bat_blocks') :
                 ExactFor(b, bat_blocks[b].successful, bat_blocks[b].failed)'
  BY DEF BatchInv, ExactFor, BlockStart

\* One transaction of a block, whatever comes of it.
LEMMA CountedInBlock ==
    ASSUME BatchInv, InBlock, bat_next' = bat_next + 1, UNCHANGED <<bat_accounts, txs,
                                                                    bat_blocks, bat_pc>>,
           View' = Apply(txs[bat_next], View),
           \/ /\ Succeeds(txs[bat_next], View)
              /\ bat_successful' = bat_successful + 1 /\ bat_failed' = bat_failed
           \/ /\ ~Succeeds(txs[bat_next], View)
              /\ bat_successful' = bat_successful /\ bat_failed' = bat_failed + 1
    PROVE  CurrentBlock' /\ bat_failed' \in Nat
  <1> DEFINE L == Len(bat_blocks)
             lo == BlockStart(L)
             n(k) == Cardinality(AppliedInOrder(txs) \cap (lo .. k - 1))
  <1>1. CurrentBlock /\ bat_pc = "loop" /\ bat_next < NumTxns
    BY DEF BatchInv, InBlock
  <1>2. /\ L \in Nat /\ lo \in 0 .. bat_next /\ bat_next \in 0 .. NumTxns - 1
        /\ bat_next \in Nat
        /\ bat_successful \in Nat /\ bat_failed \in Nat
    BY <1>1, CurrentCounts, NumTxnsAssumption
  <1>3. /\ bat_next <= BlockStart(L + 1) /\ View = LedgerAfter(txs, bat_next)
        /\ bat_accounts = LedgerAfter(txs, lo)
        /\ bat_successful = n(bat_next) /\ bat_successful + bat_failed = bat_next - lo
    BY <1>1 DEF CurrentBlock
  <1>4. bat_next # BlockStart(L + 1)
    <2> SUFFICES ASSUME bat_next = BlockStart(L + 1) PROVE FALSE
      OBVIOUS
    <2>1. bat_next = (L + 1) * BlockSize
      BY <1>1 DEF BlockStart
    <2>2. bat_next % BlockSize = 0 /\ bat_next > L * BlockSize
      BY <1>2, <2>1, MultipleEnds
    <2>3. L * BlockSize \in Nat
      BY <1>2, BlockStarts
    <2>4. BlockEnds(bat_next)
      BY <1>2, <2>2, <2>3 DEF BlockEnds
    <2>5. L * BlockSize >= bat_next
      BY <2>4 DEF InBlock
    <2>6. QED BY <1>2, <2>2, <2>3, <2>5
  <1>5. bat_next + 1 <= BlockStart(L + 1)
    <2>1. L + 1 \in Nat
      BY <1>2
    <2>2. BlockStart(L + 1) \in 0 .. NumTxns
      BY <2>1, BlockStarts
    <2>3. QED BY <1>2, <1>3, <1>4, <2>2
  <1>6. /\ Succeeds(txs[bat_next], View) => n(bat_next + 1) = n(bat_next) + 1
        /\ ~Succeeds(txs[bat_next], View) => n(bat_next + 1) = n(bat_next)
    <2>1. (bat_next + 1) - 1 = bat_next
      BY <1>2
    <2>2. WellFormed(txs, NumTxns)
      BY DEF BatchInv, BatchLedger
    <2>3. n(bat_next + 1) = Cardinality(AppliedInOrder(txs) \cap (lo .. bat_next))
      BY <2>1
    <2>4. /\ Succeeds(txs[bat_next], LedgerAfter(txs, bat_next)) =>
                Cardinality(AppliedInOrder(txs) \cap (lo .. bat_next)) = n(bat_next) + 1
          /\ ~Succeeds(txs[bat_next], LedgerAfter(txs, bat_next)) =>
                Cardinality(AppliedInOrder(txs) \cap (lo .. bat_next)) = n(bat_next)
      <3>1. ASSUME NEW l \in 0 .. bat_next
            PROVE  /\ Succeeds(txs[bat_next], LedgerAfter(txs, bat_next)) =>
                         Cardinality(AppliedInOrder(txs) \cap (l .. bat_next))
                            = Cardinality(AppliedInOrder(txs) \cap (l .. bat_next - 1)) + 1
                   /\ ~Succeeds(txs[bat_next], LedgerAfter(txs, bat_next)) =>
                         Cardinality(AppliedInOrder(txs) \cap (l .. bat_next))
                            = Cardinality(AppliedInOrder(txs) \cap (l .. bat_next - 1))
        <4>1. bat_next \in 0 .. NumTxns - 1
          BY <1>2
        <4>2. QED BY <2>2, <4>1, AppliedCount, NumTxnsAssumption
      <3>2. lo \in 0 .. bat_next
        BY <1>2
      <3>3. QED BY <3>1, <3>2
    <2> HIDE DEF n
    <2>5. QED BY <1>3, <2>3, <2>4
  <1>7. View' = LedgerAfter(txs, bat_next + 1)
    BY <1>2, <1>3, LedgerAfterNext
  <1>8. lo' = lo /\ BlockStart(Len(bat_blocks) + 1)' = BlockStart(L + 1)
    BY DEF BlockStart
  <1>9. Cardinality(AppliedInOrder(txs) \cap (lo .. bat_next - 1))' = n(bat_next + 1)
    BY <1>8
  <1> HIDE DEF n, lo
  <1>10. /\ (bat_successful' = n(bat_next + 1))
         /\ bat_successful' + bat_failed' = (bat_next + 1) - lo
         /\ bat_failed' \in Nat /\ lo <= bat_next + 1
    BY <1>2, <1>3, <1>6
  <1>11. QED
    BY <1>3, <1>5, <1>7, <1>8, <1>9, <1>10 DEF CurrentBlock, lo

\* commit_cache runs exactly at the end of the block under way.
LEMMA CommitAtEnd ==
    ASSUME BatchInv, CommitCache
    PROVE  /\ CurrentBlock /\ Len(bat_blocks) \in Nat
           /\ bat_next = BlockStart(Len(bat_blocks) + 1)
           /\ Len(bat_blocks) + 1 <= NumTxns
  <1> DEFINE L == Len(bat_blocks)
  <1>1. /\ bat_pc = "loop" /\ BlockEnds(bat_next) /\ L * BlockSize < bat_next
    BY DEF CommitCache
  <1>2. /\ CurrentBlock /\ L \in Nat /\ bat_next \in 0 .. NumTxns
        /\ bat_next <= BlockStart(L + 1)
    BY <1>1, CurrentCounts DEF BatchInv, CurrentBlock
  <1>3. /\ L * BlockSize \in Nat /\ L + 1 \in Nat
        /\ BlockStart(L + 1) \in 0 .. NumTxns /\ BlockStart(L + 1) <= (L + 1) * BlockSize
        /\ (L + 1) * BlockSize \in Nat
    <2>1. L + 1 \in Nat
      BY <1>2
    <2>2. QED BY <1>2, <2>1, BlockStarts
  <1>4. bat_next = BlockStart(L + 1)
    <2>1. CASE bat_next = NumTxns
      BY <1>2, <1>3, <2>1, NumTxnsAssumption
    <2>2. CASE bat_next % BlockSize = 0
      <3>1. bat_next <= (L + 1) * BlockSize /\ bat_next \in Nat
        BY <1>2, <1>3
      <3>2. bat_next = (L + 1) * BlockSize
        BY <1>1, <1>2, <2>2, <3>1, NextMultiple
      <3>3. QED BY <1>2, <1>3, <3>2
    <2>3. QED BY <1>1, <2>1, <2>2 DEF BlockEnds
  <1>5. L <= L * BlockSize
    BY <1>2, BlockSizeAssumption
  <1>6. L + 1 <= NumTxns
    BY <1>1, <1>2, <1>3, <1>5, NumTxnsAssumption
  <1>7. QED BY <1>2, <1>4, <1>6

\* The committed block's result is pushed, and the next block starts from it.
LEMMA CommitResult ==
    ASSUME BatchInv, CommitCache
    PROVE  /\ CurrentBlock'
           /\ bat_blocks' \in Seq(BlockResults) /\ Len(bat_blocks') <= NumTxns
           /\ \A b \in 1 .. Len(bat_blocks') :
                 ExactFor(b, bat_blocks[b].successful, bat_blocks[b].failed)'
           /\ BlockAtomic'
  <1> DEFINE L == Len(bat_blocks)
             r == [successful |-> bat_successful, failed |-> bat_failed]
  <1>1. /\ bat_blocks' = Append(bat_blocks, r) /\ bat_successful' = 0 /\ bat_failed' = 0
        /\ UNCHANGED <<txs, bat_pc, bat_next>>
    BY DEF CommitCache
  <1>2. /\ CurrentBlock /\ L \in Nat /\ L + 1 \in Nat /\ bat_next = BlockStart(L + 1)
        /\ L + 1 <= NumTxns /\ bat_blocks \in Seq(BlockResults)
    BY CommitAtEnd DEF BatchInv
  <1>3. /\ BlockStart(L) \in 0 .. bat_next /\ bat_next \in 0 .. NumTxns
        /\ bat_successful \in 0 .. bat_next - BlockStart(L)
        /\ bat_failed \in 0 .. bat_next - BlockStart(L)
        /\ bat_next - BlockStart(L) <= BlockSize
    BY <1>2, CurrentCounts
  <1>4. /\ bat_successful = Cardinality(AppliedInOrder(txs) \cap (BlockStart(L) .. bat_next - 1))
        /\ bat_successful + bat_failed = bat_next - BlockStart(L)
        /\ View = LedgerAfter(txs, bat_next)
    BY <1>2 DEF CurrentBlock
  <1>5. r \in BlockResults
    <2>1. bat_successful \in 0 .. BlockSize /\ bat_failed \in 0 .. BlockSize
      BY <1>3, BlockSizeAssumption
    <2>2. QED BY <2>1 DEF BlockResults
  <1>6. /\ bat_blocks' \in Seq(BlockResults) /\ Len(bat_blocks') = L + 1
        /\ bat_blocks'[L + 1] = r
        /\ \A b \in 1 .. L : bat_blocks'[b] = bat_blocks[b]
    BY <1>1, <1>2, <1>5
  <1>7. bat_accounts' = LedgerAfter(txs, bat_next) /\ View' = LedgerAfter(txs, bat_next)
    BY <1>4, CommitCacheEffect DEF BatchInv
  <1>8. /\ BlockStart(Len(bat_blocks))' = BlockStart(L + 1)
        /\ BlockStart(Len(bat_blocks) + 1)' = BlockStart((L + 1) + 1)
    BY <1>6 DEF BlockStart
  <1>9. CurrentBlock'
    <2>1. BlockStart(L + 1) <= BlockStart((L + 1) + 1)
      BY <1>2, BlockStarts
    <2>2. AppliedInOrder(txs) \cap (bat_next .. bat_next - 1) = {}
      BY <1>3
    <2>3. Cardinality(AppliedInOrder(txs) \cap (BlockStart(Len(bat_blocks)) .. bat_next - 1))' = 0
      <3>1. (AppliedInOrder(txs) \cap (BlockStart(Len(bat_blocks)) .. bat_next - 1))'
               = AppliedInOrder(txs) \cap (bat_next .. bat_next - 1)
        BY <1>1, <1>2, <1>8
      <3>2. QED BY <2>2, <3>1, FS_EmptySet
    <2>4. bat_next <= bat_next /\ bat_next - bat_next = 0 /\ 0 + 0 = 0
      BY <1>3
    <2>5. /\ BlockStart(Len(bat_blocks))' = bat_next' /\ bat_next' = bat_next
          /\ txs' = txs
          /\ bat_next <= BlockStart(Len(bat_blocks) + 1)'
      BY <1>1, <1>2, <1>8, <2>1
    <2>6. QED BY <1>1, <1>7, <2>3, <2>4, <2>5 DEF CurrentBlock
  <1>10. ASSUME NEW b \in 1 .. Len(bat_blocks')
         PROVE  ExactFor(b, bat_blocks[b].successful, bat_blocks[b].failed)'
    <2>1. \A s, f : ExactFor(b, s, f)' <=> ExactFor(b, s, f)
      BY <1>1 DEF ExactFor, BlockStart
    <2>2. CASE b \in 1 .. L
      <3>1. ExactFor(b, bat_blocks[b].successful, bat_blocks[b].failed)
        BY <2>2 DEF BatchInv
      <3>2. bat_blocks'[b] = bat_blocks[b]
        BY <1>6, <2>2
      <3>3. ExactFor(b, bat_blocks'[b].successful, bat_blocks'[b].failed)
        BY <3>1, <3>2
      <3>4. QED BY <1>1, <3>3 DEF ExactFor, BlockStart
    <2>3. CASE b = L + 1
      <3>1. /\ b - 1 = L /\ bat_blocks'[b].successful = bat_successful
            /\ bat_blocks'[b].failed = bat_failed
        BY <1>2, <1>6, <2>3
      <3>2. ExactFor(b, bat_successful, bat_failed)
        BY <1>2, <1>4, <2>3, <3>1 DEF ExactFor
      <3>3. ExactFor(b, bat_blocks'[b].successful, bat_blocks'[b].failed)
        BY <3>1, <3>2
      <3>4. QED BY <1>1, <3>3 DEF ExactFor, BlockStart
    <2>4. b \in 1 .. L \/ b = L + 1
      BY <1>2, <1>6
    <2>5. QED BY <2>2, <2>3, <2>4
  <1>11. BlockAtomic'
    <2>1. L + 1 \in 0 .. NumTxns
      BY <1>2, NumTxnsAssumption
    <2>2. bat_accounts' = LedgerAfter(txs', BlockStart(L + 1))
      BY <1>1, <1>2, <1>7
    <2>3. \E b \in 0 .. NumTxns : bat_accounts' = LedgerAfter(txs', BlockStart(b))
      BY <2>1, <2>2
    <2>4. QED BY <2>3 DEF BlockAtomic, BlockStart
  <1>12. QED BY <1>2, <1>6, <1>9, <1>10, <1>11

LEMMA BatchInvStep ==
    ASSUME BatchInv, [BatchNext]_batchVars
    PROVE  BatchInv'
  <1>0. BatchLedger'
    BY BatchLedgerStep DEF BatchInv
  <1>1. CASE BatchBegin
    <2>1. /\ bat_pc = "init" /\ bat_pc' = "loop"
          /\ UNCHANGED <<txs, bat_next, bat_cache, bat_successful, bat_failed,
                         bat_blocks>>
      BY <1>1 DEF BatchBegin
    <2>2. /\ bat_next = 0 /\ bat_cache = Empty /\ bat_successful = 0 /\ bat_failed = 0
          /\ bat_blocks = <<>>
      BY <2>1 DEF BatchInv
    <2>3. bat_accounts' = LedgerAfter(txs, 0) /\ View' = LedgerAfter(txs, 0)
      BY <1>1, BeginEffect, LedgerAfterZero DEF BatchInv
    <2>4. Len(bat_blocks') = 0 /\ BlockStart(Len(bat_blocks))' = 0
      <3>1. Len(bat_blocks') = 0
        BY <2>1, <2>2
      <3>2. QED BY <3>1, FirstBlock DEF BlockStart
    <2>5. BlockStart(Len(bat_blocks) + 1)' \in 0 .. NumTxns
      <3>1. Len(bat_blocks') + 1 = 1 /\ 1 \in Nat
        BY <2>4
      <3>2. BlockStart(1) \in 0 .. NumTxns
        BY BlockStarts
      <3>3. QED BY <3>1, <3>2 DEF BlockStart
    <2>6. CurrentBlock'
      <3>1. Cardinality(AppliedInOrder(txs) \cap (BlockStart(Len(bat_blocks)) .. bat_next - 1))' = 0
        <4>1. (AppliedInOrder(txs) \cap (BlockStart(Len(bat_blocks)) .. bat_next - 1))' = {}
          BY <2>1, <2>2, <2>4
        <4>2. QED BY <4>1, FS_EmptySet
      <3>2. QED BY <2>1, <2>2, <2>3, <2>4, <2>5, <3>1 DEF CurrentBlock
    <2>7. BlockAtomic'
      <3>1. 0 \in 0 .. NumTxns
        BY NumTxnsAssumption
      <3>2. bat_accounts' = LedgerAfter(txs', BlockStart(0))
        BY <2>1, <2>3, FirstBlock
      <3>3. \E b \in 0 .. NumTxns : bat_accounts' = LedgerAfter(txs', BlockStart(b))
        BY <3>1, <3>2
      <3>4. QED BY <3>3 DEF BlockAtomic, BlockStart
    <2>8. /\ bat_blocks' \in Seq(BlockResults) /\ Len(bat_blocks') <= NumTxns
          /\ \A b \in 1 .. Len(bat_blocks') :
                ExactFor(b, bat_blocks[b].successful, bat_blocks[b].failed)'
      BY <2>1, ResultsKept
    <2>9. txs' \in Workloads(NumTxns, SigOutcomes) /\ bat_failed' \in Nat
      BY <2>1 DEF BatchInv
    <2>10. QED BY <1>0, <2>1, <2>6, <2>7, <2>8, <2>9 DEF BatchInv
  <1>2. CASE CacheReject \/ CacheTransfer
    <2>1. /\ InBlock /\ bat_pc = "loop" /\ bat_next' = bat_next + 1
          /\ UNCHANGED <<bat_accounts, txs, bat_pc, bat_blocks>>
      BY <1>2 DEF CacheReject, CacheTransfer, InBlock
    <2>2. CurrentBlock' /\ bat_failed' \in Nat
      <3>1. CASE CacheReject
        <4>1. /\ ~CachePasses(txs[bat_next]) /\ bat_failed' = bat_failed + 1
              /\ UNCHANGED <<bat_cache, bat_successful>>
          BY <3>1 DEF CacheReject
        <4>2. ~Succeeds(txs[bat_next], View)
          BY <2>1, <4>1, InBlockIs DEF BatchInv
        <4>3. View' = View
          BY <2>1, <4>1 DEF View, Cached, GetOrNew, Stored
        <4>4. View' = Apply(txs[bat_next], View)
          BY <4>2, <4>3 DEF Apply
        <4>5. QED BY <2>1, <4>1, <4>2, <4>4, CountedInBlock
      <3>2. CASE CacheTransfer
        <4>1. bat_successful' = bat_successful + 1 /\ UNCHANGED bat_failed
          BY <3>2 DEF CacheTransfer
        <4>2. View' = Apply(txs[bat_next], View) /\ Succeeds(txs[bat_next], View)
          BY <3>2, CacheTransferEffect DEF BatchInv
        <4>3. QED BY <2>1, <4>1, <4>2, CountedInBlock
      <3>3. QED BY <1>2, <3>1, <3>2
    <2>3. BlockAtomic' /\ txs' \in Workloads(NumTxns, SigOutcomes)
      BY <2>1, AtomicKept
    <2>4. /\ bat_blocks' \in Seq(BlockResults) /\ Len(bat_blocks') <= NumTxns
          /\ \A b \in 1 .. Len(bat_blocks') :
                ExactFor(b, bat_blocks[b].successful, bat_blocks[b].failed)'
      BY <2>1, ResultsKept
    <2>5. QED BY <1>0, <2>1, <2>2, <2>3, <2>4 DEF BatchInv
  <1>3. CASE CommitCache
    <2>1. bat_pc = "loop" /\ UNCHANGED <<txs, bat_pc>> /\ bat_failed' = 0
      BY <1>3 DEF CommitCache
    <2>2. txs' \in Workloads(NumTxns, SigOutcomes)
      BY <2>1 DEF BatchInv
    <2>3. QED BY <1>0, <1>3, <2>1, <2>2, CommitResult DEF BatchInv
  <1>4. CASE BatchReturn
    <2>1. /\ UNCHANGED <<bat_accounts, txs, bat_next, bat_cache, bat_successful,
                         bat_failed, bat_blocks>>
          /\ bat_pc = "loop" /\ bat_pc' = "returned" /\ bat_next = NumTxns
          /\ Len(bat_blocks) * BlockSize >= bat_next
      BY <1>4 DEF BatchReturn
    <2>2. CurrentBlock' /\ bat_failed' \in Nat
      BY <2>1 DEF BatchInv, CurrentBlock, BlockStart, View, Cached, GetOrNew, Stored
    <2>3. BlockStart(Len(bat_blocks)) = NumTxns
      <3>1. Len(bat_blocks) * BlockSize \in Nat
        BY BlockStarts DEF BatchInv
      <3>2. QED BY <2>1, <3>1, NumTxnsAssumption DEF BlockStart
    <2>4. bat_next' = NumTxns /\ BlockStart(Len(bat_blocks))' = NumTxns
      BY <2>1, <2>3 DEF BlockStart
    <2>5. BlockAtomic' /\ txs' \in Workloads(NumTxns, SigOutcomes)
      BY <2>1, AtomicKept
    <2>6. /\ bat_blocks' \in Seq(BlockResults) /\ Len(bat_blocks') <= NumTxns
          /\ \A b \in 1 .. Len(bat_blocks') :
                ExactFor(b, bat_blocks[b].successful, bat_blocks[b].failed)'
      BY <2>1, ResultsKept
    <2>7. QED BY <1>0, <2>1, <2>2, <2>4, <2>5, <2>6 DEF BatchInv
  <1>5. CASE BatchInterrupted \/ BatchRerun
    <2>1. /\ UNCHANGED <<bat_accounts, txs>> /\ bat_pc' \in {"init", "interrupted"}
          /\ bat_next' = 0 /\ bat_cache' = Empty /\ bat_successful' = 0 /\ bat_failed' = 0
          /\ bat_blocks' = <<>>
      BY <1>5 DEF BatchInterrupted, BatchRerun, Discarded
    <2>2. /\ bat_blocks' \in Seq(BlockResults) /\ Len(bat_blocks') = 0
          /\ 1 .. Len(bat_blocks') = {}
      BY <2>1
    <2>3. BlockAtomic' /\ txs' \in Workloads(NumTxns, SigOutcomes)
      BY <2>1, AtomicKept
    <2>4. QED BY <1>0, <2>1, <2>2, <2>3, NumTxnsAssumption DEF BatchInv
  <1>6. CASE UNCHANGED batchVars
    <2>1. UNCHANGED <<bat_accounts, txs, bat_pc, bat_next, bat_cache, bat_successful,
                      bat_failed, bat_blocks>>
      BY <1>6 DEF batchVars
    <2>2. CurrentBlock' <=> CurrentBlock
      BY <2>1 DEF CurrentBlock, BlockStart, View, Cached, GetOrNew, Stored
    <2>3. BlockAtomic' /\ txs' \in Workloads(NumTxns, SigOutcomes)
      BY <2>1, AtomicKept
    <2>4. /\ bat_blocks' \in Seq(BlockResults) /\ Len(bat_blocks') <= NumTxns
          /\ \A b \in 1 .. Len(bat_blocks') :
                ExactFor(b, bat_blocks[b].successful, bat_blocks[b].failed)'
      BY <2>1, ResultsKept
    <2>5. BlockStart(Len(bat_blocks))' = BlockStart(Len(bat_blocks))
      BY <2>1 DEF BlockStart
    <2>6. QED BY <1>0, <2>1, <2>2, <2>3, <2>4, <2>5 DEF BatchInv
  <1>7. QED BY <1>1, <1>2, <1>3, <1>4, <1>5, <1>6 DEF BatchNext

-----------------------------------------------------------------------------
(* Theorems.                                                                   *)

\* View, table, counters and results follow the ordered execution at every line
\* of execute_workload, in every call.
THEOREM BatchInvariant == BatchSpec => []BatchInv
  <1>1. BatchInv /\ [BatchNext]_batchVars => BatchInv'
    BY BatchInvStep
  <1>2. QED BY BatchInvInit, <1>1, PTL DEF BatchSpec

\* Every variable of the batched executor keeps its type: no balance goes below
\* zero, and no BlockResult counts more transactions than a block has.
THEOREM BatchTypeCorrect == BatchSpec => []BatchTypeOK
  <1>1. BatchInv => BatchTypeOK
    <2> SUFFICES ASSUME BatchInv PROVE BatchTypeOK
      OBVIOUS
    <2>1. MdbxTypeOK(bat_accounts)
      BY DEF BatchInv, BatchLedger, MdbxTypeOK
    <2>2. txs \in [0 .. NumTxns - 1 -> SignedTransactions] /\ bat_next \in 0 .. NumTxns
      BY DEF BatchInv, BatchLedger, WellFormed
    <2>3. DOMAIN bat_cache \subseteq Addresses /\ \A a \in DOMAIN bat_cache : bat_cache[a] \in AccountStates
      BY DEF BatchInv, BatchLedger
    <2>4. bat_successful \in 0 .. BlockSize /\ bat_failed \in 0 .. BlockSize
      <3>1. CASE bat_pc \in {"init", "interrupted"}
        BY <3>1, BlockSizeAssumption DEF BatchInv
      <3>2. CASE bat_pc \in {"loop", "returned"}
        <4>1. CurrentBlock
          BY <3>2 DEF BatchInv
        <4>2. /\ bat_successful \in 0 .. bat_next - BlockStart(Len(bat_blocks))
              /\ bat_failed \in 0 .. bat_next - BlockStart(Len(bat_blocks))
              /\ BlockStart(Len(bat_blocks)) \in 0 .. bat_next
              /\ bat_next \in 0 .. NumTxns
              /\ bat_next - BlockStart(Len(bat_blocks)) <= BlockSize
          BY <4>1, CurrentCounts
        <4>3. QED BY <4>2, BlockSizeAssumption
      <3>3. QED BY <3>1, <3>2 DEF BatchInv
    <2>5. QED
      BY <2>1, <2>2, <2>3, <2>4 DEF BatchTypeOK, BatchInv, BlockResults
  <1>2. QED BY <1>1, BatchInvariant, PTL

\* Wherever a call is interrupted, the table is the ledger after a whole number
\* of blocks: commit_cache never leaves a block half durable.
THEOREM BlocksAreAtomic == BatchSpec => []BlockAtomic
  <1>1. BatchInv => BlockAtomic
    BY DEF BatchInv
  <1>2. QED BY <1>1, BatchInvariant, PTL

\* A call that returns has committed the whole workload, and every BlockResult
\* counts the transactions of its own block.
THEOREM BlockResultsAreExact == BatchSpec => []BlockResultsExact
  <1>1. BatchInv => BlockResultsExact
    <2> SUFFICES ASSUME BatchInv, bat_pc = "returned"
                 PROVE  /\ bat_accounts = LedgerAfter(txs, NumTxns)
                        /\ BlockStart(Len(bat_blocks)) = NumTxns
                        /\ \A b \in 1 .. Len(bat_blocks) :
                              LET block == BlockStart(b - 1) .. BlockStart(b) - 1 IN
                              /\ bat_blocks[b].successful
                                    = Cardinality(AppliedInOrder(txs) \cap block)
                              /\ bat_blocks[b].successful + bat_blocks[b].failed
                                    = Cardinality(block)
      BY DEF BlockResultsExact
    <2>1. bat_accounts = LedgerAfter(txs, NumTxns) /\ BlockStart(Len(bat_blocks)) = NumTxns
      BY DEF BatchInv, CurrentBlock
    <2>2. ASSUME NEW b \in 1 .. Len(bat_blocks)
          PROVE  /\ bat_blocks[b].successful
                       = Cardinality(AppliedInOrder(txs)
                                        \cap (BlockStart(b - 1) .. BlockStart(b) - 1))
                 /\ bat_blocks[b].successful + bat_blocks[b].failed
                       = Cardinality(BlockStart(b - 1) .. BlockStart(b) - 1)
      <3>1. ExactFor(b, bat_blocks[b].successful, bat_blocks[b].failed)
        BY DEF BatchInv
      <3>2. b \in Nat /\ b - 1 \in Nat /\ (b - 1) + 1 = b
        <4>1. Len(bat_blocks) \in Nat
          BY DEF BatchInv
        <4>2. QED BY <4>1
      <3>3. BlockStart(b) \in 0 .. NumTxns /\ BlockStart(b - 1) \in 0 .. BlockStart(b)
        <4>1. /\ BlockStart(b) \in 0 .. NumTxns /\ BlockStart(b - 1) \in 0 .. NumTxns
              /\ BlockStart(b - 1) <= BlockStart(b)
          BY <3>2, BlockStarts
        <4>2. QED BY <4>1
      <3>4. Cardinality(BlockStart(b - 1) .. BlockStart(b) - 1)
               = BlockStart(b) - BlockStart(b - 1)
        BY <3>3, AppliedAtMost, NumTxnsAssumption DEF BatchInv, BatchLedger
      <3>5. QED BY <3>1, <3>4 DEF ExactFor
    <2>3. QED BY <2>1, <2>2
  <1>2. QED BY <1>1, BatchInvariant, PTL

\* No transaction of a generated workload fails when every signature verifies
\* and nobody can run out of funds: the nonces generate hands out are the ones
\* the checks expect.
THEOREM GeneratedSucceed == BatchSpec => []GeneratedAllSucceed
  <1>1. BatchInv => GeneratedAllSucceed
    <2> SUFFICES ASSUME BatchInv, \A t \in DOMAIN txs : txs[t].signed,
                        InitialBalance >= NumTxns
                 PROVE  bat_failed = 0
      BY DEF GeneratedAllSucceed
    <2>1. CASE bat_pc \in {"init", "interrupted"}
      BY <2>1 DEF BatchInv
    <2>2. CASE bat_pc \in {"loop", "returned"}
      <3> DEFINE lo == BlockStart(Len(bat_blocks))
      <3>1. CurrentBlock
        BY <2>2 DEF BatchInv
      <3>2. lo \in 0 .. bat_next /\ bat_next \in 0 .. NumTxns /\ bat_failed \in Nat
        BY <3>1, CurrentCounts DEF BatchInv
      <3>3. DOMAIN txs = 0 .. NumTxns - 1
        BY DEF BatchInv, BatchLedger, WellFormed
      <3>4. AppliedInOrder(txs) = 0 .. NumTxns - 1
        <4>1. \A t \in 0 .. NumTxns - 1 : txs[t].signed
          BY <3>3
        <4>2. Funded(txs)
          BY RichAreFunded, NumTxnsAssumption DEF BatchInv, BatchLedger
        <4>3. QED
          BY <4>1, <4>2, GeneratedApplied, NumTxnsAssumption, SigOutcomesAssumption
          DEF BatchInv
      <3>5. AppliedInOrder(txs) \cap (lo .. bat_next - 1) = lo .. bat_next - 1
        BY <3>2, <3>4, NumTxnsAssumption
      <3>6. Cardinality(lo .. bat_next - 1) = bat_next - lo
        <4>1. WellFormed(txs, NumTxns)
          BY DEF BatchInv, BatchLedger
        <4> HIDE DEF lo
        <4>2. QED BY <3>2, <4>1, AppliedAtMost, NumTxnsAssumption
      <3>7. bat_successful = bat_next - lo /\ bat_successful + bat_failed = bat_next - lo
        BY <3>1, <3>5, <3>6 DEF CurrentBlock
      <3> HIDE DEF lo
      <3>8. QED BY <3>2, <3>7
    <2>3. QED BY <2>1, <2>2 DEF BatchInv
  <1>2. QED BY <1>1, BatchInvariant, PTL
=============================================================================

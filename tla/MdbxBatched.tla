---------------------------- MODULE MdbxBatched ----------------------------
(***************************************************************************)
(* executor/mdbx_batched.rs: transactions run against a BlockCache over    *)
(* the table, and the cache is committed in one write transaction at the   *)
(* end of each block of the workload.                                      *)
(***************************************************************************)
EXTENDS MdbxDatabase, GivenWorkload, Sequences

\* config.transactions_per_block; workload.blocks are the chunks of that size.
CONSTANT BlockSize

ASSUME BlockSizeAssumption == BlockSize \in Nat \ {0}

VARIABLES
    bat_accounts,     \* the committed table
    bat_pc,           \* where the call is
    bat_next,         \* the transaction to execute next
    bat_cache,        \* BlockCache.accounts
    bat_successful,   \* of the block under way
    bat_failed,       \* of the block under way
    bat_blocks        \* the BlockResults so far

batchVars == <<bat_accounts, txs, bat_pc, bat_next, bat_cache, bat_successful,
               bat_failed, bat_blocks>>

\* A new database, and execute_workload about to be called.
BatchStart ==
    /\ bat_accounts = Empty
    /\ bat_pc = "init"
    /\ bat_next = 0
    /\ bat_cache = Empty
    /\ bat_successful = 0
    /\ bat_failed = 0
    /\ bat_blocks = <<>>

BatchInit == txs \in Workloads(NumTxns, SigOutcomes) /\ BatchStart

BatchBegin ==
    /\ bat_pc = "init"
    /\ bat_accounts' = InitAccounts(bat_accounts)
    /\ bat_pc' = "loop"
    /\ UNCHANGED <<txs, bat_next, bat_cache, bat_successful, bat_failed, bat_blocks>>

\* An account is in the cache or, failing that, in the table.
Visible(a) == a \in DOMAIN bat_cache \/ Stored(bat_accounts, a)

Cached(a) == IF a \in DOMAIN bat_cache THEN bat_cache[a] ELSE GetOrNew(bat_accounts, a)

CachePasses(tx) ==
    /\ tx.signed
    /\ Visible(tx.from)
    /\ Accepts(tx, Cached(tx.from))

\* Mutant: the cache loses the block's earlier entries.
CacheSetFresh(c, a, account) == [x \in {a} |-> account]

\* BlockCache::set_account
CacheSet(c, a, account) ==
    [x \in DOMAIN c \cup {a} |-> IF x = a THEN account ELSE c[x]]

\* The chunk that ends before transaction n is complete.
BlockEnds(n) == n > 0 /\ (n % BlockSize = 0 \/ n = NumTxns)

\* execute_block is between transactions of a block.
InBlock ==
    /\ bat_pc = "loop"
    /\ bat_next < NumTxns
    /\ BlockEnds(bat_next) => Len(bat_blocks) * BlockSize >= bat_next

CacheReject ==
    /\ InBlock
    /\ ~CachePasses(txs[bat_next])
    /\ bat_failed' = bat_failed + 1
    /\ bat_next' = bat_next + 1
    /\ UNCHANGED <<bat_accounts, txs, bat_pc, bat_cache, bat_successful, bat_blocks>>

\* Both new states are computed from what was read, then cached.
CacheTransfer ==
    /\ InBlock
    /\ LET tx == txs[bat_next] IN
          /\ CachePasses(tx)
          /\ bat_cache' = CacheSet(CacheSet(bat_cache, tx.from,
                                            Debit(tx, Cached(tx.from))),
                                   tx.to, Credit(tx, Cached(tx.to)))
    /\ bat_successful' = bat_successful + 1
    /\ bat_next' = bat_next + 1
    /\ UNCHANGED <<bat_accounts, txs, bat_pc, bat_failed, bat_blocks>>

\* Mutant: the counters run on into the next block.
CommitCacheKeepsCounts ==
    /\ bat_pc = "loop"
    /\ BlockEnds(bat_next)
    /\ Len(bat_blocks) * BlockSize < bat_next
    /\ bat_accounts' = Put(bat_accounts, bat_cache)
    /\ bat_cache' = Empty
    /\ bat_blocks' = Append(bat_blocks,
                            [successful |-> bat_successful, failed |-> bat_failed])
    /\ UNCHANGED <<txs, bat_pc, bat_next, bat_successful, bat_failed>>

\* commit_cache at the end of a block; the block's result is pushed.
CommitCache ==
    /\ bat_pc = "loop"
    /\ BlockEnds(bat_next)
    /\ Len(bat_blocks) * BlockSize < bat_next
    /\ bat_accounts' = Put(bat_accounts, bat_cache)
    /\ bat_cache' = Empty
    /\ bat_blocks' = Append(bat_blocks,
                            [successful |-> bat_successful, failed |-> bat_failed])
    /\ bat_successful' = 0
    /\ bat_failed' = 0
    /\ UNCHANGED <<txs, bat_pc, bat_next>>

BatchReturn ==
    /\ bat_pc = "loop"
    /\ bat_next = NumTxns
    /\ Len(bat_blocks) * BlockSize >= bat_next
    /\ bat_pc' = "returned"
    /\ UNCHANGED <<bat_accounts, txs, bat_next, bat_cache, bat_successful, bat_failed,
                   bat_blocks>>

Discarded ==
    /\ bat_next' = 0
    /\ bat_cache' = Empty
    /\ bat_successful' = 0
    /\ bat_failed' = 0
    /\ bat_blocks' = <<>>

\* The process dies, or a database call fails and `?` leaves the function.
BatchInterrupted ==
    /\ bat_pc \in {"init", "loop"}
    /\ bat_pc' = "interrupted"
    /\ Discarded
    /\ UNCHANGED <<bat_accounts, txs>>

\* The same workload is executed again on the database that is there.
BatchRerun ==
    /\ bat_pc \in {"interrupted", "returned"}
    /\ bat_pc' = "init"
    /\ Discarded
    /\ UNCHANGED <<bat_accounts, txs>>

BatchNext ==
    \/ BatchBegin
    \/ CacheReject
    \/ CacheTransfer
    \/ CommitCache
    \/ BatchReturn
    \/ BatchInterrupted
    \/ BatchRerun

BatchSpec == BatchInit /\ [][BatchNext]_batchVars

-----------------------------------------------------------------------------

\* Every variable has its type; in particular no balance goes below zero.
BatchTypeOK ==
    /\ MdbxTypeOK(bat_accounts)
    /\ txs \in [0 .. NumTxns - 1 -> SignedTransactions]
    /\ bat_pc \in {"init", "loop", "returned", "interrupted"}
    /\ bat_next \in 0 .. NumTxns
    /\ DOMAIN bat_cache \subseteq Addresses
    /\ \A a \in DOMAIN bat_cache : bat_cache[a] \in AccountStates
    /\ bat_successful \in 0 .. BlockSize
    /\ bat_failed \in 0 .. BlockSize
    /\ bat_blocks \in Seq([successful : 0 .. BlockSize, failed : 0 .. BlockSize])

\* The first transaction after block b, and the boundaries of all blocks.
BlockStart(b) == IF b * BlockSize < NumTxns THEN b * BlockSize ELSE NumTxns

\* Whatever interrupts it, the table is the ledger after a whole number of
\* blocks, executed in strict order: no block is ever half durable.
BlockAtomic ==
    \/ bat_accounts = Empty
    \/ \E b \in 0 .. NumTxns : bat_accounts = LedgerAfter(txs, BlockStart(b))

\* A call that returns has executed the workload in strict order from genesis,
\* and every BlockResult counts the transactions of its own block, the last
\* and shorter one included.
BlockResultsExact ==
    bat_pc = "returned" =>
        /\ bat_accounts = LedgerAfter(txs, NumTxns)
        /\ BlockStart(Len(bat_blocks)) = NumTxns
        /\ \A b \in 1 .. Len(bat_blocks) :
              LET block == BlockStart(b - 1) .. BlockStart(b) - 1 IN
              /\ bat_blocks[b].successful = Cardinality(AppliedInOrder(txs) \cap block)
              /\ bat_blocks[b].successful + bat_blocks[b].failed = Cardinality(block)

\* The workload generator and the checks agree: when every signature verifies
\* and nobody can run out of funds, no generated transaction fails.
GeneratedAllSucceed ==
    (\A t \in DOMAIN txs : txs[t].signed) /\ InitialBalance >= NumTxns
        => bat_failed = 0

\* The executor's view: the cache over the table.
View == [a \in DOMAIN bat_accounts \cup DOMAIN bat_cache |-> Cached(a)]

\* The executor implements the durable ledger: transactions advance its view
\* one by one, a commit makes all of it durable, an interruption loses exactly
\* what was not committed.
Durable == INSTANCE DurableLedger WITH
    ledger <- View, durable <- bat_accounts, next <- bat_next
ImplementsDurableLedger == Durable!LedgerSpec
=============================================================================

----------------------------- MODULE Benchmark -----------------------------
(***************************************************************************)
(* src/main.rs: one thread runs the executors the command line selects,    *)
(* one section after the other, all on the workload the same seed gives.   *)
(* Every section here is the executor's own module.                        *)
(*                                                                         *)
(* A section's loop over --hot-accounts is one iteration: each iteration   *)
(* starts from a fresh database, except that the FoundationDB keyspace is  *)
(* shared, and there the loop over --threads is modelled.  The Block-STM   *)
(* section runs with as many threads as Workers has.                       *)
(***************************************************************************)
EXTENDS Sequential, MdbxSequential, MdbxBatched, ParallelExecutor, FdbParallel

CONSTANTS
    CommandLines   \* --hot-accounts, the sections selected and compiled in, and the
                   \* senders and receivers the seeds make generate draw

Sections == <<"sequential", "mdbx_sequential", "mdbx_batched", "block_stm", "fdb">>

ASSUME AddressesAssumption == Addresses = 1 .. Cardinality(Addresses)
ASSUME CommandLinesAssumption ==
    CommandLines \subseteq
        [hot : Nat,
         sections : SUBSET {Sections[k] : k \in DOMAIN Sections},
         draws : SUBSET [0 .. NumTxns - 1 -> Pairs]]

VARIABLES
    hot_accounts, selected,   \* the command line
    section,                  \* main is in Sections[section], or past the last one
    panicked,                 \* an expect failed
    all_results               \* the BenchmarkResults so far

mainVars == <<hot_accounts, selected, section, panicked, all_results>>

stmVars == <<vars, mvVars, counters, execLocal>>

benchVars == <<txs, mainVars, callVars, seqVars, batchVars, stmVars, fdbVars>>

\* config.hot_accounts.clamp(2, num_accounts), and the accounts it leaves.
HotAccounts(hot) ==
    {a \in Addresses : a <= 2 \/ a <= hot}

\* Workload::generate, the same in every section.
Generated(hot, draws) ==
    {x \in Workloads(NumTxns, SigOutcomes) :
        /\ \A t \in DOMAIN x : {x[t].from, x[t].to} \subseteq HotAccounts(hot)
        /\ [t \in DOMAIN x |-> <<x[t].from, x[t].to>>] \in draws}

BenchInit ==
    /\ \E line \in CommandLines :
          /\ hot_accounts = line.hot
          /\ selected = line.sections
          /\ txs \in Generated(line.hot, line.draws)
    /\ section = 1
    /\ panicked = FALSE
    /\ all_results = <<>>
    /\ BaselineStart
    /\ SeqStart
    /\ BatchStart
    /\ ExecStart
    /\ num_threads = 1 /\ fdb_db = NoKeys /\ FdbStart

-----------------------------------------------------------------------------
(* main *)

AllSectionsDone == section > Len(Sections)

In(s) == ~panicked /\ ~AllSectionsDone /\ Sections[section] = s /\ s \in selected

\* A section that is not selected, or not compiled in.
SkipSection ==
    /\ ~panicked /\ ~AllSectionsDone
    /\ Sections[section] \notin selected
    /\ section' = section + 1
    /\ UNCHANGED <<txs, hot_accounts, selected, panicked, all_results, callVars,
                   seqVars, batchVars, stmVars, fdbVars>>

\* A row of the results; `ledger` is the database the executor leaves, which
\* main drops.
Row(strict, succeeded, rejected, ledger) ==
    [executor |-> Sections[section], preserves_order |-> strict,
     successful |-> succeeded, failed |-> rejected, ledger |-> ledger]

\* The result is printed and kept.
Push(row) ==
    /\ all_results' = Append(all_results, row)
    /\ UNCHANGED <<txs, hot_accounts, selected, panicked, callVars, seqVars,
                   batchVars, stmVars>>

NextSection == section' = section + 1

\* An executor's Err meets an expect: no later section runs, no summary.
Panic ==
    /\ \/ In("mdbx_sequential") /\ seq_pc = "interrupted"
       \/ In("mdbx_batched") /\ bat_pc = "interrupted"
       \/ In("fdb") /\ fdb_stage = "failed"
    /\ panicked' = TRUE
    /\ UNCHANGED <<txs, hot_accounts, selected, section, all_results, callVars,
                   seqVars, batchVars, stmVars, fdbVars>>

RunSequential ==
    /\ In("sequential")
    /\ BaselineNext
    /\ UNCHANGED <<mainVars, seqVars, batchVars, stmVars, fdbVars>>

SequentialRow ==
    /\ In("sequential") /\ returned
    /\ Push(Row(TRUE, evm_result.successful, evm_result.failed, evm_db))
    /\ NextSection /\ UNCHANGED fdbVars

RunMdbxSequential ==
    /\ In("mdbx_sequential")
    /\ \/ Begin
       \/ Reject
       \/ DebitSender
       \/ CreditReceiver
       \/ Return
       \/ Interrupted
    /\ UNCHANGED <<mainVars, callVars, batchVars, stmVars, fdbVars>>

MdbxSequentialRow ==
    /\ In("mdbx_sequential") /\ seq_pc = "returned"
    /\ Push(Row(TRUE, seq_successful, seq_failed, seq_accounts))
    /\ NextSection /\ UNCHANGED fdbVars

RunMdbxBatched ==
    /\ In("mdbx_batched")
    /\ \/ BatchBegin
       \/ CacheReject
       \/ CacheTransfer
       \/ CommitCache
       \/ BatchReturn
       \/ BatchInterrupted
    /\ UNCHANGED <<mainVars, callVars, seqVars, stmVars, fdbVars>>

Fun == INSTANCE Functions

\* MultiBlockResult: total_successful and total_failed.
TotalSuccessful ==
    Fun!SumFunction([k \in DOMAIN bat_blocks |-> bat_blocks[k].successful])
TotalFailed ==
    Fun!SumFunction([k \in DOMAIN bat_blocks |-> bat_blocks[k].failed])

MdbxBatchedRow ==
    /\ In("mdbx_batched") /\ bat_pc = "returned"
    /\ Push(Row(TRUE, TotalSuccessful, TotalFailed, bat_accounts))
    /\ NextSection /\ UNCHANGED fdbVars

RunBlockStm(w) ==
    /\ In("block_stm")
    /\ WorkerLoop(w)
    /\ UNCHANGED <<mainVars, callVars, seqVars, batchVars, fdbVars>>

BlockStmRow ==
    /\ In("block_stm") /\ Joined
    /\ Push(Row(TRUE, Successful, fail_count, FinalDb))
    /\ NextSection /\ UNCHANGED fdbVars

RunFdbMain ==
    /\ In("fdb")
    /\ FdbMain \/ SetupFails
    /\ UNCHANGED <<mainVars, callVars, seqVars, batchVars, stmVars>>

RunFdb(th) ==
    /\ In("fdb")
    /\ ThreadStep(th)
    /\ UNCHANGED <<mainVars, callVars, seqVars, batchVars, stmVars>>

\* ParallelExecutionResult, the sums over the threads, for one thread count; the
\* next one gets a new executor on the keyspace this one leaves.
FdbRow ==
    /\ In("fdb") /\ fdb_stage = "done"
    /\ Push(Row(FALSE, Fun!SumFunction(fdb_successful), Fun!SumFunction(fdb_failed),
                fdb_db))
    /\ IF num_threads = MaxThreads
       THEN NextSection /\ UNCHANGED fdbVars
       ELSE /\ num_threads' = num_threads + 1
            /\ fdb_stage' = "clear"
            /\ fdb_pc' = [th \in Threads |-> "idle"]
            /\ fdb_pos' = [th \in Threads |-> 0]
            /\ fdb_snap' = [th \in Threads |-> NoRead]
            /\ fdb_dirty' = [th \in Threads |-> {}]
            /\ fdb_successful' = [th \in Threads |-> 0]
            /\ fdb_failed' = [th \in Threads |-> 0]
            /\ fdb_applied' = {}
            /\ UNCHANGED <<section, fdb_db>>

\* print_summary has been called, or the process has died.
Ended == panicked \/ AllSectionsDone

MainStep ==
    \/ SkipSection
    \/ RunSequential \/ SequentialRow
    \/ RunMdbxSequential \/ MdbxSequentialRow
    \/ RunMdbxBatched \/ MdbxBatchedRow
    \/ BlockStmRow
    \/ RunFdbMain \/ FdbRow
    \/ Panic

BenchNext ==
    \/ MainStep
    \/ \E w \in Workers : RunBlockStm(w)
    \/ \E th \in Threads : RunFdb(th)
    \/ Ended /\ UNCHANGED benchVars

\* main and the threads it starts are run by the operating system; locks and
\* FoundationDB are as ExecFairSpec and FdbFairness have them.
BenchFairness ==
    /\ WF_benchVars(MainStep)
    /\ \A w \in Workers : SF_benchVars(RunBlockStm(w))
    /\ \A th \in Threads :
          /\ WF_benchVars(RunFdb(th))
          /\ SF_benchVars(In("fdb") /\ Commit(th)
                 /\ UNCHANGED <<mainVars, callVars, seqVars, batchVars, stmVars>>)

BenchSpec == BenchInit /\ [][BenchNext]_benchVars /\ BenchFairness

-----------------------------------------------------------------------------
(* Properties *)

\* Every variable has its type, each executor's as its own module says.
BenchTypeOK ==
    /\ BaselineTypeOK
    /\ SeqTypeOK
    /\ BatchTypeOK
    /\ ExecTypeOK
    /\ FdbTypeOK
    /\ section \in 1 .. Len(Sections) + 1
    /\ panicked \in BOOLEAN

\* No sender can run out of funds, fees included.
AmplyFunded ==
    \A a \in Addresses :
        (1 + Fee) * Cardinality({t \in DOMAIN txs : txs[t].from = a}) <= InitialBalance

\* The account a row's database holds, with the fees given back to who paid them.
WithoutGas(row, a) ==
    IF row.executor = "sequential"
    THEN [row.ledger[a] EXCEPT !.balance = @ + Fee * row.ledger[a].nonce]
    ELSE row.ledger[a]

\* Block-STM leaves out of its database the accounts nobody has written.
EndsAs(row, a, state) ==
    IF a \in DOMAIN row.ledger THEN WithoutGas(row, a) = state
    ELSE row.executor = "block_stm" /\ state = Genesis[a]

\* Where a row has to be exact: everywhere, but for Block-STM with several
\* threads, whose invalidation can come too late for transactions that follow one
\* another on an account (Serializable does not hold there).
ExactOn(row) ==
    {a \in Addresses : row.executor = "block_stm" => ExactAt(a)}

\* preserves_order is true of whom it is printed for, up to what Block-STM's
\* threads do to each other: a "strict" row comes from the ledger of the ordered
\* execution, whatever fails on the way.  That of the in-memory baseline differs
\* from it by the fees and, only when they make a sender run out of funds, by
\* more; that of Block-STM lacks the accounts the ordered execution leaves alone.
StrictRowsExact ==
    \A k \in DOMAIN all_results :
        LET row == all_results[k] IN
        row.preserves_order /\ (row.executor = "sequential" => AmplyFunded)
            => \A a \in ExactOn(row) : EndsAs(row, a, LedgerAfter(txs, NumTxns)[a])

\* The comparison the benchmark prints is one of equals: when all signatures
\* verify and every sender can pay what the executor charges, all executors,
\* strict and loose, with any number of threads and whatever keyspace the previous
\* thread count left, report every transaction as successful, end in the same
\* ledger but for the fees (Block-STM's threads where they do not meet), and
\* leave the cold accounts alone, which Block-STM's database does not even have.
RowsAgree ==
    \A k \in DOMAIN all_results :
        LET row == all_results[k] IN
        Executable /\ (row.executor = "sequential" => AmplyFunded) =>
            /\ row.successful = NumTxns /\ row.failed = 0
            /\ \A a \in ExactOn(row) : EndsAs(row, a, LedgerAfter(txs, NumTxns)[a])
            /\ \A a \in Addresses \ HotAccounts(hot_accounts) :
                  IF row.executor = "block_stm" THEN a \notin DOMAIN row.ledger
                  ELSE row.ledger[a] = Genesis[a]

\* Every worker of Block-STM finds the queue empty again and again while the next
\* transaction to commit has been executed: nobody is left to commit it.
CommitLost ==
    /\ committed_idx < NumTxns
    /\ statuses[committed_idx].kind = "Executed"
    /\ ready_queue = <<>>
    /\ \A w \in Workers : pc[w] \in {"next_task", "lock_queue", "check_committed"}

\* The suite comes to its end; on a workload that cannot be executed, at least to
\* FoundationDB, whose threads retry for ever.  The only ways to hang are the two
\* of Block-STM's scheduler: its locks are taken in opposite orders, or the commit
\* of an executed transaction is left to a worker that has stopped looking.
BenchTermination ==
    <>(\/ Ended
       \/ Sections[section] = "fdb" /\ ~Executable
       \/ In("block_stm") /\ (LockOrderDeadlock \/ CommitLost))
=============================================================================

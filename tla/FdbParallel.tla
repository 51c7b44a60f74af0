---------------------------- MODULE FdbParallel ----------------------------
(***************************************************************************)
(* executor/fdb.rs: the workload's flat transaction list is cut into       *)
(* slices, one thread per slice, every transfer one FoundationDB           *)
(* transaction under Database::run, and a thread repeats its transaction   *)
(* until it is applied.                                                    *)
(*                                                                         *)
(* FoundationDB is external: reads see one snapshot, a commit fails if a   *)
(* key the transaction read (with snapshot = false) was written since, and *)
(* run calls the closure again after a conflict or when it cannot tell     *)
(* whether the commit happened (the closure ignores `_maybe_committed`).   *)
(***************************************************************************)
EXTENDS GivenWorkload

CONSTANTS
    MaxThreads,   \* threads are 0 .. MaxThreads - 1
    Faults        \* what a commit may meet besides conflicts

FaultKinds == {"unknown_applied", "unknown_lost", "error"}

ASSUME MaxThreadsAssumption == MaxThreads \in Nat \ {0}
ASSUME FaultsAssumption == Faults \subseteq FaultKinds

Threads == 0 .. MaxThreads - 1

VARIABLES
    num_threads,      \* FdbParallelExecutor.num_threads
    fdb_db,           \* the account keyspace: [stored addresses -> AccountStates]
    fdb_stage,        \* where execute_workload is
    fdb_pc,           \* where each thread is
    fdb_pos,          \* the transaction each thread is at
    fdb_snap,         \* what the transaction under way has read
    fdb_dirty,        \* addresses committed by others since that snapshot
    fdb_successful,   \* ThreadResult.successful
    fdb_failed,       \* ThreadResult.failed
    fdb_applied       \* transactions whose writes have taken effect (history)

setupVars == <<txs, num_threads>>
threadVars == <<fdb_pc, fdb_pos, fdb_snap, fdb_dirty, fdb_successful, fdb_failed>>
fdbVars == <<setupVars, fdb_db, fdb_stage, threadVars, fdb_applied>>

NoKeys == [a \in {} |-> 0]
NoRead == <<>>

\* execute_workload about to be called: no thread is there yet.
FdbStart ==
    /\ fdb_stage = "clear"
    /\ fdb_pc = [th \in Threads |-> "idle"]
    /\ fdb_pos = [th \in Threads |-> 0]
    /\ fdb_snap = [th \in Threads |-> NoRead]
    /\ fdb_dirty = [th \in Threads |-> {}]
    /\ fdb_successful = [th \in Threads |-> 0]
    /\ fdb_failed = [th \in Threads |-> 0]
    /\ fdb_applied = {}

\* FdbParallelExecutor::new, on a keyspace an earlier run may have left behind.
FdbInit ==
    /\ txs \in Workloads(NumTxns, SigOutcomes)
    /\ num_threads \in 1 .. MaxThreads
    /\ fdb_db \in {NoKeys, [a \in Addresses |-> [nonce |-> 1, balance |-> 0]]}
    /\ FdbStart

-----------------------------------------------------------------------------
(* execute_workload *)

\* clear_database.  A retry clears what is already clear.
ClearDatabase ==
    /\ fdb_stage = "clear"
    /\ fdb_db' = NoKeys
    /\ fdb_stage' = "init"
    /\ UNCHANGED <<setupVars, threadVars, fdb_applied>>

\* init_accounts, a batch at a time.  A batch overwrites, so that a retry after
\* an unknown result writes the same again.
InitBatch ==
    /\ fdb_stage = "init"
    /\ \E batch \in (SUBSET (Addresses \ DOMAIN fdb_db)) \ {{}} :
          fdb_db' = [a \in DOMAIN fdb_db \cup batch |->
                        IF a \in batch THEN Genesis[a] ELSE fdb_db[a]]
    /\ UNCHANGED <<setupVars, fdb_stage, threadVars, fdb_applied>>

\* Mutant: the division rounds down.
TxsPerThreadFloor(n, threads) == n \div threads

TxsPerThread(n, threads) == (n + threads - 1) \div threads

StartIdx(th) == th * TxsPerThread(NumTxns, num_threads)

\* Mutant: the end is inclusive, so that neighbouring slices overlap.
EndIdxInclusive(th) ==
    IF StartIdx(th + 1) < NumTxns THEN StartIdx(th + 1) + 1 ELSE NumTxns

EndIdx(th) ==
    IF StartIdx(th + 1) < NumTxns THEN StartIdx(th + 1) ELSE NumTxns

\* The loop over thread ids breaks at the first empty slice.
Spawned == {th \in Threads : th < num_threads /\ StartIdx(th) < NumTxns}

Spawn ==
    /\ fdb_stage = "init"
    /\ DOMAIN fdb_db = Addresses
    /\ fdb_stage' = "running"
    /\ fdb_pc' = [th \in Threads |-> IF th \in Spawned THEN "verify" ELSE "idle"]
    /\ fdb_pos' = [th \in Threads |-> IF th \in Spawned THEN StartIdx(th) ELSE 0]
    /\ UNCHANGED <<setupVars, fdb_db, fdb_snap, fdb_dirty, fdb_successful, fdb_failed,
                   fdb_applied>>

\* A database error during the setup is returned to the caller.
SetupFails ==
    /\ fdb_stage \in {"clear", "init"}
    /\ "error" \in Faults
    /\ fdb_stage' = "failed"
    /\ UNCHANGED <<setupVars, fdb_db, threadVars, fdb_applied>>

\* Every thread is joined and the results summed.
Join ==
    /\ fdb_stage = "running"
    /\ \A th \in Spawned : fdb_pc[th] = "exited"
    /\ fdb_stage' = "done"
    /\ UNCHANGED <<setupVars, fdb_db, threadVars, fdb_applied>>

-----------------------------------------------------------------------------
(* execute_thread *)

Transfer(th) == txs[fdb_pos[th]]

FdbGoto(th, label) == fdb_pc' = [fdb_pc EXCEPT ![th] = label]

\* The next transaction of the slice; a signature that does not verify is a
\* permanent failure.
VerifySigner(th) ==
    /\ fdb_pc[th] = "verify"
    /\ fdb_pos[th] < EndIdx(th)
    /\ IF Transfer(th).signed
       THEN FdbGoto(th, "run") /\ UNCHANGED <<fdb_pos, fdb_failed>>
       ELSE /\ fdb_failed' = [fdb_failed EXCEPT ![th] = @ + 1]
            /\ fdb_pos' = [fdb_pos EXCEPT ![th] = @ + 1]
            /\ UNCHANGED fdb_pc
    /\ UNCHANGED <<setupVars, fdb_db, fdb_stage, fdb_snap, fdb_dirty, fdb_successful,
                   fdb_applied>>

ThreadExits(th) ==
    /\ fdb_pc[th] = "verify"
    /\ fdb_pos[th] = EndIdx(th)
    /\ FdbGoto(th, "exited")
    /\ UNCHANGED <<setupVars, fdb_db, fdb_stage, fdb_pos, fdb_snap, fdb_dirty,
                   fdb_successful, fdb_failed, fdb_applied>>

Readable(tx) == tx.from \in DOMAIN fdb_db /\ Accepts(tx, fdb_db[tx.from])

\* The closure reads a snapshot and its checks pass: there are writes to commit.
ReadAccounts(th) ==
    /\ fdb_pc[th] = "run"
    /\ LET tx == Transfer(th) IN
          /\ Readable(tx)
          /\ fdb_snap' = [fdb_snap EXCEPT ![th] = <<fdb_db[tx.from], fdb_db[tx.to]>>]
    /\ fdb_dirty' = [fdb_dirty EXCEPT ![th] = {}]
    /\ FdbGoto(th, "commit")
    /\ UNCHANGED <<setupVars, fdb_db, fdb_stage, fdb_pos, fdb_successful, fdb_failed,
                   fdb_applied>>

\* The closure returns Ok(false): the thread sleeps and calls run again.
ValidationFails(th) ==
    /\ fdb_pc[th] = "run"
    /\ ~Readable(Transfer(th))
    /\ FdbGoto(th, "sleep")
    /\ UNCHANGED <<setupVars, fdb_db, fdb_stage, fdb_pos, fdb_snap, fdb_dirty,
                   fdb_successful, fdb_failed, fdb_applied>>

Wake(th) ==
    /\ fdb_pc[th] = "sleep"
    /\ FdbGoto(th, "run")
    /\ UNCHANGED <<setupVars, fdb_db, fdb_stage, fdb_pos, fdb_snap, fdb_dirty,
                   fdb_successful, fdb_failed, fdb_applied>>

\* Mutant: the receiver is read with snapshot = true, outside the read conflict
\* ranges.
ReadSetSenderOnly(tx) == {tx.from}

\* The read conflict ranges of the transaction, and the keys it writes.
ReadSet(tx) == {tx.from, tx.to}
WriteSet(tx) == {tx.from, tx.to}

Conflicts(th) == fdb_dirty[th] \cap ReadSet(Transfer(th)) # {}

\* The writes take effect: what others have read of these keys is stale.
Write(th) ==
    LET tx == Transfer(th) IN
    /\ fdb_db' = [fdb_db EXCEPT ![tx.from] = Debit(tx, fdb_snap[th][1]),
                                ![tx.to] = Credit(tx, fdb_snap[th][2])]
    /\ fdb_dirty' = [o \in Threads |->
                        IF o # th /\ fdb_pc[o] = "commit"
                        THEN fdb_dirty[o] \cup WriteSet(tx) ELSE {}]
    /\ fdb_applied' = fdb_applied \cup {fdb_pos[th]}

\* run returns Ok(true): the transaction is counted and the thread goes on.
Commit(th) ==
    /\ fdb_pc[th] = "commit"
    /\ ~Conflicts(th)
    /\ Write(th)
    /\ fdb_snap' = [fdb_snap EXCEPT ![th] = NoRead]
    /\ fdb_successful' = [fdb_successful EXCEPT ![th] = @ + 1]
    /\ fdb_pos' = [fdb_pos EXCEPT ![th] = @ + 1]
    /\ FdbGoto(th, "verify")
    /\ UNCHANGED <<setupVars, fdb_stage, fdb_failed>>

\* The commit has happened and its answer is lost: run calls the closure again.
CommitUnknownApplied(th) ==
    /\ "unknown_applied" \in Faults
    /\ fdb_pc[th] = "commit"
    /\ ~Conflicts(th)
    /\ Write(th)
    /\ fdb_snap' = [fdb_snap EXCEPT ![th] = NoRead]
    /\ FdbGoto(th, "run")
    /\ UNCHANGED <<setupVars, fdb_stage, fdb_pos, fdb_successful, fdb_failed>>

\* A conflict, or an unknown result of a commit that did not happen: run calls
\* the closure again.
CommitRetried(th) ==
    /\ fdb_pc[th] = "commit"
    /\ Conflicts(th) \/ "unknown_lost" \in Faults
    /\ fdb_snap' = [fdb_snap EXCEPT ![th] = NoRead]
    /\ fdb_dirty' = [fdb_dirty EXCEPT ![th] = {}]
    /\ FdbGoto(th, "run")
    /\ UNCHANGED <<setupVars, fdb_db, fdb_stage, fdb_pos, fdb_successful, fdb_failed,
                   fdb_applied>>

\* run returns Err: the thread sleeps and calls run again.
CommitFails(th) ==
    /\ "error" \in Faults
    /\ fdb_pc[th] = "commit"
    /\ fdb_snap' = [fdb_snap EXCEPT ![th] = NoRead]
    /\ fdb_dirty' = [fdb_dirty EXCEPT ![th] = {}]
    /\ FdbGoto(th, "sleep")
    /\ UNCHANGED <<setupVars, fdb_db, fdb_stage, fdb_pos, fdb_successful, fdb_failed,
                   fdb_applied>>

-----------------------------------------------------------------------------

ThreadStep(th) ==
    \/ VerifySigner(th)
    \/ ThreadExits(th)
    \/ ReadAccounts(th)
    \/ ValidationFails(th)
    \/ Wake(th)
    \/ Commit(th)
    \/ CommitUnknownApplied(th)
    \/ CommitRetried(th)
    \/ CommitFails(th)

FdbMain == ClearDatabase \/ InitBatch \/ Spawn \/ Join

\* execute_workload has returned.
Returned == fdb_stage \in {"done", "failed"} /\ UNCHANGED fdbVars

FdbNext ==
    FdbMain \/ SetupFails \/ (\E th \in Threads : ThreadStep(th)) \/ Returned

FdbSpec == FdbInit /\ [][FdbNext]_fdbVars

\* The operating system runs every thread, and FoundationDB is available: a
\* transaction whose commit meets no conflict again and again gets through.
FdbFairness ==
    /\ WF_fdbVars(FdbMain)
    /\ \A th \in Threads : WF_fdbVars(ThreadStep(th)) /\ SF_fdbVars(Commit(th))

FdbFairSpec == FdbSpec /\ FdbFairness

-----------------------------------------------------------------------------
(* Properties *)

\* Every variable has its type; in particular no balance goes below zero.
FdbTypeOK ==
    /\ txs \in [0 .. NumTxns - 1 -> SignedTransactions]
    /\ num_threads \in 1 .. MaxThreads
    /\ \E stored \in SUBSET Addresses : fdb_db \in [stored -> AccountStates]
    /\ fdb_stage \in {"clear", "init", "running", "done", "failed"}
    /\ fdb_pc \in [Threads -> {"idle", "verify", "run", "sleep", "commit", "exited"}]
    /\ fdb_pos \in [Threads -> 0 .. NumTxns]
    /\ fdb_snap \in [Threads -> (AccountStates \X AccountStates) \cup {NoRead}]
    /\ fdb_dirty \in [Threads -> SUBSET Addresses]
    /\ fdb_successful \in [Threads -> Nat]
    /\ fdb_failed \in [Threads -> Nat]
    /\ fdb_applied \subseteq 0 .. NumTxns - 1

Started == fdb_stage \in {"running", "done"}

AppliedFrom(a) == {t \in fdb_applied : txs[t].from = a}
AppliedTo(a) == {t \in fdb_applied : txs[t].to = a}

\* No update is lost and none is made twice, whatever the conflicts, retries and
\* unknown results: every account is what the applied transfers make of it.
LedgerExplained ==
    Started =>
        \A a \in Addresses :
            /\ fdb_db[a].nonce = Cardinality(AppliedFrom(a))
            /\ fdb_db[a].balance + Cardinality(AppliedFrom(a))
                      = InitialBalance + Cardinality(AppliedTo(a))

\* A transfer takes effect at most once, and only after all earlier transfers
\* of its sender: "per-sender ordering is always preserved" (executor/mod.rs),
\* although the slices run concurrently.
PerSenderOrder ==
    [][\A t \in 0 .. NumTxns - 1 :
          /\ t \in fdb_applied => t \in fdb_applied'
          /\ t \in fdb_applied' \ fdb_applied =>
                /\ \A u \in 0 .. t - 1 : txs[u].from = txs[t].from => u \in fdb_applied
                /\ fdb_db'[txs[t].from].nonce = txs[t].nonce + 1]_fdbVars

\* Where a thread is tells what of its slice has been applied: every signed
\* transfer it has passed, and of the rest at most the one it is retrying.
SliceProgress ==
    fdb_stage = "running" =>
        \A th \in Spawned :
            LET passed == {t \in StartIdx(th) .. fdb_pos[th] - 1 : txs[t].signed}
            IN  /\ passed \subseteq fdb_applied
                /\ fdb_applied \cap (StartIdx(th) .. EndIdx(th) - 1)
                      \subseteq passed \cup {fdb_pos[th]}
                /\ fdb_successful[th] = Cardinality(passed)
                /\ fdb_successful[th] + fdb_failed[th] = fdb_pos[th] - StartIdx(th)

Positions == 0 .. NumTxns - 1

\* The workload is a generated one, nothing runs before all accounts are stored,
\* and a thread that runs a transaction is inside the workload.
SetupFirst ==
    /\ WellFormed(txs, NumTxns)
    /\ fdb_stage = "init" => \A a \in DOMAIN fdb_db : fdb_db[a] = Genesis[a]
    /\ Started => DOMAIN fdb_db = Addresses
    /\ ~Started => fdb_applied = {} /\ \A th \in Threads : fdb_pc[th] = "idle"
    /\ \A th \in Threads :
          fdb_pc[th] \in {"run", "sleep", "commit"} => fdb_pos[th] < NumTxns

\* What a thread has read, and nobody has written since, is what is stored.
SnapshotsCurrent ==
    \A th \in Threads : fdb_pc[th] = "commit" =>
        LET tx == Transfer(th) IN
        /\ fdb_snap[th] \in AccountStates \X AccountStates
        /\ Accepts(tx, fdb_snap[th][1])
        /\ tx.from \notin fdb_dirty[th] => fdb_snap[th][1] = fdb_db[tx.from]
        /\ tx.to \notin fdb_dirty[th] => fdb_snap[th][2] = fdb_db[tx.to]

\* The sender's nonce tells exactly which of its transfers have been applied.
AppliedByNonce ==
    Started =>
        \A t \in 0 .. NumTxns - 1 :
            t \in fdb_applied <=> txs[t].nonce < fdb_db[txs[t].from].nonce

\* The inductive invariant behind LedgerExplained and PerSenderOrder.
FdbInductive ==
    /\ FdbTypeOK
    /\ SetupFirst
    /\ SnapshotsCurrent
    /\ AppliedByNonce
    /\ LedgerExplained

\* Only transfers whose signature verifies are ever run.
OnlySignedRun ==
    \A th \in Threads :
        fdb_pc[th] \in {"run", "sleep", "commit"} => Transfer(th).signed

\* The ledger as the transfers see it: before they start, that of the accounts
\* init_accounts is about to store.
LedgerView == IF Started THEN fdb_db ELSE Genesis

\* The threads implement the loose order of executor/mod.rs: whatever they read,
\* retry and lose answers to, the keyspace changes as if whole transfers took
\* effect one at a time, each sender's in its order.
Loose == INSTANCE LooseOrder WITH ledger <- LedgerView, applied <- fdb_applied
ImplementsLooseOrder == Loose!LooseSpec

\* When execute_workload returns, every transaction of the workload was in
\* exactly one slice and has been applied, unless its signature is invalid.
AllHandled ==
    fdb_stage = "done" => fdb_applied = {t \in 0 .. NumTxns - 1 : txs[t].signed}

\* Nobody is held up by the workload itself: every signature verifies and no
\* sender can run out of funds.
Executable ==
    /\ \A t \in DOMAIN txs : txs[t].signed
    /\ \A a \in Addresses :
          Cardinality({t \in DOMAIN txs : txs[t].from = a}) <= InitialBalance

FdbFinished == fdb_stage \in {"done", "failed"}

\* A thread is at a transfer that has been applied without its knowing.
AnswerLost == \E th \in Spawned : fdb_pc[th] # "exited" /\ fdb_pos[th] \in fdb_applied

\* Threads never wait for each other in a circle, whatever the slices: on a
\* workload that can be executed, only a commit whose answer was lost can keep
\* execute_workload from returning.
RetriesSucceed == Executable => <>(FdbFinished \/ AnswerLost)

\* "Transactions will eventually succeed": every thread gets through its slice
\* and execute_workload returns.
FdbTermination == Executable => <>FdbFinished
=============================================================================

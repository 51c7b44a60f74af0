-------------------------- MODULE ParallelExecutor --------------------------
(***************************************************************************)
(* block-stm-executor/src/executor.rs: the worker threads that execute a   *)
(* block speculatively.  Composes Scheduler (what a worker does between    *)
(* executions) with MVHashMap (what an execution reads and writes): the    *)
(* "execute" label of Scheduler is expanded into the stages below, one per *)
(* access to the shared map.                                               *)
(***************************************************************************)
EXTENDS Scheduler, MVHashMap, GivenWorkload

VARIABLES
    execution_count,  \* executions started
    fail_count,       \* executions that failed permanently
    stage,            \* per worker: the next step inside execute_transaction
    side,             \* per worker: the account it is about, "from" or "to"
    seen,             \* per worker: the version just read, not yet recorded
    view,             \* per worker: the two account states read
    found             \* per worker: invalidated readers collected so far

counters == <<execution_count, fail_count>>
execLocal == <<stage, side, seen, view, found>>
execVars == <<vars, mvVars, txs, counters, execLocal>>

Stages == {"verify", "read", "record", "lower", "storage", "insert", "report"}
Sides == {"from", "to"}

NoView == [s \in Sides |-> [nonce |-> 0, balance |-> 0]]

\* execute_block: fresh shared state for a block of transactions.
ExecStart ==
    /\ Init
    /\ MVInit
    /\ execution_count = 0
    /\ fail_count = 0
    /\ stage = [w \in Workers |-> "verify"]
    /\ side = [w \in Workers |-> "from"]
    /\ seen = [w \in Workers |-> Storage]
    /\ view = [w \in Workers |-> NoView]
    /\ found = [w \in Workers |-> {}]

ExecInit == txs \in Workloads(NumTxns, SigOutcomes) /\ ExecStart

Tx(w) == txs[Idx(w)]
Addr(w) == Tx(w)[side[w]]

At(w, s) == pc[w] = "execute" /\ stage[w] = s
GotoStage(w, s) == stage' = [stage EXCEPT ![w] = s]

-----------------------------------------------------------------------------

\* Mutants: a badly signed transaction is executed all the same; or fails after
\* its sender has been read.
AfterVerifyUnchecked(w) == "read"
VerifyAfterRead(w) ==
    /\ At(w, "verify")
    /\ execution_count' = execution_count + 1
    /\ fail_count' = fail_count + (IF Tx(w).signed THEN 0 ELSE 1)
    /\ GotoStage(w, IF Tx(w).signed THEN "read" ELSE "report")
    /\ RecordStorageRead(Tx(w).from, Idx(w))
    /\ UNCHANGED <<vars, txs, side, seen, view, found>>

AfterVerify(w) == IF Tx(w).signed THEN "read" ELSE "report"

\* worker_loop counts the execution; a bad signature fails it permanently.
VerifySignature(w) ==
    /\ At(w, "verify")
    /\ execution_count' = execution_count + 1
    /\ fail_count' = fail_count + (IF Tx(w).signed THEN 0 ELSE 1)
    /\ GotoStage(w, AfterVerify(w))
    /\ UNCHANGED <<vars, mvVars, txs, side, seen, view, found>>

\* MVHashMap::read
ReadAccount(w) ==
    /\ At(w, "read")
    /\ LET version == ReadVersion(Addr(w), Idx(w))
       IN  /\ seen' = [seen EXCEPT ![w] = version]
           /\ view' = [view EXCEPT ![w][side[w]] = StateOf(Addr(w), version)]
    /\ GotoStage(w, "record")
    /\ UNCHANGED <<vars, mvVars, txs, counters, side, found>>

\* Where execution goes once an account has been read: the sender is checked
\* (Retry: nothing is written), the receiver completes the reads.
AfterRead(w) ==
    IF side[w] = "to" THEN "lower"
    ELSE IF Accepts(Tx(w), view[w]["from"]) THEN "read"
    ELSE "report"

\* record_read or record_storage_read, then the sender's checks.
RecordAccess(w) ==
    /\ At(w, "record")
    /\ \/ seen[w] = Storage /\ RecordStorageRead(Addr(w), Idx(w))
       \/ seen[w] # Storage /\ RecordRead(Addr(w), Idx(w), seen[w])
    /\ seen' = [seen EXCEPT ![w] = Storage]
    /\ GotoStage(w, AfterRead(w))
    /\ side' = [side EXCEPT ![w] = IF AfterRead(w) = "read" THEN "to" ELSE "from"]
    /\ UNCHANGED <<vars, txs, counters, view, found>>

\* write, first part: is there a lower version?
CheckLower(w) ==
    /\ At(w, "lower")
    /\ GotoStage(w, IF HasLowerVersion(Addr(w), Idx(w)) THEN "insert" ELSE "storage")
    /\ UNCHANGED <<vars, mvVars, txs, counters, side, seen, view, found>>

\* write, second part: there was none, so storage readers are invalidated.
CollectStorageReaders(w) ==
    /\ At(w, "storage")
    /\ found' = [found EXCEPT ![w] = @ \cup StorageReadersAbove(Addr(w), Idx(w))]
    /\ GotoStage(w, "insert")
    /\ UNCHANGED <<vars, mvVars, txs, counters, side, seen, view>>

\* Mutant: the receiver is credited on top of the sender's new state.
NewStateCrossed(w) ==
    IF side[w] = "from" THEN Debit(Tx(w), view[w]["from"])
    ELSE Credit(Tx(w), Debit(Tx(w), view[w]["from"]))

\* The state written: computed from the reads, not from what is there now.
NewState(w) ==
    IF side[w] = "from" THEN Debit(Tx(w), view[w]["from"])
    ELSE Credit(Tx(w), view[w]["to"])

\* write, third part: readers of the previous version are collected and the
\* new version put in place; the sender's write comes before the receiver's.
WriteVersion(w) ==
    /\ At(w, "insert")
    /\ found' = [found EXCEPT ![w] = @ \cup PreviousReadersAbove(Addr(w), Idx(w))]
    /\ InsertVersion(Addr(w), Idx(w), Inc(w), NewState(w))
    /\ GotoStage(w, IF side[w] = "from" THEN "lower" ELSE "report")
    /\ side' = [side EXCEPT ![w] = IF side[w] = "from" THEN "to" ELSE "from"]
    /\ UNCHANGED <<vars, txs, counters, seen, view>>

\* finish_execution with the readers found (none after Retry or a failure).
Report(w) ==
    /\ At(w, "report")
    /\ FinishExecution(w, found[w])
    /\ stage' = [stage EXCEPT ![w] = "verify"]
    /\ view' = [view EXCEPT ![w] = NoView]
    /\ found' = [found EXCEPT ![w] = {}]
    /\ UNCHANGED <<mvVars, txs, counters, side, seen>>

-----------------------------------------------------------------------------

ExecuteStep(w) ==
    \/ VerifySignature(w)
    \/ ReadAccount(w)
    \/ RecordAccess(w)
    \/ CheckLower(w)
    \/ CollectStorageReaders(w)
    \/ WriteVersion(w)
    \/ Report(w)

\* worker_loop
WorkerLoop(w) ==
    \/ SchedulerStep(w) /\ UNCHANGED <<mvVars, txs, counters, execLocal>>
    \/ ExecuteStep(w)

\* Every worker has been joined.
Joined == \A w \in Workers : pc[w] = "exited"

ExecTerminated == Joined /\ UNCHANGED execVars

ExecNext == (\E w \in Workers : WorkerLoop(w)) \/ ExecTerminated

ExecSpec == ExecInit /\ [][ExecNext]_execVars

\* The operating system runs every thread and parking_lot's locks are
\* eventually fair: a worker that can repeatedly take its next step takes it.
ExecFairSpec == ExecSpec /\ \A w \in Workers : SF_execVars(WorkerLoop(w))

\* BlockExecutionResult.successful
Successful == committed_idx - fail_count

\* BlockStmExecutor::execute: the database returned holds the final states.
FinalDb == CommittedStates

-----------------------------------------------------------------------------
(* Properties *)

\* Every variable has its type.
ExecTypeOK ==
    /\ TypeOK
    /\ MVTypeOK(Txns)
    /\ txs \in [Txns -> SignedTransactions]
    /\ execution_count \in Nat /\ fail_count \in Nat
    /\ stage \in [Workers -> Stages]
    /\ side \in [Workers -> Sides]
    /\ seen \in [Workers -> Tasks \cup {Storage}]
    /\ view \in [Workers -> [Sides -> AccountStates]]
    /\ found \in [Workers -> SUBSET Txns]

\* The executor uses the scheduler as Scheduler specifies: what it reports as
\* invalidated are higher transactions only.
ImplementsScheduler == Spec

\* Reads only go back: the version a worker has read, and every read recorded
\* in the map, is of a transaction below the reader.
ReadsGoBack ==
    /\ \A w \in Workers : seen[w] # Storage => seen[w][1] < Idx(w)
    /\ \A a \in Addresses : \A u \in DOMAIN data[a] :
          \A r \in data[a][u].readers : u < r

\* A transaction with a bad signature leaves no trace: it neither reads nor
\* writes, so it is never invalidated and never run twice.
RejectedLeaveNoTrace ==
    \A t \in Txns : ~txs[t].signed =>
        /\ \A a \in Addresses :
              /\ t \notin DOMAIN data[a]
              /\ t \notin storage_readers[a]
              /\ \A u \in DOMAIN data[a] : t \notin data[a][u].readers
        /\ \A w \in Workers : t \notin found[w] \cup invalidated[w]

\* The result's counts: when the workers have been joined fail_count is the number
\* of badly signed transactions, each counted once however often it and the others
\* are executed, it is at most what is committed, so that the subtraction in
\* `successful` cannot underflow, and the two counts cover the block.  (What is
\* counted as successful includes the transactions that ended in Retry.)
FailuresCountedOnce ==
    Joined => /\ fail_count = Cardinality({t \in Txns : ~txs[t].signed})
              /\ fail_count <= committed_idx
              /\ Successful + fail_count = NumTxns

Touches(t, a) == a \in {txs[t].from, txs[t].to}

\* No lower transaction has an account of t.
Independent(t) ==
    \A u \in 0 .. t - 1, b \in Addresses : ~(Touches(u, b) /\ Touches(t, b))

\* A transaction that shares no account with a lower one is executed exactly,
\* whatever runs beside it and however often: its versions are those of the
\* ordered execution, and none is missing at the end.
IndependentExact ==
    \A t \in Txns, a \in Addresses :
        txs[t].signed /\ Touches(t, a) /\ Independent(t)
        => /\ t \in DOMAIN data[a] =>
                 data[a][t].state = LedgerAfter(txs, t + 1)[a]
           /\ Joined /\ Succeeds(txs[t], Genesis) => t \in DOMAIN data[a]

\* The ledger of the final states over the initial ones.
FinalLedger ==
    [a \in Addresses |-> IF a \in Written THEN FinalDb[a] ELSE Genesis[a]]

\* Only transactions that share no account with a lower one touch a.
Uncontended(a) == \A t \in Txns : Touches(t, a) => Independent(t)

\* Where the ordered execution is certain: everywhere with one worker, on the
\* uncontended accounts with several.
ExactAt(a) == (\E w \in Workers : Workers = {w}) \/ Uncontended(a)

\* Block-STM "maintains strict transaction ordering": the final states are those
\* of executing the block one transaction at a time, in index order.
Serializable == Joined => FinalLedger = LedgerAfter(txs, NumTxns)

=============================================================================

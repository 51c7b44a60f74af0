------------------------------ MODULE Scheduler ------------------------------
(***************************************************************************)
(* block-stm-executor/src/scheduler.rs: the shared state that hands the    *)
(* transactions of one block to worker threads, aborts the readers of an   *)
(* overwritten version and commits transactions in index order.            *)
(*                                                                         *)
(* A step of this module is the code between two points at which another   *)
(* thread can observe or delay the worker: taking a lock, or an atomic     *)
(* load or store another thread reads.  Two such points are not told apart *)
(* from their neighbours: executed_once_count is incremented with the      *)
(* status write before it (nobody reads it), and done is stored with the   *)
(* drop of commit_lock after it (a try_lock that fails in between would    *)
(* have failed before, too).                                               *)
(*                                                                         *)
(* What the transactions do is left to the environment: an execution may   *)
(* report any set of higher-indexed transactions as invalidated            *)
(* (ParallelExecutor supplies the real set).                               *)
(***************************************************************************)
EXTENDS Block, Sequences, FiniteSets

CONSTANTS
    Workers,    \* the worker threads
    NoWorker    \* value of a lock nobody holds

ASSUME NoWorkerAssumption == NoWorker \notin Workers

Txns == 0 .. NumTxns - 1

\* A Version, and a Task::Execute: a transaction index and an incarnation.
Tasks == Txns \X Nat
NoTask == <<>>

\* ExecutionStatus
Pending == [kind |-> "Pending", inc |-> 0]
Executing(i) == [kind |-> "Executing", inc |-> i]
Executed(i) == [kind |-> "Executed", inc |-> i]
Committed == [kind |-> "Committed", inc |-> 0]

VARIABLES
    statuses,             \* [Txns -> ExecutionStatus]
    ready_queue,          \* sequence of tasks
    committed_idx,        \* number of committed transactions
    executed_once_count,  \* number of finished executions of incarnation 0
    done,                 \* the block is finished
    queue_lock,           \* holder of the ready_queue mutex
    status_lock,          \* [Txns -> holder of that status' write lock]
    commit_lock,          \* holder of commit_lock
    pc,                   \* where each worker is
    task,                 \* the task each worker runs
    invalidated,          \* readers each worker has still to abort
    new_incarnation,      \* local of abort_transaction
    commit_at             \* local committed_idx of try_commit_transactions

shared == <<statuses, ready_queue, committed_idx, executed_once_count, done>>
locks == <<queue_lock, status_lock, commit_lock>>
local == <<pc, task, invalidated, new_incarnation, commit_at>>
vars == <<shared, locks, local>>

Labels == {"next_task", "lock_queue", "mark", "check_committed", "execute",
           "abort", "requeue", "try_commit", "inspect", "commit", "store",
           "release", "exited"}

\* Scheduler::new: everything is queued in index order at incarnation 0.
Init ==
    /\ statuses = [t \in Txns |-> Pending]
    /\ ready_queue = [k \in 1 .. NumTxns |-> <<k - 1, 0>>]
    /\ committed_idx = 0
    /\ executed_once_count = 0
    /\ done = FALSE
    /\ queue_lock = NoWorker
    /\ status_lock = [t \in Txns |-> NoWorker]
    /\ commit_lock = NoWorker
    /\ pc = [w \in Workers |-> "next_task"]
    /\ task = [w \in Workers |-> NoTask]
    /\ invalidated = [w \in Workers |-> {}]
    /\ new_incarnation = [w \in Workers |-> 0]
    /\ commit_at = [w \in Workers |-> 0]

Goto(w, label) == pc' = [pc EXCEPT ![w] = label]

Idx(w) == task[w][1]
Inc(w) == task[w][2]

\* The lock of a status can be taken; it is dropped in the same step unless the
\* step says otherwise.
StatusFree(t) == status_lock[t] = NoWorker

-----------------------------------------------------------------------------
(* next_task *)

\* The first load of done.
NextTask(w) ==
    /\ pc[w] = "next_task"
    /\ Goto(w, IF done THEN "exited" ELSE "lock_queue")
    /\ UNCHANGED <<shared, locks, task, invalidated, new_incarnation, commit_at>>

\* The queue mutex is taken and the front popped; the mutex is kept.
PopTask(w) ==
    /\ pc[w] = "lock_queue"
    /\ queue_lock = NoWorker
    /\ ready_queue # <<>>
    /\ task' = [task EXCEPT ![w] = Head(ready_queue)]
    /\ ready_queue' = Tail(ready_queue)
    /\ queue_lock' = w
    /\ Goto(w, "mark")
    /\ UNCHANGED <<statuses, committed_idx, executed_once_count, done,
                   status_lock, commit_lock, invalidated, new_incarnation,
                   commit_at>>

\* The queue mutex is taken, nothing is queued, the mutex is dropped.
QueueEmpty(w) ==
    /\ pc[w] = "lock_queue"
    /\ queue_lock = NoWorker
    /\ ready_queue = <<>>
    /\ Goto(w, "check_committed")
    /\ UNCHANGED <<shared, locks, task, invalidated, new_incarnation, commit_at>>

\* The popped task is marked as executing, whatever its status has become;
\* then the queue mutex is dropped.
MarkExecuting(w) ==
    /\ pc[w] = "mark"
    /\ StatusFree(Idx(w))
    /\ statuses' = [statuses EXCEPT ![Idx(w)] = Executing(Inc(w))]
    /\ queue_lock' = NoWorker
    /\ Goto(w, "execute")
    /\ UNCHANGED <<ready_queue, committed_idx, executed_once_count, done,
                   status_lock, commit_lock, task, invalidated,
                   new_incarnation, commit_at>>

\* Mutant: the comparison is off by one.
AllCommittedEarly(n) == n + 1 >= NumTxns

AllCommitted(n) == n >= NumTxns

\* Task::Done once everything is committed, Task::Wait otherwise: the worker
\* sleeps and asks again.
CheckCommitted(w) ==
    /\ pc[w] = "check_committed"
    /\ done' = (done \/ AllCommitted(committed_idx))
    /\ Goto(w, IF AllCommitted(committed_idx) THEN "exited" ELSE "next_task")
    /\ UNCHANGED <<statuses, ready_queue, committed_idx, executed_once_count,
                   locks, task, invalidated, new_incarnation, commit_at>>

-----------------------------------------------------------------------------
(* finish_execution and abort_transaction *)

\* A label for the rest of finish_execution when `rest` is still to be aborted.
AbortNext(rest) == IF rest = {} THEN "try_commit" ELSE "abort"

\* Mutant: a first re-execution is counted as well.
FirstExecutionLoose(i) == i <= 1

FirstExecution(i) == i = 0

\* Mutant: the write guard lives to the end of finish_execution.
FinishExecutionGuarded(w, readers) ==
    /\ pc[w] = "execute"
    /\ StatusFree(Idx(w))
    /\ statuses' = [statuses EXCEPT ![Idx(w)] = Executed(Inc(w))]
    /\ status_lock' = [status_lock EXCEPT ![Idx(w)] = w]
    /\ executed_once_count' =
          executed_once_count + (IF FirstExecution(Inc(w)) THEN 1 ELSE 0)
    /\ invalidated' = [invalidated EXCEPT ![w] = readers]
    /\ Goto(w, AbortNext(readers))
    /\ UNCHANGED <<ready_queue, committed_idx, done, queue_lock, commit_lock, task,
                   new_incarnation, commit_at>>

\* The status becomes Executed whatever it was, first executions are counted,
\* and the invalidated readers are left to abort.
FinishExecution(w, readers) ==
    /\ pc[w] = "execute"
    /\ StatusFree(Idx(w))
    /\ statuses' = [statuses EXCEPT ![Idx(w)] = Executed(Inc(w))]
    /\ executed_once_count' =
          executed_once_count + (IF FirstExecution(Inc(w)) THEN 1 ELSE 0)
    /\ invalidated' = [invalidated EXCEPT ![w] = readers]
    /\ Goto(w, AbortNext(readers))
    /\ UNCHANGED <<ready_queue, committed_idx, done, locks, task, new_incarnation,
                   commit_at>>

\* The readers are aborted in ascending order.
NextAbort(w, t) == t \in invalidated[w] /\ \A u \in invalidated[w] : t <= u

\* The statuses an abort turns back to Pending.
Abortable(s) == s.kind \in {"Executing", "Executed"}

\* Mutants: the incarnation is not incremented, or decremented; the new task
\* is not queued.
NewIncarnationSame(i) == i
NewIncarnationDown(i) == i - 1
RequeuedLost(queue, t, i) == queue

\* The incarnation an aborted transaction is queued with, and the queue then.
NewIncarnation(i) == i + 1
Requeued(queue, t, i) == Append(queue, <<t, i>>)

\* abort_transaction makes an executing or executed transaction Pending, and
\* keeps its status lock while it waits for the queue mutex.
AbortLock(w) ==
    /\ pc[w] = "abort"
    /\ \E t \in Txns :
          /\ NextAbort(w, t)
          /\ StatusFree(t)
          /\ Abortable(statuses[t])
          /\ status_lock' = [status_lock EXCEPT ![t] = w]
          /\ statuses' = [statuses EXCEPT ![t] = Pending]
          /\ new_incarnation' =
                [new_incarnation EXCEPT ![w] = NewIncarnation(statuses[t].inc)]
    /\ Goto(w, "requeue")
    /\ UNCHANGED <<ready_queue, committed_idx, executed_once_count, done,
                   queue_lock, commit_lock, task, invalidated, commit_at>>

\* Already pending or committed: nothing to do.
AbortSkip(w) ==
    /\ pc[w] = "abort"
    /\ \E t \in Txns :
          /\ NextAbort(w, t)
          /\ StatusFree(t)
          /\ ~Abortable(statuses[t])
          /\ invalidated' = [invalidated EXCEPT ![w] = @ \ {t}]
    /\ Goto(w, AbortNext(invalidated'[w]))
    /\ UNCHANGED <<shared, locks, task, new_incarnation, commit_at>>

\* The new incarnation is queued at the back and both locks are dropped.
AbortRequeue(w) ==
    /\ pc[w] = "requeue"
    /\ queue_lock = NoWorker
    /\ \E t \in Txns :
          /\ NextAbort(w, t)
          /\ ready_queue' = Requeued(ready_queue, t, new_incarnation[w])
          /\ status_lock' = [status_lock EXCEPT ![t] = NoWorker]
          /\ invalidated' = [invalidated EXCEPT ![w] = @ \ {t}]
    /\ new_incarnation' = [new_incarnation EXCEPT ![w] = 0]
    /\ Goto(w, AbortNext(invalidated'[w]))
    /\ UNCHANGED <<statuses, committed_idx, executed_once_count, done, queue_lock,
                   commit_lock, task, commit_at>>

-----------------------------------------------------------------------------
(* try_commit_transactions *)

\* Mutant: the commit loop runs without its lock.
CommitLockIgnored == TRUE

\* commit_lock.try_lock() succeeds.
CommitLockFree == commit_lock = NoWorker

TryCommit(w) ==
    /\ pc[w] = "try_commit"
    /\ CommitLockFree
    /\ commit_lock' = w
    /\ commit_at' = [commit_at EXCEPT ![w] = committed_idx]
    /\ task' = [task EXCEPT ![w] = NoTask]
    /\ Goto(w, "inspect")
    /\ UNCHANGED <<shared, queue_lock, status_lock, invalidated, new_incarnation>>

\* Another worker is committing: leave it to that one.
SkipCommit(w) ==
    /\ pc[w] = "try_commit"
    /\ ~CommitLockFree
    /\ task' = [task EXCEPT ![w] = NoTask]
    /\ Goto(w, "next_task")
    /\ UNCHANGED <<shared, locks, invalidated, new_incarnation, commit_at>>

\* The while loop's test: the status is read and its read lock dropped again.
Inspect(w) ==
    /\ pc[w] = "inspect"
    /\ \/ /\ AllCommitted(commit_at[w])
          /\ Goto(w, "release")
       \/ /\ ~AllCommitted(commit_at[w])
          /\ StatusFree(commit_at[w])
          /\ Goto(w, IF statuses[commit_at[w]].kind = "Executed"
                     THEN "commit" ELSE "release")
    /\ UNCHANGED <<shared, locks, task, invalidated, new_incarnation, commit_at>>

\* Mutant: the index is stored before it is incremented.
NextCommittedLate(n) == n

\* The index after a commit.
NextCommitted(n) == n + 1

\* The write lock is taken anew: the status may have changed since Inspect.
CommitTransaction(w) ==
    /\ pc[w] = "commit"
    /\ StatusFree(commit_at[w])
    /\ statuses' = [statuses EXCEPT ![commit_at[w]] = Committed]
    /\ Goto(w, "store")
    /\ UNCHANGED <<ready_queue, committed_idx, executed_once_count, done, locks,
                   task, invalidated, new_incarnation, commit_at>>

\* The index follows, without a look at what the status has become since.
StoreCommitted(w) ==
    /\ pc[w] = "store"
    /\ committed_idx' = NextCommitted(commit_at[w])
    /\ commit_at' = [commit_at EXCEPT ![w] = NextCommitted(@)]
    /\ Goto(w, "inspect")
    /\ UNCHANGED <<statuses, ready_queue, executed_once_count, done, locks, task,
                   invalidated, new_incarnation>>

\* After the loop: done is set if everything is committed, the guard dropped.
ReleaseCommit(w) ==
    /\ pc[w] = "release"
    /\ done' = (done \/ AllCommitted(commit_at[w]))
    /\ commit_at' = [commit_at EXCEPT ![w] = 0]
    /\ commit_lock' = NoWorker
    /\ Goto(w, "next_task")
    /\ UNCHANGED <<statuses, ready_queue, committed_idx, executed_once_count,
                   queue_lock, status_lock, task, invalidated, new_incarnation>>

-----------------------------------------------------------------------------

\* Mutant: an execution may invalidate itself.
HigherOrSelf(t) == {u \in Txns : u >= t}

\* What an execution of t may invalidate: writes report higher readers only.
Higher(t) == {u \in Txns : u > t}

\* The steps of a worker inside the scheduler.
SchedulerStep(w) ==
    \/ NextTask(w)
    \/ PopTask(w)
    \/ QueueEmpty(w)
    \/ MarkExecuting(w)
    \/ CheckCommitted(w)
    \/ AbortLock(w)
    \/ AbortSkip(w)
    \/ AbortRequeue(w)
    \/ TryCommit(w)
    \/ SkipCommit(w)
    \/ Inspect(w)
    \/ CommitTransaction(w)
    \/ StoreCommitted(w)
    \/ ReleaseCommit(w)

WorkerStep(w) ==
    \/ SchedulerStep(w)
    \/ \E readers \in SUBSET Txns :
          /\ pc[w] = "execute"
          /\ readers \subseteq Higher(Idx(w))
          /\ FinishExecution(w, readers)

\* Every worker has left its loop and execute_block has joined them.
Terminated == (\A w \in Workers : pc[w] = "exited") /\ UNCHANGED vars

Next == (\E w \in Workers : WorkerStep(w)) \/ Terminated

Spec == Init /\ [][Next]_vars

-----------------------------------------------------------------------------
(* Properties *)

Locks == Workers \cup {NoWorker}

Statuses == [kind : {"Pending", "Executing", "Executed", "Committed"}, inc : Nat]

\* Every variable has its type: statuses and queued tasks name transactions of
\* the block, locks are held by workers, committed_idx never passes the block.
TypeOK ==
    /\ statuses \in [Txns -> Statuses]
    /\ ready_queue \in Seq(Tasks)
    /\ committed_idx \in 0 .. NumTxns
    /\ executed_once_count \in Nat
    /\ done \in BOOLEAN
    /\ queue_lock \in Locks
    /\ status_lock \in [Txns -> Locks]
    /\ commit_lock \in Locks
    /\ pc \in [Workers -> Labels]
    /\ task \in [Workers -> Tasks \cup {NoTask}]
    /\ invalidated \in [Workers -> SUBSET Txns]
    /\ new_incarnation \in [Workers -> Nat]
    /\ commit_at \in [Workers -> 0 .. NumTxns]

Committing == {"inspect", "commit", "store", "release"}

\* A worker holds the queue mutex exactly between pop_front and the drop in
\* next_task.
QueueMutex == \A w \in Workers : queue_lock = w <=> pc[w] = "mark"

\* A worker holds commit_lock exactly inside try_commit_transactions: two
\* workers never run the commit loop at once.
CommitMutex == \A w \in Workers : commit_lock = w <=> pc[w] \in Committing

\* w is inside abort_transaction(t), waiting for the queue mutex.
Requeuing(w, t) == pc[w] = "requeue" /\ NextAbort(w, t)

\* A status write lock outlives a step only in abort_transaction, whose worker
\* holds the lock of exactly the transaction it is about to requeue.
StatusMutex ==
    \A w \in Workers, t \in Txns :
        status_lock[t] = w <=> Requeuing(w, t)

\* w needs the lock of status t to go on; w needs a lock that x holds.
NeedsStatus(w, t) ==
    \/ pc[w] \in {"mark", "execute"} /\ Idx(w) = t
    \/ pc[w] = "abort" /\ NextAbort(w, t)
    \/ pc[w] \in {"inspect", "commit"} /\ commit_at[w] = t
WaitsFor(w, x) ==
    \/ pc[w] \in {"lock_queue", "requeue"} /\ queue_lock = x
    \/ \E t \in Txns : status_lock[t] = x /\ NeedsStatus(w, t)

Waiting(w) == \E x \in Workers : WaitsFor(w, x)

\* next_task has the queue mutex and wants a status, abort_transaction has that
\* status and wants the queue mutex.
LockOrderDeadlock ==
    \E u, x \in Workers : pc[u] = "mark" /\ Requeuing(x, Idx(u))

\* The opposite orders of next_task and abort_transaction are the only way the
\* scheduler's locks can stop a worker: unless two workers are caught in it,
\* whoever waits for a lock waits for a worker that can go on, or for one that
\* waits for such a worker.
OnlyLockOrderBlocks ==
    ~LockOrderDeadlock =>
        \A w \in Workers : Waiting(w) =>
            \E x \in Workers :
                /\ ~Waiting(x)
                /\ WaitsFor(w, x)
                   \/ \E y \in Workers : WaitsFor(w, y) /\ WaitsFor(y, x)

\* A worker will run the transaction: it is queued, has just been popped, or is
\* about to be queued by the worker that aborted it.
Awaiting(t) ==
    \/ \E n \in 1 .. Len(ready_queue) : ready_queue[n][1] = t
    \/ \E w \in Workers : pc[w] = "mark" /\ Idx(w) = t
    \/ \E w \in Workers : Requeuing(w, t)

RunningAs(t, i) == \E w \in Workers : pc[w] = "execute" /\ task[w] = <<t, i>>

\* No transaction is lost between the queue, the statuses and the workers: one
\* that is Pending is queued, just popped or about to be queued, and one that is
\* Executing at an incarnation is being run at that incarnation by a worker.
WorkConserved ==
    \A t \in Txns :
        /\ statuses[t].kind = "Pending" => Awaiting(t)
        /\ statuses[t].kind = "Executing" => RunningAs(t, statuses[t].inc)

\* The committing worker's local index is the shared one: nobody else moves
\* committed_idx while commit_lock is held.
CommitterView ==
    \A w \in Workers : pc[w] \in Committing => commit_at[w] = committed_idx

\* Nothing is committed ahead of its predecessors: what is Committed lies below
\* committed_idx, or is the one transaction whose committing worker has written
\* the status and not yet stored the index.
CommitPrefix ==
    \A t \in Txns :
        statuses[t].kind = "Committed" =>
            t < committed_idx \/ \E w \in Workers : pc[w] = "store" /\ commit_at[w] = t

\* Workers leave, and done is set, only when the whole block is committed.
DoneSound ==
    /\ done => committed_idx = NumTxns
    /\ \A w \in Workers : pc[w] = "exited" => done

\* The commits of step 5 of the algorithm are in index order, however the workers
\* interleave: committed_idx moves by one at a time and never back, and the only
\* transaction that can become Committed is the one at committed_idx, before the
\* index passes it.
CommitInOrder ==
    [][/\ committed_idx' \in {committed_idx, committed_idx + 1}
       /\ \A t \in Txns :
             statuses[t] # Committed /\ statuses'[t] = Committed
                => t = committed_idx /\ committed_idx' = committed_idx]_vars

\* Incarnation 0 of a transaction is run before anything else is known of it.
FirstRunFirst ==
    \A n \in 1 .. Len(ready_queue), t \in Txns :
        ready_queue[n] = <<t, 0>> =>
            /\ statuses[t] = Pending
            /\ \A m \in 1 .. Len(ready_queue) : ready_queue[m][1] = t => m = n
            /\ \A w \in Workers : task[w] # NoTask => Idx(w) # t

\* A worker that has popped a task runs it; the commit loop stays in the block.
HasTask ==
    \A w \in Workers : pc[w] \in {"mark", "execute"} => task[w] \in Tasks
CommitBound ==
    \A w \in Workers : pc[w] \in {"commit", "store"} => commit_at[w] < NumTxns

LockDiscipline == QueueMutex /\ CommitMutex /\ StatusMutex

\* The first task of t is still queued.
Fresh(t) == \E n \in 1 .. Len(ready_queue) : ready_queue[n] = <<t, 0>>

\* What the commit loop passes, or is about to, has been started.
CommittedStarted ==
    \A t \in Txns : Fresh(t) =>
        /\ committed_idx <= t
        /\ \A w \in Workers : pc[w] \in {"commit", "store"} => commit_at[w] # t

\* What is being requeued has been started, and is not queued as a first run.
RequeuedStarted ==
    \A w \in Workers, t \in Txns :
        Requeuing(w, t) => new_incarnation[w] > 0 /\ ~Fresh(t)

\* No two workers are given the first task of the same transaction.
FirstRunOnce ==
    \A v, w \in Workers, t \in Txns :
        task[v] = <<t, 0>> /\ task[w] = <<t, 0>> => v = w

\* The transactions whose first execution has not finished yet: it is queued, or
\* a worker has it.
Unrun ==
    {t \in Txns :
        \/ Fresh(t)
        \/ \E w \in Workers : pc[w] \in {"mark", "execute"} /\ task[w] = <<t, 0>>}

\* Every first execution is outstanding or has been counted.
FirstRunsCounted == executed_once_count + Cardinality(Unrun) = NumTxns

\* The inductive invariant: the safety invariants above and what their
\* preservation needs of the workers' program counters and locks.
IndInv ==
    /\ TypeOK
    /\ HasTask
    /\ CommitBound
    /\ LockDiscipline
    /\ RequeuedStarted
    /\ WorkConserved
    /\ CommitterView
    /\ CommitPrefix
    /\ DoneSound
    /\ FirstRunFirst
    /\ CommittedStarted
    /\ FirstRunOnce
    /\ FirstRunsCounted

\* When the workers have left, every transaction has been counted exactly once
\* in executed_once_count, re-executions and aborted executions included.
AllExecutedOnce ==
    (\A w \in Workers : pc[w] = "exited") => executed_once_count = NumTxns

\* Re-execution is bounded: an execution aborts each higher transaction at most
\* once, so transaction t never gets past incarnation 2^t - 1.
BoundedReexecution ==
    /\ \A n \in 1 .. Len(ready_queue) :
          ready_queue[n][2] < 2 ^ ready_queue[n][1]
    /\ \A w \in Workers : task[w] # NoTask => Inc(w) < 2 ^ Idx(w)

-----------------------------------------------------------------------------
(* What the documentation says of the scheduler and the code does not keep:  *)
(* each is checked by a run that exhibits the counterexample.                 *)

\* abort_transaction "schedules it for re-execution": once it holds the status
\* lock it gets the queue mutex.
AbortCompletes ==
    \A w \in Workers : pc[w] = "requeue" ~> pc[w] # "requeue"

\* "Transactions commit in order once all lower-indexed transactions are done":
\* one that has been executed, with everything below it committed, commits.
ExecutedIsCommitted ==
    \A t \in Txns :
        committed_idx = t /\ statuses[t].kind = "Executed" ~> committed_idx > t

=============================================================================

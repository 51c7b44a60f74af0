--------------------------- MODULE SchedulerProofs ---------------------------
(***************************************************************************)
(* Proofs about Scheduler, for every number of transactions and every set  *)
(* of workers.  The invariants are proved in layers: types, then the lock  *)
(* discipline, then what the locks protect.                                *)
(***************************************************************************)
EXTENDS Scheduler, SequenceTheorems, FiniteSetTheorems, TLAPS

Typing == TypeOK /\ HasTask /\ CommitBound

\* Every step is a step of one worker, or changes nothing.
LEMMA StepCases ==
    ASSUME [Next]_vars
    PROVE  \/ UNCHANGED vars
           \/ \E w \in Workers :
                \/ SchedulerStep(w)
                \/ \E readers \in SUBSET Txns : FinishExecution(w, readers)
  BY DEF Next, Terminated, WorkerStep

LEMMA NoTaskApart == NoTask \notin Tasks
  BY DEF NoTask, Tasks

-----------------------------------------------------------------------------

LEMMA TypingInit == Init => Typing
  <1> SUFFICES ASSUME Init PROVE Typing
    OBVIOUS
  <1> USE NumTxnsAssumption DEF Init
  <1>1. ready_queue \in Seq(Tasks)
    <2>1. \A k \in 1 .. NumTxns : <<k - 1, 0>> \in Tasks
      BY DEF Tasks, Txns
    <2>2. QED BY <2>1, IsASeq
  <1>2. statuses \in [Txns -> Statuses]
    BY DEF Statuses, Pending
  <1>3. TypeOK
    <2>1. /\ pc \in [Workers -> Labels]
          /\ task \in [Workers -> Tasks \cup {NoTask}]
          /\ invalidated \in [Workers -> SUBSET Txns]
          /\ new_incarnation \in [Workers -> Nat]
          /\ commit_at \in [Workers -> 0 .. NumTxns]
      BY DEF Labels
    <2>2. /\ status_lock \in [Txns -> Locks]
          /\ queue_lock \in Locks /\ commit_lock \in Locks
      BY DEF Locks
    <2>3. committed_idx \in 0 .. NumTxns /\ executed_once_count \in Nat
      OBVIOUS
    <2>4. done \in BOOLEAN
      OBVIOUS
    <2>5. QED
      BY <1>1, <1>2, <2>1, <2>2, <2>3, <2>4, Zenon DEF TypeOK
  <1>4. QED
    BY <1>3 DEF Typing, HasTask, CommitBound

LEMMA TypingStep ==
    ASSUME Typing, [Next]_vars
    PROVE  Typing'
  <1> USE NumTxnsAssumption
      DEF Typing, TypeOK, HasTask, CommitBound, Txns, Tasks, Statuses, Locks,
          Labels, NoTask, Goto, shared, locks, local, vars
  <1>1. CASE UNCHANGED vars
    BY <1>1
  <1>2. ASSUME NEW w \in Workers, NextTask(w) PROVE Typing'
    BY <1>2 DEF NextTask
  <1>3. ASSUME NEW w \in Workers, PopTask(w) PROVE Typing'
    <2>1. Head(ready_queue) \in Tasks /\ Tail(ready_queue) \in Seq(Tasks)
      BY <1>3 DEF PopTask
    <2>2. QED BY <1>3, <2>1 DEF PopTask
  <1>4. ASSUME NEW w \in Workers, QueueEmpty(w) PROVE Typing'
    BY <1>4 DEF QueueEmpty
  <1>5. ASSUME NEW w \in Workers, MarkExecuting(w) PROVE Typing'
    BY <1>5 DEF MarkExecuting, Executing, Idx, Inc
  <1>6. ASSUME NEW w \in Workers, CheckCommitted(w) PROVE Typing'
    BY <1>6 DEF CheckCommitted, AllCommitted
  <1>7. ASSUME NEW w \in Workers, NEW readers \in SUBSET Txns,
               FinishExecution(w, readers)
        PROVE Typing'
    <2>1. statuses' \in [Txns -> Statuses]
      BY <1>7 DEF FinishExecution, Executed, Idx, Inc
    <2>2. pc' = [pc EXCEPT ![w] = AbortNext(readers)]
      BY <1>7 DEF FinishExecution
    <2>3. AbortNext(readers) \in {"abort", "try_commit"}
      BY DEF AbortNext
    <2>4. executed_once_count' \in Nat
      BY <1>7 DEF FinishExecution
    <2>5. /\ pc' \in [Workers -> Labels]
          /\ invalidated' \in [Workers -> SUBSET Txns]
          /\ UNCHANGED <<ready_queue, committed_idx, done, locks, task,
                         new_incarnation, commit_at>>
      BY <1>7, <2>2, <2>3 DEF FinishExecution
    <2>6. TypeOK'
      BY <2>1, <2>4, <2>5
    <2>7. \A v \in Workers : pc'[v] \in {"mark", "execute", "commit", "store"} => pc'[v] = pc[v]
      BY <2>2, <2>3
    <2>8. HasTask' /\ CommitBound'
      BY <2>5, <2>7
    <2>9. QED BY <2>6, <2>8
  <1>8. ASSUME NEW w \in Workers, AbortLock(w) PROVE Typing'
    <2>1. PICK t \in Txns :
             /\ status_lock' = [status_lock EXCEPT ![t] = w]
             /\ statuses' = [statuses EXCEPT ![t] = Pending]
             /\ new_incarnation' = [new_incarnation EXCEPT ![w] = statuses[t].inc + 1]
      BY <1>8 DEF AbortLock, NewIncarnation
    <2>2. statuses' \in [Txns -> Statuses] /\ statuses[t].inc \in Nat
      BY <2>1 DEF Pending
    <2>3. new_incarnation' \in [Workers -> Nat]
      BY <2>1, <2>2
    <2>4. /\ pc' = [pc EXCEPT ![w] = "requeue"]
          /\ UNCHANGED <<ready_queue, committed_idx, executed_once_count, done,
                         queue_lock, commit_lock, task, invalidated, commit_at>>
      BY <1>8 DEF AbortLock
    <2>5. status_lock' \in [Txns -> Locks]
      BY <2>1
    <2>6. pc' \in [Workers -> Labels]
      BY <2>4
    <2>7. TypeOK'
      BY <2>2, <2>3, <2>4, <2>5, <2>6
    <2>8. HasTask' /\ CommitBound'
      BY <2>4
    <2>9. QED BY <2>7, <2>8
  <1>9. ASSUME NEW w \in Workers, AbortSkip(w) PROVE Typing'
    <2>1. invalidated' \in [Workers -> SUBSET Txns]
      BY <1>9 DEF AbortSkip
    <2>2. pc' = [pc EXCEPT ![w] = AbortNext(invalidated'[w])]
      BY <1>9 DEF AbortSkip
    <2>3. AbortNext(invalidated'[w]) \in {"abort", "try_commit"}
      BY DEF AbortNext
    <2>4. UNCHANGED <<shared, locks, task, new_incarnation, commit_at>>
      BY <1>9 DEF AbortSkip
    <2>5. TypeOK'
      BY <2>1, <2>2, <2>3, <2>4
    <2>6. \A v \in Workers : pc'[v] \in {"mark", "execute", "commit", "store"} => pc'[v] = pc[v]
      BY <2>2, <2>3
    <2>7. HasTask' /\ CommitBound'
      BY <2>4, <2>6
    <2>8. QED BY <2>5, <2>7
  <1>10. ASSUME NEW w \in Workers, AbortRequeue(w) PROVE Typing'
    <2>1. PICK t \in Txns :
             /\ ready_queue' = Append(ready_queue, <<t, new_incarnation[w]>>)
             /\ status_lock' = [status_lock EXCEPT ![t] = NoWorker]
             /\ invalidated' = [invalidated EXCEPT ![w] = @ \ {t}]
      BY <1>10 DEF AbortRequeue, Requeued
    <2>2. /\ new_incarnation' \in [Workers -> Nat]
          /\ UNCHANGED statuses
      BY <1>10 DEF AbortRequeue
    <2>3. ready_queue' \in Seq(Tasks)
      BY <2>1
    <2>4. pc' = [pc EXCEPT ![w] = AbortNext(invalidated'[w])]
      BY <1>10 DEF AbortRequeue
    <2>5. AbortNext(invalidated'[w]) \in {"abort", "try_commit"}
      BY DEF AbortNext
    <2>6. /\ invalidated' \in [Workers -> SUBSET Txns]
          /\ status_lock' \in [Txns -> Locks]
          /\ pc' \in [Workers -> Labels]
      BY <2>1, <2>4, <2>5
    <2>7. TypeOK'
      BY <1>10, <2>2, <2>3, <2>6 DEF AbortRequeue
    <2>8. \A v \in Workers : pc'[v] \in {"mark", "execute", "commit", "store"} => pc'[v] = pc[v]
      BY <2>4, <2>5
    <2>9. UNCHANGED <<task, commit_at>>
      BY <1>10 DEF AbortRequeue
    <2>10. HasTask' /\ CommitBound'
      BY <2>8, <2>9
    <2>11. QED BY <2>7, <2>10
  <1>11. ASSUME NEW w \in Workers, TryCommit(w) PROVE Typing'
    BY <1>11 DEF TryCommit
  <1>12. ASSUME NEW w \in Workers, SkipCommit(w) PROVE Typing'
    BY <1>12 DEF SkipCommit
  <1>13. ASSUME NEW w \in Workers, Inspect(w) PROVE Typing'
    <2>1. PICK l \in {"commit", "release"} :
             /\ pc' = [pc EXCEPT ![w] = l]
             /\ l = "commit" => commit_at[w] < NumTxns
      BY <1>13 DEF Inspect, AllCommitted
    <2>2. QED
      BY <1>13, <2>1 DEF Inspect
  <1>14. ASSUME NEW w \in Workers, CommitTransaction(w) PROVE Typing'
    <2>1. commit_at[w] \in 0 .. NumTxns /\ commit_at[w] < NumTxns
      BY <1>14 DEF CommitTransaction
    <2>2. statuses' \in [Txns -> Statuses]
      BY <1>14, <2>1 DEF CommitTransaction, Committed
    <2>3. QED BY <1>14, <2>1, <2>2 DEF CommitTransaction
  <1>15. ASSUME NEW w \in Workers, StoreCommitted(w) PROVE Typing'
    <2>1. commit_at[w] \in 0 .. NumTxns /\ commit_at[w] < NumTxns
      BY <1>15 DEF StoreCommitted
    <2>2. /\ committed_idx' \in 0 .. NumTxns
          /\ commit_at' \in [Workers -> 0 .. NumTxns]
          /\ \A v \in Workers \ {w} : commit_at'[v] = commit_at[v]
      BY <1>15, <2>1 DEF StoreCommitted, NextCommitted
    <2>3. pc' = [pc EXCEPT ![w] = "inspect"]
      BY <1>15 DEF StoreCommitted
    <2>4. TypeOK'
      BY <1>15, <2>2, <2>3 DEF StoreCommitted
    <2>5. UNCHANGED task
      BY <1>15 DEF StoreCommitted
    <2>6. HasTask' /\ CommitBound'
      BY <2>2, <2>3, <2>5
    <2>7. QED BY <2>4, <2>6
  <1>16. ASSUME NEW w \in Workers, ReleaseCommit(w) PROVE Typing'
    <2>1. commit_at' \in [Workers -> 0 .. NumTxns]
      BY <1>16 DEF ReleaseCommit
    <2>2. done' \in BOOLEAN
      BY <1>16, Zenon DEF ReleaseCommit
    <2>3. QED
      BY <1>16, <2>1, <2>2 DEF ReleaseCommit
  <1>17. QED
    BY StepCases, <1>1, <1>2, <1>3, <1>4, <1>5, <1>6, <1>7, <1>8, <1>9, <1>10,
       <1>11, <1>12, <1>13, <1>14, <1>15, <1>16
    DEF SchedulerStep

\* Type correctness of the scheduler: in particular the commit loop never
\* indexes past the statuses and committed_idx never passes the block.
THEOREM TypeCorrect == Spec => []TypeOK
  <1>1. Init => Typing
    BY TypingInit
  <1>2. Typing /\ [Next]_vars => Typing'
    BY TypingStep
  <1>3. Typing => TypeOK
    BY DEF Typing
  <1>4. QED
    BY <1>1, <1>2, <1>3, PTL DEF Spec

-----------------------------------------------------------------------------

\* The transaction to abort next is unique, and is one of the block.
LEMMA NextAbortUnique ==
    ASSUME NEW w \in Workers, NEW t \in Txns, NEW u \in Txns,
           NextAbort(w, t), NextAbort(w, u)
    PROVE  t = u
  BY NumTxnsAssumption DEF NextAbort, Txns

LEMMA LockInit == Init => LockDiscipline
  BY NoWorkerAssumption
  DEF Init, LockDiscipline, QueueMutex, CommitMutex, StatusMutex, Requeuing,
      Committing

LEMMA LockStep ==
    ASSUME Typing, LockDiscipline, [Next]_vars
    PROVE  LockDiscipline'
  <1> USE NumTxnsAssumption, NoWorkerAssumption
      DEF Typing, TypeOK, LockDiscipline, QueueMutex, CommitMutex, StatusMutex,
          Requeuing, Committing, NextAbort, Goto, shared, locks, local, vars, Locks
  <1>1. CASE UNCHANGED vars
    BY <1>1
  <1>2. ASSUME NEW w \in Workers, NextTask(w) PROVE LockDiscipline'
    BY <1>2 DEF NextTask
  <1>3. ASSUME NEW w \in Workers, PopTask(w) PROVE LockDiscipline'
    <2>1. /\ pc[w] = "lock_queue" /\ pc' = [pc EXCEPT ![w] = "mark"]
          /\ queue_lock = NoWorker /\ queue_lock' = w
          /\ UNCHANGED <<status_lock, commit_lock, invalidated>>
      BY <1>3 DEF PopTask
    <2>2. QueueMutex' /\ CommitMutex'
      BY <2>1
    <2>3. StatusMutex'
      BY <2>1
    <2>4. QED BY <2>2, <2>3
  <1>4. ASSUME NEW w \in Workers, QueueEmpty(w) PROVE LockDiscipline'
    BY <1>4 DEF QueueEmpty
  <1>5. ASSUME NEW w \in Workers, MarkExecuting(w) PROVE LockDiscipline'
    BY <1>5 DEF MarkExecuting
  <1>6. ASSUME NEW w \in Workers, CheckCommitted(w) PROVE LockDiscipline'
    BY <1>6 DEF CheckCommitted, AllCommitted
  <1>7. ASSUME NEW w \in Workers, NEW readers \in SUBSET Txns,
               FinishExecution(w, readers)
        PROVE LockDiscipline'
    BY <1>7 DEF FinishExecution, AbortNext
  <1>8. ASSUME NEW w \in Workers, AbortLock(w) PROVE LockDiscipline'
    <2>1. PICK t \in Txns : /\ NextAbort(w, t)
                            /\ status_lock[t] = NoWorker
                            /\ status_lock' = [status_lock EXCEPT ![t] = w]
      BY <1>8 DEF AbortLock, StatusFree
    <2>2. QueueMutex' /\ CommitMutex'
      BY <1>8 DEF AbortLock
    <2>3. \A u \in Txns : NextAbort(w, u) => u = t
      BY <2>1, NextAbortUnique
    <2>4. StatusMutex'
      BY <1>8, <2>1, <2>3 DEF AbortLock
    <2>5. QED BY <2>2, <2>4
  <1>9. ASSUME NEW w \in Workers, AbortSkip(w) PROVE LockDiscipline'
    <2>1. pc' = [pc EXCEPT ![w] = AbortNext(invalidated'[w])]
      BY <1>9 DEF AbortSkip
    <2>2. AbortNext(invalidated'[w]) \in {"abort", "try_commit"}
      BY DEF AbortNext
    <2>3. \A v \in Workers \ {w} : invalidated'[v] = invalidated[v]
      BY <1>9 DEF AbortSkip
    <2>4. pc[w] = "abort" /\ UNCHANGED locks
      BY <1>9 DEF AbortSkip
    <2>5. QED BY <2>1, <2>2, <2>3, <2>4
  <1>10. ASSUME NEW w \in Workers, AbortRequeue(w) PROVE LockDiscipline'
    <2>1. PICK t \in Txns :
             /\ NextAbort(w, t)
             /\ status_lock' = [status_lock EXCEPT ![t] = NoWorker]
             /\ invalidated' = [invalidated EXCEPT ![w] = @ \ {t}]
      BY <1>10 DEF AbortRequeue
    <2>2. pc' = [pc EXCEPT ![w] = AbortNext(invalidated'[w])]
      BY <1>10 DEF AbortRequeue
    <2>3. AbortNext(invalidated'[w]) \in {"abort", "try_commit"}
      BY DEF AbortNext
    <2>4. /\ pc[w] = "requeue"
          /\ UNCHANGED <<queue_lock, commit_lock>>
      BY <1>10 DEF AbortRequeue
    <2>5. QueueMutex' /\ CommitMutex'
      BY <2>2, <2>3, <2>4
    <2>6. \A u \in Txns : NextAbort(w, u) => u = t
      BY <2>1, NextAbortUnique
    <2>7. status_lock[t] = w
      BY <2>1, <2>4
    <2>8. ASSUME NEW v \in Workers, NEW u \in Txns
          PROVE  status_lock'[u] = v <=> pc'[v] = "requeue" /\ NextAbort(v, u)'
      <3>1. CASE v = w
        BY <3>1, <2>1, <2>2, <2>3, <2>4, <2>6
      <3>2. CASE v # w
        BY <3>2, <2>1, <2>2, <2>4, <2>7
      <3>3. QED BY <3>1, <3>2
    <2>9. QED BY <2>5, <2>8
  <1>11. ASSUME NEW w \in Workers, TryCommit(w) PROVE LockDiscipline'
    BY <1>11 DEF TryCommit, CommitLockFree
  <1>12. ASSUME NEW w \in Workers, SkipCommit(w) PROVE LockDiscipline'
    BY <1>12 DEF SkipCommit
  <1>13. ASSUME NEW w \in Workers, Inspect(w) PROVE LockDiscipline'
    <2>1. PICK label \in {"commit", "release"} : pc' = [pc EXCEPT ![w] = label]
      BY <1>13 DEF Inspect
    <2>2. pc[w] = "inspect" /\ UNCHANGED <<locks, invalidated>>
      BY <1>13 DEF Inspect
    <2>3. QED BY <2>1, <2>2
  <1>14. ASSUME NEW w \in Workers, CommitTransaction(w) PROVE LockDiscipline'
    BY <1>14 DEF CommitTransaction
  <1>15. ASSUME NEW w \in Workers, StoreCommitted(w) PROVE LockDiscipline'
    BY <1>15 DEF StoreCommitted
  <1>16. ASSUME NEW w \in Workers, ReleaseCommit(w) PROVE LockDiscipline'
    BY <1>16 DEF ReleaseCommit
  <1>17. QED
    BY StepCases, <1>1, <1>2, <1>3, <1>4, <1>5, <1>6, <1>7, <1>8, <1>9, <1>10,
       <1>11, <1>12, <1>13, <1>14, <1>15, <1>16
    DEF SchedulerStep

-----------------------------------------------------------------------------

\* What commit_lock protects.
CommitSafe == CommitterView /\ CommitPrefix /\ DoneSound

LEMMA CommitInit == Init => CommitSafe
  BY DEF Init, CommitSafe, CommitterView, CommitPrefix, DoneSound, Committing,
         Pending

LEMMA CommitStep ==
    ASSUME Typing, LockDiscipline, CommitSafe, [Next]_vars
    PROVE  CommitSafe'
  <1> USE NumTxnsAssumption, NoWorkerAssumption
      DEF Typing, TypeOK, HasTask, CommitBound, LockDiscipline, CommitMutex,
          CommitSafe, CommitterView, CommitPrefix, DoneSound, Committing, Txns,
          Goto, shared, locks, local, vars
  <1>1. CASE UNCHANGED vars
    BY <1>1
  <1>2. ASSUME NEW w \in Workers, NextTask(w) PROVE CommitSafe'
    BY <1>2 DEF NextTask
  <1>3. ASSUME NEW w \in Workers, PopTask(w) PROVE CommitSafe'
    BY <1>3 DEF PopTask
  <1>4. ASSUME NEW w \in Workers, QueueEmpty(w) PROVE CommitSafe'
    BY <1>4 DEF QueueEmpty
  <1>5. ASSUME NEW w \in Workers, MarkExecuting(w) PROVE CommitSafe'
    BY <1>5 DEF MarkExecuting, Executing
  <1>6. ASSUME NEW w \in Workers, CheckCommitted(w) PROVE CommitSafe'
    <2>1. /\ pc[w] = "check_committed"
          /\ UNCHANGED <<statuses, committed_idx, commit_at, commit_lock>>
      BY <1>6 DEF CheckCommitted
    <2>2. CASE AllCommitted(committed_idx)
      <3>1. done' /\ pc' = [pc EXCEPT ![w] = "exited"]
        BY <1>6, <2>2, Zenon DEF CheckCommitted
      <3>2. QED BY <2>1, <2>2, <3>1 DEF AllCommitted
    <2>3. CASE ~AllCommitted(committed_idx)
      <3>1. done' = done /\ pc' = [pc EXCEPT ![w] = "next_task"]
        BY <1>6, <2>3, Zenon DEF CheckCommitted
      <3>2. QED BY <2>1, <3>1
    <2>4. QED BY <2>2, <2>3
  <1>7. ASSUME NEW w \in Workers, NEW readers \in SUBSET Txns,
               FinishExecution(w, readers)
        PROVE CommitSafe'
    BY <1>7 DEF FinishExecution, AbortNext, Executed
  <1>8. ASSUME NEW w \in Workers, AbortLock(w) PROVE CommitSafe'
    BY <1>8 DEF AbortLock, Pending
  <1>9. ASSUME NEW w \in Workers, AbortSkip(w) PROVE CommitSafe'
    BY <1>9 DEF AbortSkip, AbortNext
  <1>10. ASSUME NEW w \in Workers, AbortRequeue(w) PROVE CommitSafe'
    BY <1>10 DEF AbortRequeue, AbortNext
  <1>11. ASSUME NEW w \in Workers, TryCommit(w) PROVE CommitSafe'
    BY <1>11 DEF TryCommit, CommitLockFree
  <1>12. ASSUME NEW w \in Workers, SkipCommit(w) PROVE CommitSafe'
    BY <1>12 DEF SkipCommit
  <1>13. ASSUME NEW w \in Workers, Inspect(w) PROVE CommitSafe'
    BY <1>13 DEF Inspect, AllCommitted
  <1>14. ASSUME NEW w \in Workers, CommitTransaction(w) PROVE CommitSafe'
    BY <1>14 DEF CommitTransaction, Committed
  <1>15. ASSUME NEW w \in Workers, StoreCommitted(w) PROVE CommitSafe'
    BY <1>15 DEF StoreCommitted, NextCommitted
  <1>16. ASSUME NEW w \in Workers, ReleaseCommit(w) PROVE CommitSafe'
    BY <1>16 DEF ReleaseCommit, AllCommitted
  <1>17. QED
    BY StepCases, <1>1, <1>2, <1>3, <1>4, <1>5, <1>6, <1>7, <1>8, <1>9, <1>10,
       <1>11, <1>12, <1>13, <1>14, <1>15, <1>16
    DEF SchedulerStep

-----------------------------------------------------------------------------

\* What the status locks protect: nothing a worker still has to do is lost.

LEMMA WorkInit == Init => WorkConserved
  BY NumTxnsAssumption
  DEF Init, WorkConserved, Awaiting, Pending, Txns

\* A worker other than w is left alone by w's steps.
OthersKept(w) ==
    \A v \in Workers \ {w} :
        /\ pc'[v] = pc[v]
        /\ task'[v] = task[v]
        /\ invalidated'[v] = invalidated[v]

\* A step that changes neither the statuses nor the queue, of a worker that
\* neither holds a task nor is about to queue one.
LEMMA WorkFrame ==
    ASSUME WorkConserved, NEW w \in Workers,
           UNCHANGED <<statuses, ready_queue>>,
           pc[w] \notin {"mark", "execute", "requeue"},
           OthersKept(w)
    PROVE  WorkConserved'
  <1> USE DEF OthersKept
  <1>1. ASSUME NEW t \in Txns, Awaiting(t)
        PROVE  Awaiting(t)'
    BY <1>1 DEF Awaiting, Idx, Requeuing, NextAbort
  <1>2. ASSUME NEW t \in Txns, RunningAs(t, statuses[t].inc)
        PROVE  RunningAs(t, statuses[t].inc)'
    BY <1>2 DEF RunningAs
  <1>3. QED
    BY <1>1, <1>2 DEF WorkConserved

LEMMA WorkStep ==
    ASSUME Typing, LockDiscipline, WorkConserved, [Next]_vars
    PROVE  WorkConserved'
  <1> USE NumTxnsAssumption, NoWorkerAssumption DEF Goto, shared, locks, local, vars
  <1>t. /\ pc \in [Workers -> Labels]
        /\ task \in [Workers -> Tasks \cup {NoTask}]
        /\ invalidated \in [Workers -> SUBSET Txns]
        /\ statuses \in [Txns -> Statuses]
        /\ ready_queue \in Seq(Tasks)
        /\ \A w \in Workers : pc[w] \in {"mark", "execute"} => task[w] \in Tasks
    BY DEF Typing, TypeOK, HasTask
  <1>1. CASE UNCHANGED vars
    BY <1>1 DEF WorkConserved, Awaiting, RunningAs, Requeuing, NextAbort, Idx
  <1>2. ASSUME NEW w \in Workers, NextTask(w) PROVE WorkConserved'
    BY <1>t, <1>2, WorkFrame DEF NextTask, OthersKept
  <1>3. ASSUME NEW w \in Workers, PopTask(w) PROVE WorkConserved'
    <2>1. /\ pc[w] = "lock_queue" /\ pc' = [pc EXCEPT ![w] = "mark"]
          /\ task' = [task EXCEPT ![w] = Head(ready_queue)]
          /\ ready_queue # <<>> /\ ready_queue' = Tail(ready_queue)
          /\ UNCHANGED <<statuses, invalidated>>
      BY <1>3 DEF PopTask
    <2>2. ASSUME NEW t \in Txns, Awaiting(t)
          PROVE  Awaiting(t)'
      <3>1. ASSUME NEW n \in 1 .. Len(ready_queue), ready_queue[n][1] = t
            PROVE  Awaiting(t)'
        <4>1. CASE n = 1
          <5>1. pc'[w] = "mark" /\ Idx(w)' = t
            BY <1>t, <2>1, <3>1, <4>1 DEF Idx
          <5>2. QED BY <5>1 DEF Awaiting
        <4>2. CASE n # 1
          <5>1. /\ n - 1 \in 1 .. Len(ready_queue')
                /\ ready_queue'[n - 1][1] = t
            BY <1>t, <2>1, <3>1, <4>2
          <5>2. QED BY <5>1 DEF Awaiting
        <4>3. QED BY <4>1, <4>2
      <3>2. ASSUME NEW v \in Workers, pc[v] = "mark", Idx(v) = t
            PROVE  pc'[v] = "mark" /\ Idx(v)' = t
        BY <1>t, <2>1, <3>2 DEF Idx
      <3>3. ASSUME NEW v \in Workers, Requeuing(v, t)
            PROVE  Requeuing(v, t)'
        BY <1>t, <2>1, <3>3 DEF Requeuing, NextAbort
      <3>4. QED BY <2>2, <3>1, <3>2, <3>3 DEF Awaiting
    <2>3. ASSUME NEW t \in Txns, RunningAs(t, statuses[t].inc)
          PROVE  RunningAs(t, statuses[t].inc)'
      BY <1>t, <2>1, <2>3 DEF RunningAs
    <2>4. QED BY <2>1, <2>2, <2>3 DEF WorkConserved
  <1>4. ASSUME NEW w \in Workers, QueueEmpty(w) PROVE WorkConserved'
    BY <1>t, <1>4, WorkFrame DEF QueueEmpty, OthersKept
  <1>5. ASSUME NEW w \in Workers, MarkExecuting(w) PROVE WorkConserved'
    <2>1. /\ pc[w] = "mark" /\ pc' = [pc EXCEPT ![w] = "execute"]
          /\ statuses' = [statuses EXCEPT ![Idx(w)] = Executing(Inc(w))]
          /\ UNCHANGED <<ready_queue, task, invalidated>>
      BY <1>5 DEF MarkExecuting
    <2>2. ASSUME NEW t \in Txns, t # Idx(w)
          PROVE  /\ statuses'[t] = statuses[t]
                 /\ Awaiting(t) => Awaiting(t)'
                 /\ \A i : RunningAs(t, i) => RunningAs(t, i)'
      BY <1>t, <2>1, <2>2 DEF Awaiting, RunningAs, Idx, Requeuing, NextAbort
    <2>3. ASSUME NEW t \in Txns, t = Idx(w)
          PROVE  /\ statuses'[t].kind = "Executing"
                 /\ RunningAs(t, statuses[t].inc)'
      <3>1. task[w] = <<Idx(w), Inc(w)>> /\ Inc(w) \in Nat
        BY <1>t, <2>1 DEF Idx, Inc, Tasks
      <3>2. statuses'[t] = [kind |-> "Executing", inc |-> Inc(w)]
        BY <1>t, <2>1, <2>3 DEF Executing
      <3>3. pc'[w] = "execute" /\ task'[w] = <<t, statuses'[t].inc>>
        BY <1>t, <2>1, <2>3, <3>1, <3>2
      <3>4. QED BY <3>2, <3>3 DEF RunningAs
    <2>4. QED BY <2>2, <2>3 DEF WorkConserved
  <1>6. ASSUME NEW w \in Workers, CheckCommitted(w) PROVE WorkConserved'
    BY <1>t, <1>6, WorkFrame DEF CheckCommitted, OthersKept
  <1>7. ASSUME NEW w \in Workers, NEW readers \in SUBSET Txns,
               FinishExecution(w, readers)
        PROVE WorkConserved'
    <2>1. /\ pc[w] = "execute" /\ pc' = [pc EXCEPT ![w] = AbortNext(readers)]
          /\ statuses' = [statuses EXCEPT ![Idx(w)] = Executed(Inc(w))]
          /\ invalidated' = [invalidated EXCEPT ![w] = readers]
          /\ UNCHANGED <<ready_queue, task>>
      BY <1>7 DEF FinishExecution
    <2>2. AbortNext(readers) \in {"abort", "try_commit"}
      BY DEF AbortNext
    <2>3. ASSUME NEW t \in Txns, t # Idx(w)
          PROVE  /\ statuses'[t] = statuses[t]
                 /\ Awaiting(t) => Awaiting(t)'
                 /\ \A i : RunningAs(t, i) => RunningAs(t, i)'
      <3>1. \A v \in Workers : Requeuing(v, t) => Requeuing(v, t)'
        BY <1>t, <2>1 DEF Requeuing, NextAbort
      <3>2. QED BY <1>t, <2>1, <2>3, <3>1 DEF Awaiting, RunningAs, Idx
    <2>4. ASSUME NEW t \in Txns, t = Idx(w)
          PROVE  statuses'[t].kind = "Executed"
      BY <1>t, <2>1, <2>4 DEF Executed
    <2>5. QED BY <2>3, <2>4 DEF WorkConserved
  <1>8. ASSUME NEW w \in Workers, AbortLock(w) PROVE WorkConserved'
    <2>1. PICK t \in Txns : /\ NextAbort(w, t)
                            /\ statuses' = [statuses EXCEPT ![t] = Pending]
      BY <1>8 DEF AbortLock
    <2>2. /\ pc[w] = "abort" /\ pc' = [pc EXCEPT ![w] = "requeue"]
          /\ UNCHANGED <<ready_queue, task, invalidated>>
      BY <1>8 DEF AbortLock
    <2>3. ASSUME NEW u \in Txns
          PROVE  /\ Awaiting(u) => Awaiting(u)'
                 /\ \A i : RunningAs(u, i) => RunningAs(u, i)'
      BY <1>t, <2>2 DEF Awaiting, RunningAs, Idx, Requeuing, NextAbort
    <2>4. Requeuing(w, t)'
      BY <1>t, <2>1, <2>2 DEF Requeuing, NextAbort
    <2>5. Awaiting(t)'
      BY <2>4 DEF Awaiting
    <2>6. statuses'[t] = Pending /\ \A u \in Txns \ {t} : statuses'[u] = statuses[u]
      BY <1>t, <2>1
    <2>7. QED BY <2>3, <2>5, <2>6 DEF WorkConserved, Pending
  <1>9. ASSUME NEW w \in Workers, AbortSkip(w) PROVE WorkConserved'
    BY <1>t, <1>9, WorkFrame DEF AbortSkip, AbortNext, OthersKept
  <1>10. ASSUME NEW w \in Workers, AbortRequeue(w) PROVE WorkConserved'
    <2>1. PICK t \in Txns :
             /\ NextAbort(w, t)
             /\ ready_queue' = Append(ready_queue, <<t, new_incarnation[w]>>)
             /\ invalidated' = [invalidated EXCEPT ![w] = @ \ {t}]
      BY <1>10 DEF AbortRequeue, Requeued
    <2>2. /\ pc[w] = "requeue"
          /\ pc' = [pc EXCEPT ![w] = AbortNext(invalidated'[w])]
          /\ UNCHANGED <<statuses, task>>
      BY <1>10 DEF AbortRequeue
    <2>3. AbortNext(invalidated'[w]) \in {"abort", "try_commit"}
      BY DEF AbortNext
    <2>4. /\ Len(ready_queue') = Len(ready_queue) + 1
          /\ \A n \in 1 .. Len(ready_queue) : ready_queue'[n] = ready_queue[n]
          /\ ready_queue'[Len(ready_queue) + 1] = <<t, new_incarnation[w]>>
      <3>1. <<t, new_incarnation[w]>> \in Tasks
        BY DEF Typing, TypeOK, Tasks
      <3>2. QED BY <1>t, <2>1, <3>1, AppendProperties
    <2>5. Awaiting(t)'
      <3>1. /\ Len(ready_queue) + 1 \in 1 .. Len(ready_queue')
            /\ ready_queue'[Len(ready_queue) + 1][1] = t
        BY <1>t, <2>4
      <3>2. QED BY <3>1 DEF Awaiting
    <2>6. ASSUME NEW u \in Txns, Awaiting(u) PROVE Awaiting(u)'
      <3>1. ASSUME NEW v \in Workers, Requeuing(v, u) PROVE Awaiting(u)'
        <4>1. CASE v = w
          BY <2>1, <2>5, <3>1, <4>1, NextAbortUnique DEF Requeuing
        <4>2. CASE v # w
          <5>1. Requeuing(v, u)'
            BY <1>t, <2>1, <2>2, <3>1, <4>2 DEF Requeuing, NextAbort
          <5>2. QED BY <5>1 DEF Awaiting
        <4>3. QED BY <4>1, <4>2
      <3>2. ASSUME NEW n \in 1 .. Len(ready_queue), ready_queue[n][1] = u
            PROVE  Awaiting(u)'
        <4>1. n \in 1 .. Len(ready_queue') /\ ready_queue'[n][1] = u
          BY <1>t, <2>4, <3>2
        <4>2. QED BY <4>1 DEF Awaiting
      <3>3. ASSUME NEW v \in Workers, pc[v] = "mark", Idx(v) = u
            PROVE  Awaiting(u)'
        <4>1. pc'[v] = "mark" /\ Idx(v)' = u
          BY <1>t, <2>2, <3>3 DEF Idx
        <4>2. QED BY <4>1 DEF Awaiting
      <3>4. QED BY <2>6, <3>1, <3>2, <3>3 DEF Awaiting
    <2>7. ASSUME NEW u \in Txns, NEW i, RunningAs(u, i) PROVE RunningAs(u, i)'
      BY <1>t, <2>2, <2>3, <2>7 DEF RunningAs
    <2>8. QED BY <2>2, <2>6, <2>7 DEF WorkConserved
  <1>11. ASSUME NEW w \in Workers, TryCommit(w) PROVE WorkConserved'
    BY <1>t, <1>11, WorkFrame DEF TryCommit, OthersKept
  <1>12. ASSUME NEW w \in Workers, SkipCommit(w) PROVE WorkConserved'
    BY <1>t, <1>12, WorkFrame DEF SkipCommit, OthersKept
  <1>13. ASSUME NEW w \in Workers, Inspect(w) PROVE WorkConserved'
    BY <1>t, <1>13, WorkFrame DEF Inspect, OthersKept
  <1>14. ASSUME NEW w \in Workers, CommitTransaction(w) PROVE WorkConserved'
    <2>1. /\ pc[w] = "commit" /\ pc' = [pc EXCEPT ![w] = "store"]
          /\ statuses' = [statuses EXCEPT ![commit_at[w]] = Committed]
          /\ UNCHANGED <<ready_queue, task, invalidated>>
      BY <1>14 DEF CommitTransaction
    <2>2. ASSUME NEW t \in Txns
          PROVE  /\ Awaiting(t) => Awaiting(t)'
                 /\ \A i : RunningAs(t, i) => RunningAs(t, i)'
                 /\ statuses'[t] \in {statuses[t], Committed}
      BY <1>t, <2>1 DEF Awaiting, RunningAs, Idx, Requeuing, NextAbort
    <2>3. QED BY <2>2 DEF WorkConserved, Committed
  <1>15. ASSUME NEW w \in Workers, StoreCommitted(w) PROVE WorkConserved'
    BY <1>t, <1>15, WorkFrame DEF StoreCommitted, OthersKept
  <1>16. ASSUME NEW w \in Workers, ReleaseCommit(w) PROVE WorkConserved'
    BY <1>t, <1>16, WorkFrame DEF ReleaseCommit, OthersKept
  <1>17. QED
    BY StepCases, <1>1, <1>2, <1>3, <1>4, <1>5, <1>6, <1>7, <1>8, <1>9, <1>10,
       <1>11, <1>12, <1>13, <1>14, <1>15, <1>16
    DEF SchedulerStep

-----------------------------------------------------------------------------

\* First executions: what is known of a transaction while its first task waits.
FirstSafe == FirstRunFirst /\ CommittedStarted /\ RequeuedStarted /\ FirstRunOnce

LEMMA FirstInit == Init => FirstSafe
  <1> SUFFICES ASSUME Init PROVE FirstSafe
    OBVIOUS
  <1> USE NumTxnsAssumption DEF Init
  <1>1. /\ Len(ready_queue) = NumTxns
        /\ \A n \in 1 .. NumTxns : ready_queue[n] = <<n - 1, 0>>
    OBVIOUS
  <1>2. FirstRunFirst
    BY <1>1 DEF FirstRunFirst, Txns
  <1>3. CommittedStarted
    BY DEF CommittedStarted, Txns
  <1>4. FirstRunOnce
    BY DEF FirstRunOnce, NoTask
  <1>5. RequeuedStarted
    BY DEF RequeuedStarted, Requeuing
  <1>6. QED BY <1>2, <1>3, <1>4, <1>5 DEF FirstSafe

\* No worker starts to requeue a transaction, or changes its incarnation then.
RequeuesKept ==
    \A w \in Workers, t \in Txns :
        Requeuing(w, t)' => Requeuing(w, t) /\ new_incarnation'[w] = new_incarnation[w]

LEMMA RequeuesFrame ==
    ASSUME NEW w \in Workers, OthersKept(w), pc'[w] # "requeue",
           \A v \in Workers \ {w} : new_incarnation'[v] = new_incarnation[v]
    PROVE  RequeuesKept
  BY DEF RequeuesKept, OthersKept, Requeuing, NextAbort

\* A step that leaves statuses, queue and committed_idx alone, hands out no task
\* and enters neither the commit nor a requeue.
LEMMA FirstFrame ==
    ASSUME FirstSafe, RequeuesKept,
           UNCHANGED <<statuses, ready_queue, committed_idx>>,
           \A w \in Workers : task'[w] = task[w] \/ task'[w] = NoTask,
           \A w \in Workers : pc'[w] \in {"commit", "store"} =>
                pc[w] \in {"commit", "store"} /\ commit_at'[w] = commit_at[w]
    PROVE  FirstSafe'
  <1>1. FirstRunFirst'
    BY DEF FirstSafe, FirstRunFirst, Idx
  <1>2. CommittedStarted'
    BY DEF FirstSafe, CommittedStarted, Fresh
  <1>3. FirstRunOnce'
    <2>1. \A w \in Workers, t \in Txns : task'[w] = <<t, 0>> => task[w] = <<t, 0>>
      BY DEF NoTask
    <2>2. QED BY <2>1 DEF FirstSafe, FirstRunOnce
  <1>4. RequeuedStarted'
    BY DEF FirstSafe, RequeuedStarted, RequeuesKept, Fresh
  <1>5. QED BY <1>1, <1>2, <1>3, <1>4 DEF FirstSafe

\* A worker that changes the status of its own task leaves the first tasks still
\* queued alone.
LEMMA FirstRunsKept ==
    ASSUME FirstRunFirst, NEW w \in Workers, task[w] # NoTask, NEW x, NEW S,
           statuses \in [Txns -> S],
           statuses' = [statuses EXCEPT ![Idx(w)] = x],
           UNCHANGED <<ready_queue, task>>
    PROVE  FirstRunFirst'
  <1>1. SUFFICES ASSUME NEW n \in 1 .. Len(ready_queue), NEW t \in Txns,
                        ready_queue[n] = <<t, 0>>
                 PROVE  /\ statuses'[t] = Pending
                        /\ \A m \in 1 .. Len(ready_queue) :
                              ready_queue[m][1] = t => m = n
                        /\ \A v \in Workers : task[v] # NoTask => Idx(v) # t
    BY DEF FirstRunFirst, Idx
  <1>2. /\ statuses[t] = Pending /\ Idx(w) # t
        /\ \A m \in 1 .. Len(ready_queue) : ready_queue[m][1] = t => m = n
        /\ \A v \in Workers : task[v] # NoTask => Idx(v) # t
    BY <1>1 DEF FirstRunFirst
  <1>3. statuses'[t] = statuses[t]
    BY <1>2
  <1>4. QED BY <1>2, <1>3

LEMMA FirstStep ==
    ASSUME Typing, LockDiscipline, CommitSafe, WorkConserved, FirstSafe, [Next]_vars
    PROVE  FirstSafe'
  <1> USE NumTxnsAssumption DEF Goto, shared, locks, local, vars
  <1>t. /\ pc \in [Workers -> Labels]
        /\ task \in [Workers -> Tasks \cup {NoTask}]
        /\ statuses \in [Txns -> Statuses]
        /\ ready_queue \in Seq(Tasks)
        /\ commit_at \in [Workers -> 0 .. NumTxns]
        /\ committed_idx \in 0 .. NumTxns
        /\ \A w \in Workers : pc[w] \in {"mark", "execute"} => task[w] \in Tasks
        /\ NoTask \notin Tasks
        /\ invalidated \in [Workers -> SUBSET Txns]
        /\ new_incarnation \in [Workers -> Nat]
    BY DEF Typing, TypeOK, HasTask, NoTask, Tasks
  <1>1. CASE UNCHANGED vars
    <2>1. RequeuesKept
      BY <1>1 DEF RequeuesKept, Requeuing, NextAbort
    <2>2. QED BY <1>1, <2>1, FirstFrame
  <1>2. ASSUME NEW w \in Workers, NextTask(w) PROVE FirstSafe'
    <2>1. RequeuesKept
      BY <1>t, <1>2, RequeuesFrame DEF NextTask, OthersKept
    <2>2. QED BY <1>t, <1>2, <2>1, FirstFrame DEF NextTask
  <1>3. ASSUME NEW w \in Workers, PopTask(w) PROVE FirstSafe'
    <2>1. /\ pc' = [pc EXCEPT ![w] = "mark"]
          /\ task' = [task EXCEPT ![w] = ready_queue[1]]
          /\ Len(ready_queue) >= 1
          /\ Len(ready_queue') = Len(ready_queue) - 1
          /\ \A n \in 1 .. Len(ready_queue) - 1 : ready_queue'[n] = ready_queue[n + 1]
          /\ UNCHANGED <<statuses, committed_idx, commit_at>>
      BY <1>t, <1>3 DEF PopTask
    <2>2. ASSUME NEW n \in 1 .. Len(ready_queue'), NEW t \in Txns,
                 ready_queue'[n] = <<t, 0>>
          PROVE  /\ statuses'[t] = Pending
                 /\ \A m \in 1 .. Len(ready_queue') : ready_queue'[m][1] = t => m = n
                 /\ \A v \in Workers : task'[v] # NoTask => Idx(v)' # t
      <3>1. n + 1 \in 1 .. Len(ready_queue) /\ ready_queue[n + 1] = <<t, 0>>
        <4>1. Len(ready_queue) \in Nat
          BY <1>t
        <4>2. n \in 1 .. Len(ready_queue) - 1
          BY <2>1, <2>2
        <4>3. ready_queue'[n] = ready_queue[n + 1]
          BY <2>1, <4>2
        <4>4. n + 1 \in 1 .. Len(ready_queue)
          BY <4>1, <4>2
        <4>5. QED BY <2>2, <4>3, <4>4
      <3>2. /\ statuses[t] = Pending
            /\ \A m \in 1 .. Len(ready_queue) : ready_queue[m][1] = t => m = n + 1
            /\ \A v \in Workers : task[v] # NoTask => Idx(v) # t
        BY <3>1 DEF FirstSafe, FirstRunFirst
      <3>3. ready_queue[1][1] # t
        BY <2>1, <2>2, <3>2
      <3>4. ASSUME NEW m \in 1 .. Len(ready_queue'), ready_queue'[m][1] = t
            PROVE  m = n
        <4>1. m + 1 \in 1 .. Len(ready_queue) /\ ready_queue[m + 1][1] = t
          BY <1>t, <2>1, <3>4
        <4>2. QED BY <3>2, <4>1
      <3>5. QED BY <1>t, <2>1, <3>2, <3>3, <3>4 DEF Idx
    <2>3. FirstRunFirst'
      BY <2>2 DEF FirstRunFirst
    <2>4. \A t \in Txns : Fresh(t)' => Fresh(t)
      <3> SUFFICES ASSUME NEW t \in Txns, NEW n \in 1 .. Len(ready_queue'),
                          ready_queue'[n] = <<t, 0>>
                   PROVE  Fresh(t)
        BY DEF Fresh
      <3>1. n + 1 \in 1 .. Len(ready_queue) /\ ready_queue[n + 1] = <<t, 0>>
        BY <1>t, <2>1
      <3>2. QED BY <3>1 DEF Fresh
    <2>5. CommittedStarted'
      BY <1>t, <2>1, <2>4 DEF FirstSafe, CommittedStarted
    <2>6. ASSUME NEW v \in Workers, v # w, NEW t \in Txns,
                 task'[v] = <<t, 0>>, task'[w] = <<t, 0>>
          PROVE  FALSE
      <3>1. ready_queue[1] = <<t, 0>> /\ 1 \in 1 .. Len(ready_queue)
        BY <1>t, <2>1, <2>6
      <3>2. task[v] # NoTask => Idx(v) # t
        BY <3>1 DEF FirstSafe, FirstRunFirst
      <3>3. task[v] = <<t, 0>>
        BY <1>t, <2>1, <2>6
      <3>4. QED BY <3>2, <3>3 DEF Idx, NoTask
    <2>7. \A v \in Workers \ {w} : task'[v] = task[v]
      BY <1>t, <2>1
    <2>8. FirstRunOnce'
      BY <2>6, <2>7 DEF FirstSafe, FirstRunOnce
    <2>9. RequeuesKept
      BY <1>t, <1>3, RequeuesFrame DEF PopTask, OthersKept
    <2>10. RequeuedStarted'
      BY <2>4, <2>9 DEF FirstSafe, RequeuedStarted, RequeuesKept
    <2>11. QED BY <2>3, <2>5, <2>8, <2>10 DEF FirstSafe
  <1>4. ASSUME NEW w \in Workers, QueueEmpty(w) PROVE FirstSafe'
    <2>1. RequeuesKept
      BY <1>t, <1>4, RequeuesFrame DEF QueueEmpty, OthersKept
    <2>2. QED BY <1>t, <1>4, <2>1, FirstFrame DEF QueueEmpty
  <1>5. ASSUME NEW w \in Workers, MarkExecuting(w) PROVE FirstSafe'
    <2>1. /\ pc[w] = "mark" /\ pc' = [pc EXCEPT ![w] = "execute"]
          /\ statuses' = [statuses EXCEPT ![Idx(w)] = Executing(Inc(w))]
          /\ UNCHANGED <<ready_queue, task, committed_idx, commit_at>>
      BY <1>5 DEF MarkExecuting
    <2>a. task[w] # NoTask
      BY <1>t, <2>1
    <2>2. FirstRunFirst'
      BY <1>t, <2>1, <2>a, FirstRunsKept DEF FirstSafe
    <2>3. CommittedStarted' /\ FirstRunOnce'
      BY <1>t, <2>1 DEF FirstSafe, CommittedStarted, FirstRunOnce, Fresh
    <2>4. RequeuesKept
      BY <1>t, <1>5, RequeuesFrame DEF MarkExecuting, OthersKept
    <2>5. RequeuedStarted'
      BY <2>1, <2>4 DEF FirstSafe, RequeuedStarted, RequeuesKept, Fresh
    <2>6. QED BY <2>2, <2>3, <2>5 DEF FirstSafe
  <1>6. ASSUME NEW w \in Workers, CheckCommitted(w) PROVE FirstSafe'
    <2>1. RequeuesKept
      BY <1>t, <1>6, RequeuesFrame DEF CheckCommitted, OthersKept
    <2>2. QED BY <1>t, <1>6, <2>1, FirstFrame DEF CheckCommitted
  <1>7. ASSUME NEW w \in Workers, NEW readers \in SUBSET Txns,
               FinishExecution(w, readers)
        PROVE FirstSafe'
    <2>1. /\ pc[w] = "execute" /\ pc' = [pc EXCEPT ![w] = AbortNext(readers)]
          /\ statuses' = [statuses EXCEPT ![Idx(w)] = Executed(Inc(w))]
          /\ UNCHANGED <<ready_queue, task, committed_idx, commit_at>>
      BY <1>7 DEF FinishExecution
    <2>a. task[w] # NoTask
      BY <1>t, <2>1
    <2>2. FirstRunFirst'
      BY <1>t, <2>1, <2>a, FirstRunsKept DEF FirstSafe
    <2>3. AbortNext(readers) \in {"abort", "try_commit"}
      BY DEF AbortNext
    <2>4. CommittedStarted' /\ FirstRunOnce'
      BY <1>t, <2>1, <2>3 DEF FirstSafe, CommittedStarted, FirstRunOnce, Fresh
    <2>5. RequeuesKept
      BY <1>t, <1>7, <2>3, RequeuesFrame DEF FinishExecution, OthersKept
    <2>6. RequeuedStarted'
      BY <2>1, <2>5 DEF FirstSafe, RequeuedStarted, RequeuesKept, Fresh
    <2>7. QED BY <2>2, <2>4, <2>6 DEF FirstSafe
  <1>8. ASSUME NEW w \in Workers, AbortLock(w) PROVE FirstSafe'
    <2>1. PICK t \in Txns :
             /\ NextAbort(w, t) /\ Abortable(statuses[t])
             /\ statuses' = [statuses EXCEPT ![t] = Pending]
             /\ new_incarnation' = [new_incarnation EXCEPT ![w] = statuses[t].inc + 1]
      BY <1>8 DEF AbortLock, NewIncarnation
    <2>2. /\ pc' = [pc EXCEPT ![w] = "requeue"]
          /\ UNCHANGED <<ready_queue, task, invalidated, committed_idx, commit_at>>
      BY <1>8 DEF AbortLock
    <2>3. FirstRunFirst'
      BY <1>t, <2>1, <2>2 DEF FirstSafe, FirstRunFirst, Idx
    <2>4. CommittedStarted' /\ FirstRunOnce'
      BY <1>t, <2>2 DEF FirstSafe, CommittedStarted, FirstRunOnce, Fresh
    <2>a. statuses[t].kind # "Pending"
      BY <2>1 DEF Abortable
    <2>b. Fresh(t) => statuses[t] = Pending
      BY DEF FirstSafe, FirstRunFirst, Fresh
    <2>c. statuses[t].inc \in Nat
      BY <1>t DEF Statuses
    <2>5. ~Fresh(t) /\ statuses[t].inc \in Nat
      BY <2>a, <2>b, <2>c DEF Pending
    <2>6. ASSUME NEW v \in Workers, NEW u \in Txns, Requeuing(v, u)'
          PROVE  new_incarnation'[v] > 0 /\ ~Fresh(u)'
      <3>1. NextAbort(v, u) /\ (Fresh(u)' <=> Fresh(u))
        BY <2>2, <2>6 DEF Requeuing, NextAbort, Fresh
      <3>2. CASE v = w
        <4>1. u = t
          BY <2>1, <3>1, <3>2, NextAbortUnique
        <4>2. QED BY <1>t, <2>1, <2>5, <3>1, <3>2, <4>1
      <3>3. CASE v # w
        <4>1. Requeuing(v, u) /\ new_incarnation'[v] = new_incarnation[v]
          BY <1>t, <2>1, <2>2, <2>6, <3>1, <3>3 DEF Requeuing
        <4>2. QED BY <3>1, <4>1 DEF FirstSafe, RequeuedStarted
      <3>4. QED BY <3>2, <3>3
    <2>7. RequeuedStarted'
      BY <2>6 DEF RequeuedStarted
    <2>8. QED BY <2>3, <2>4, <2>7 DEF FirstSafe
  <1>9. ASSUME NEW w \in Workers, AbortSkip(w) PROVE FirstSafe'
    <2>1. RequeuesKept
      BY <1>t, <1>9, RequeuesFrame DEF AbortSkip, AbortNext, OthersKept
    <2>2. QED BY <1>t, <1>9, <2>1, FirstFrame DEF AbortSkip, AbortNext
  <1>10. ASSUME NEW w \in Workers, AbortRequeue(w) PROVE FirstSafe'
    <2>1. PICK t \in Txns :
             /\ NextAbort(w, t)
             /\ ready_queue' = Append(ready_queue, <<t, new_incarnation[w]>>)
      BY <1>10 DEF AbortRequeue, Requeued
    <2>2. /\ pc[w] = "requeue"
          /\ pc' = [pc EXCEPT ![w] = AbortNext(invalidated'[w])]
          /\ UNCHANGED <<statuses, task, committed_idx, commit_at>>
      BY <1>10 DEF AbortRequeue
    <2>3. AbortNext(invalidated'[w]) \in {"abort", "try_commit"}
      BY DEF AbortNext
    <2>4. new_incarnation[w] \in Nat /\ new_incarnation[w] > 0 /\ ~Fresh(t)
      BY <1>t, <2>1, <2>2 DEF FirstSafe, RequeuedStarted, Requeuing
    <2>5. /\ Len(ready_queue') = Len(ready_queue) + 1
          /\ \A n \in 1 .. Len(ready_queue) : ready_queue'[n] = ready_queue[n]
          /\ ready_queue'[Len(ready_queue) + 1] = <<t, new_incarnation[w]>>
      <3>1. <<t, new_incarnation[w]>> \in Tasks
        BY <2>4 DEF Tasks
      <3>2. QED BY <1>t, <2>1, <3>1, AppendProperties
    <2>6. ASSUME NEW n \in 1 .. Len(ready_queue'), NEW u \in Txns,
                 ready_queue'[n] = <<u, 0>>
          PROVE  n \in 1 .. Len(ready_queue) /\ ready_queue[n] = <<u, 0>> /\ u # t
      <3>1. n # Len(ready_queue) + 1
        BY <2>4, <2>5, <2>6
      <3>2. n \in 1 .. Len(ready_queue) /\ ready_queue[n] = <<u, 0>>
        <4>1. Len(ready_queue) \in Nat
          BY <1>t
        <4>2. n \in 1 .. Len(ready_queue)
          BY <2>5, <2>6, <3>1, <4>1
        <4>3. QED BY <2>5, <2>6, <4>2
      <3>3. QED BY <2>4, <3>2 DEF Fresh
    <2>7. FirstRunFirst'
      <3> SUFFICES ASSUME NEW n \in 1 .. Len(ready_queue'), NEW u \in Txns,
                          ready_queue'[n] = <<u, 0>>
                   PROVE  /\ statuses'[u] = Pending
                          /\ \A m \in 1 .. Len(ready_queue') :
                                ready_queue'[m][1] = u => m = n
                          /\ \A v \in Workers : task'[v] # NoTask => Idx(v)' # u
        BY DEF FirstRunFirst
      <3>1. n \in 1 .. Len(ready_queue) /\ ready_queue[n] = <<u, 0>> /\ u # t
        BY <2>6
      <3>2. /\ statuses[u] = Pending
            /\ \A m \in 1 .. Len(ready_queue) : ready_queue[m][1] = u => m = n
            /\ \A v \in Workers : task[v] # NoTask => Idx(v) # u
        BY <3>1 DEF FirstSafe, FirstRunFirst
      <3>3. statuses'[u] = Pending
        BY <2>2, <3>2
      <3>4. ASSUME NEW m \in 1 .. Len(ready_queue'), ready_queue'[m][1] = u
            PROVE  m = n
        <4>1. Len(ready_queue) \in Nat
          BY <1>t
        <4>2. m # Len(ready_queue) + 1
          BY <2>5, <3>1, <3>4
        <4>3. m \in 1 .. Len(ready_queue)
          BY <2>5, <4>1, <4>2
        <4>4. QED BY <2>5, <3>2, <3>4, <4>3
      <3>5. QED BY <2>2, <3>2, <3>3, <3>4 DEF Idx
    <2>8. \A u \in Txns : Fresh(u)' => Fresh(u)
      BY <2>6 DEF Fresh
    <2>9. CommittedStarted'
      BY <1>t, <2>2, <2>3, <2>8 DEF FirstSafe, CommittedStarted
    <2>10. FirstRunOnce'
      BY <2>2 DEF FirstSafe, FirstRunOnce
    <2>11. RequeuesKept
      BY <1>t, <1>10, <2>3, RequeuesFrame DEF AbortRequeue, OthersKept
    <2>12. RequeuedStarted'
      BY <2>8, <2>11 DEF FirstSafe, RequeuedStarted, RequeuesKept
    <2>13. QED BY <2>7, <2>9, <2>10, <2>12 DEF FirstSafe
  <1>11. ASSUME NEW w \in Workers, TryCommit(w) PROVE FirstSafe'
    <2>1. RequeuesKept
      BY <1>t, <1>11, RequeuesFrame DEF TryCommit, OthersKept
    <2>2. QED BY <1>t, <1>11, <2>1, FirstFrame DEF TryCommit
  <1>12. ASSUME NEW w \in Workers, SkipCommit(w) PROVE FirstSafe'
    <2>1. RequeuesKept
      BY <1>t, <1>12, RequeuesFrame DEF SkipCommit, OthersKept
    <2>2. QED BY <1>t, <1>12, <2>1, FirstFrame DEF SkipCommit
  <1>13. ASSUME NEW w \in Workers, Inspect(w) PROVE FirstSafe'
    <2>1. /\ UNCHANGED <<statuses, ready_queue, committed_idx, task, commit_at>>
          /\ \A v \in Workers \ {w} : pc'[v] = pc[v]
          /\ pc'[w] \in {"commit", "release"}
          /\ pc'[w] = "commit" => /\ commit_at[w] \in Txns
                                  /\ statuses[commit_at[w]].kind = "Executed"
      BY <1>t, <1>13 DEF Inspect, AllCommitted, Txns
    <2>2. FirstRunFirst' /\ FirstRunOnce'
      BY <2>1 DEF FirstSafe, FirstRunFirst, FirstRunOnce, Idx
    <2>3. \A t \in Txns : Fresh(t) => statuses[t] = Pending
      BY DEF FirstSafe, FirstRunFirst, Fresh
    <2>4. CommittedStarted'
      BY <2>1, <2>3 DEF FirstSafe, CommittedStarted, Fresh, Pending
    <2>5. RequeuesKept
      BY <1>t, <1>13, <2>1, RequeuesFrame DEF Inspect, OthersKept
    <2>6. RequeuedStarted'
      BY <2>1, <2>5 DEF FirstSafe, RequeuedStarted, RequeuesKept, Fresh
    <2>7. QED BY <2>2, <2>4, <2>6 DEF FirstSafe
  <1>14. ASSUME NEW w \in Workers, CommitTransaction(w) PROVE FirstSafe'
    <2>1. /\ pc[w] = "commit" /\ pc' = [pc EXCEPT ![w] = "store"]
          /\ statuses' = [statuses EXCEPT ![commit_at[w]] = Committed]
          /\ UNCHANGED <<ready_queue, task, committed_idx, commit_at>>
      BY <1>14 DEF CommitTransaction
    <2>2. \A t \in Txns : Fresh(t) => commit_at[w] # t
      BY <2>1 DEF FirstSafe, CommittedStarted
    <2>3. FirstRunFirst'
      BY <1>t, <2>1, <2>2 DEF FirstSafe, FirstRunFirst, Fresh, Idx
    <2>4. CommittedStarted' /\ FirstRunOnce'
      BY <1>t, <2>1 DEF FirstSafe, CommittedStarted, FirstRunOnce, Fresh
    <2>5. RequeuesKept
      BY <1>t, <1>14, RequeuesFrame DEF CommitTransaction, OthersKept
    <2>6. RequeuedStarted'
      BY <2>1, <2>5 DEF FirstSafe, RequeuedStarted, RequeuesKept, Fresh
    <2>7. QED BY <2>3, <2>4, <2>6 DEF FirstSafe
  <1>15. ASSUME NEW w \in Workers, StoreCommitted(w) PROVE FirstSafe'
    <2>1. /\ pc[w] = "store" /\ pc' = [pc EXCEPT ![w] = "inspect"]
          /\ commit_at[w] = committed_idx /\ committed_idx < NumTxns
          /\ committed_idx' = committed_idx + 1
          /\ commit_at' = [commit_at EXCEPT ![w] = @ + 1]
          /\ UNCHANGED <<statuses, ready_queue, task>>
      BY <1>15
      DEF StoreCommitted, NextCommitted, CommitSafe, CommitterView, Committing,
          Typing, CommitBound
    <2>2. ~Fresh(committed_idx) /\ committed_idx \in Txns
      BY <1>t, <2>1 DEF FirstSafe, CommittedStarted, Txns
    <2>3. FirstRunFirst' /\ FirstRunOnce'
      BY <2>1 DEF FirstSafe, FirstRunFirst, FirstRunOnce, Idx
    <2>4. CommittedStarted'
      <3> SUFFICES ASSUME NEW t \in Txns, Fresh(t)
                   PROVE  /\ committed_idx' <= t
                          /\ \A v \in Workers :
                                pc'[v] \in {"commit", "store"} => commit_at'[v] # t
        BY <2>1 DEF CommittedStarted, Fresh
      <3>1. /\ committed_idx <= t /\ committed_idx # t
            /\ \A v \in Workers : pc[v] \in {"commit", "store"} => commit_at[v] # t
        BY <2>2 DEF FirstSafe, CommittedStarted
      <3>2. committed_idx' <= t
        BY <1>t, <2>1, <3>1 DEF Txns
      <3>3. \A v \in Workers : pc'[v] \in {"commit", "store"} => commit_at'[v] # t
        BY <1>t, <2>1, <3>1
      <3>4. QED BY <3>2, <3>3
    <2>5. RequeuesKept
      BY <1>t, <1>15, RequeuesFrame DEF StoreCommitted, OthersKept
    <2>6. RequeuedStarted'
      BY <2>1, <2>5 DEF FirstSafe, RequeuedStarted, RequeuesKept, Fresh
    <2>7. QED BY <2>3, <2>4, <2>6 DEF FirstSafe
  <1>16. ASSUME NEW w \in Workers, ReleaseCommit(w) PROVE FirstSafe'
    <2>1. RequeuesKept
      BY <1>t, <1>16, RequeuesFrame DEF ReleaseCommit, OthersKept
    <2>2. QED BY <1>t, <1>16, <2>1, FirstFrame DEF ReleaseCommit
  <1>17. QED
    BY StepCases, <1>1, <1>2, <1>3, <1>4, <1>5, <1>6, <1>7, <1>8, <1>9, <1>10,
       <1>11, <1>12, <1>13, <1>14, <1>15, <1>16
    DEF SchedulerStep

-----------------------------------------------------------------------------

LEMMA UnrunFinite ==
    /\ IsFiniteSet(Txns) /\ Cardinality(Txns) = NumTxns
    /\ IsFiniteSet(Unrun) /\ Cardinality(Unrun) \in Nat
  <1>1. IsFiniteSet(Txns) /\ Cardinality(Txns) = NumTxns
    BY NumTxnsAssumption, FS_Interval DEF Txns
  <1>2. Unrun \subseteq Txns
    BY DEF Unrun
  <1>3. IsFiniteSet(Unrun)
    BY <1>1, <1>2, FS_Subset
  <1>4. QED BY <1>1, <1>3, FS_CardinalityType

\* Scheduler::new queues every transaction in index order.
LEMMA InitiallyQueued ==
    ASSUME Init, NEW t \in Txns
    PROVE  t + 1 \in 1 .. Len(ready_queue) /\ ready_queue[t + 1] = <<t, 0>>
  <1>1. t + 1 \in 1 .. NumTxns /\ (t + 1) - 1 = t
    BY NumTxnsAssumption DEF Txns
  <1>2. ready_queue = [k \in 1 .. NumTxns |-> <<k - 1, 0>>]
    BY DEF Init
  <1>3. Len(ready_queue) = NumTxns
    BY <1>2, NumTxnsAssumption
  <1>4. ready_queue[t + 1] = <<(t + 1) - 1, 0>>
    BY <1>1, <1>2
  <1>5. QED BY <1>1, <1>3, <1>4

LEMMA CountInit == Init => FirstRunsCounted
  <1> SUFFICES ASSUME Init PROVE FirstRunsCounted
    OBVIOUS
  <1>1. ASSUME NEW t \in Txns PROVE Fresh(t)
    <2>1. t + 1 \in 1 .. Len(ready_queue) /\ ready_queue[t + 1] = <<t, 0>>
      BY InitiallyQueued
    <2>2. QED BY <2>1 DEF Fresh
  <1>2. Unrun = Txns
    BY <1>1 DEF Unrun
  <1>3. QED
    BY <1>2, UnrunFinite, NumTxnsAssumption DEF FirstRunsCounted, Init

\* A worker has the first task of t and has not finished it.
Held(w, t) == pc[w] \in {"mark", "execute"} /\ task[w] = <<t, 0>>

\* The scheduler moves a first task from the queue to a worker and nowhere else:
\* a step that hands out no task and queues none leaves all of them alone.
Moved(w, t) ==
    /\ Fresh(t)' => Fresh(t)
    /\ Fresh(t) => Fresh(t)' \/ (pc'[w] = "mark" /\ task'[w] = <<t, 0>>)
    /\ \A v \in Workers : Held(v, t) => Held(v, t)'
    /\ \A v \in Workers : Held(v, t)' =>
          Held(v, t) \/ (v = w /\ pc[w] = "lock_queue" /\ Fresh(t))

LEMMA MovedFrame ==
    ASSUME NEW w, NEW t, UNCHANGED ready_queue,
           \A v \in Workers :
              /\ pc'[v] \in {"mark", "execute"} <=> pc[v] \in {"mark", "execute"}
              /\ pc[v] \in {"mark", "execute"} => task'[v] = task[v]
    PROVE  Moved(w, t)
  <1>1. Fresh(t)' <=> Fresh(t)
    BY DEF Fresh
  <1>2. QED BY <1>1 DEF Moved, Held

LEMMA FirstTaskMoves ==
    ASSUME Typing, FirstSafe, NEW w \in Workers, SchedulerStep(w), NEW t \in Txns
    PROVE  Moved(w, t)
  <1> USE DEF Goto, shared, locks, local, vars
  <1>t. /\ pc \in [Workers -> Labels]
        /\ task \in [Workers -> Tasks \cup {NoTask}]
        /\ statuses \in [Txns -> Statuses]
        /\ ready_queue \in Seq(Tasks)
        /\ new_incarnation \in [Workers -> Nat]
    BY DEF Typing, TypeOK
  <1>1. CASE PopTask(w)
    <2>1. /\ pc[w] = "lock_queue" /\ pc' = [pc EXCEPT ![w] = "mark"]
          /\ task' = [task EXCEPT ![w] = ready_queue[1]]
          /\ Len(ready_queue) \in Nat /\ Len(ready_queue) >= 1
          /\ Len(ready_queue') = Len(ready_queue) - 1
          /\ \A n \in 1 .. Len(ready_queue) - 1 : ready_queue'[n] = ready_queue[n + 1]
      BY <1>t, <1>1 DEF PopTask
    <2>2. ASSUME NEW n \in 1 .. Len(ready_queue), ready_queue[n] = <<t, 0>>, n # 1
          PROVE  Fresh(t)'
      <3>1. n - 1 \in 1 .. Len(ready_queue')
        BY <2>1, <2>2
      <3>2. ready_queue'[n - 1] = ready_queue[(n - 1) + 1] /\ (n - 1) + 1 = n
        BY <2>1, <3>1
      <3>3. QED BY <2>2, <3>1, <3>2 DEF Fresh
    <2>3. ASSUME NEW n \in 1 .. Len(ready_queue'), ready_queue'[n] = <<t, 0>>
          PROVE  Fresh(t)
      <3>1. n + 1 \in 1 .. Len(ready_queue) /\ ready_queue[n + 1] = <<t, 0>>
        BY <2>1, <2>3
      <3>2. QED BY <3>1 DEF Fresh
    <2>4. ready_queue[1] = <<t, 0>> => Fresh(t)
      BY <2>1 DEF Fresh
    <2>5. pc'[w] = "mark" /\ task'[w] = ready_queue[1]
      BY <1>t, <2>1
    <2>6. Fresh(t) => Fresh(t)' \/ task'[w] = <<t, 0>>
      BY <2>2, <2>5 DEF Fresh
    <2>7. \A v \in Workers \ {w} : pc'[v] = pc[v] /\ task'[v] = task[v]
      BY <1>t, <2>1
    <2>8. Fresh(t)' => Fresh(t)
      BY <2>3 DEF Fresh
    <2>9. QED BY <2>1, <2>4, <2>5, <2>6, <2>7, <2>8 DEF Moved, Held
  <1>2. CASE AbortRequeue(w)
    <2>1. PICK u \in Txns :
             /\ Requeuing(w, u)
             /\ ready_queue' = Append(ready_queue, <<u, new_incarnation[w]>>)
      BY <1>2 DEF AbortRequeue, Requeued, Requeuing
    <2>2. /\ pc[w] = "requeue"
          /\ pc' = [pc EXCEPT ![w] = AbortNext(invalidated'[w])]
          /\ UNCHANGED task
      BY <1>2 DEF AbortRequeue
    <2>3. AbortNext(invalidated'[w]) \in {"abort", "try_commit"}
      BY DEF AbortNext
    <2>4. /\ new_incarnation[w] \in Nat /\ new_incarnation[w] > 0
          /\ Len(ready_queue) \in Nat
      BY <1>t, <2>1 DEF FirstSafe, RequeuedStarted
    <2>5. /\ Len(ready_queue') = Len(ready_queue) + 1
          /\ \A n \in 1 .. Len(ready_queue) : ready_queue'[n] = ready_queue[n]
          /\ ready_queue'[Len(ready_queue) + 1] = <<u, new_incarnation[w]>>
      <3>1. <<u, new_incarnation[w]>> \in Tasks
        BY <2>4 DEF Tasks
      <3>2. QED BY <1>t, <2>1, <3>1, AppendProperties
    <2>6. Fresh(t)' <=> Fresh(t)
      <3>1. ASSUME NEW n \in 1 .. Len(ready_queue'), ready_queue'[n] = <<t, 0>>
            PROVE  Fresh(t)
        <4>1. n # Len(ready_queue) + 1
          BY <2>4, <2>5, <3>1
        <4>2. n \in 1 .. Len(ready_queue)
          BY <2>4, <2>5, <4>1
        <4>3. QED BY <2>5, <3>1, <4>2 DEF Fresh
      <3>2. ASSUME NEW n \in 1 .. Len(ready_queue), ready_queue[n] = <<t, 0>>
            PROVE  Fresh(t)'
        <4>1. n \in 1 .. Len(ready_queue')
          BY <2>4, <2>5
        <4>2. QED BY <2>5, <3>2, <4>1 DEF Fresh
      <3>3. QED BY <3>1, <3>2 DEF Fresh
    <2>7. QED BY <1>t, <2>2, <2>3, <2>6 DEF Moved, Held
  <1>3. CASE NextTask(w) \/ QueueEmpty(w) \/ MarkExecuting(w) \/ CheckCommitted(w)
    BY <1>t, <1>3, MovedFrame DEF NextTask, QueueEmpty, MarkExecuting, CheckCommitted
  <1>4. CASE AbortLock(w) \/ AbortSkip(w)
    BY <1>t, <1>4, MovedFrame DEF AbortLock, AbortSkip, AbortNext
  <1>5. CASE \/ TryCommit(w) \/ SkipCommit(w) \/ Inspect(w)
             \/ CommitTransaction(w) \/ StoreCommitted(w) \/ ReleaseCommit(w)
    BY <1>t, <1>5, MovedFrame
    DEF TryCommit, SkipCommit, Inspect, CommitTransaction, StoreCommitted, ReleaseCommit
  <1>6. QED BY <1>1, <1>2, <1>3, <1>4, <1>5 DEF SchedulerStep

\* So the scheduler leaves the set of unfinished first executions alone.
LEMMA UnrunKept ==
    ASSUME Typing, FirstSafe, NEW w \in Workers, SchedulerStep(w)
    PROVE  Unrun' = Unrun
  <1>1. ASSUME NEW t \in Txns
        PROVE  Fresh(t)' \/ (\E v \in Workers : Held(v, t)')
                  <=> Fresh(t) \/ (\E v \in Workers : Held(v, t))
    <2>1. Moved(w, t)
      BY FirstTaskMoves
    <2>2. (pc'[w] = "mark" /\ task'[w] = <<t, 0>>) => Held(w, t)'
      BY DEF Held
    <2>3. QED BY <2>1, <2>2 DEF Moved
  <1>2. QED BY <1>1 DEF Unrun, Held, Txns

LEMMA CountStep ==
    ASSUME Typing, FirstSafe, FirstRunsCounted, [Next]_vars
    PROVE  FirstRunsCounted'
  <1> USE DEF Goto, shared, locks, local, vars
  <1>t. /\ pc \in [Workers -> Labels]
        /\ task \in [Workers -> Tasks \cup {NoTask}]
        /\ executed_once_count \in Nat
        /\ \A w \in Workers : pc[w] \in {"mark", "execute"} => task[w] \in Tasks
    BY DEF Typing, TypeOK, HasTask
  <1>1. CASE UNCHANGED vars
    <2>1. Unrun' = Unrun
      BY <1>1 DEF Unrun, Fresh
    <2>2. QED BY <1>1, <2>1 DEF FirstRunsCounted
  <1>2. ASSUME NEW w \in Workers, SchedulerStep(w) PROVE FirstRunsCounted'
    <2>1. UNCHANGED executed_once_count
      BY <1>2
      DEF SchedulerStep, NextTask, PopTask, QueueEmpty, MarkExecuting, CheckCommitted,
          AbortLock, AbortSkip, AbortRequeue, TryCommit, SkipCommit, Inspect,
          CommitTransaction, StoreCommitted, ReleaseCommit
    <2>2. QED BY <1>2, <2>1, UnrunKept DEF FirstRunsCounted
  <1>3. ASSUME NEW w \in Workers, NEW readers \in SUBSET Txns,
               FinishExecution(w, readers)
        PROVE FirstRunsCounted'
    <2>1. /\ pc[w] = "execute" /\ pc' = [pc EXCEPT ![w] = AbortNext(readers)]
          /\ executed_once_count' = executed_once_count + (IF Inc(w) = 0 THEN 1 ELSE 0)
          /\ UNCHANGED <<ready_queue, task>>
      BY <1>3 DEF FinishExecution, FirstExecution
    <2>2. AbortNext(readers) \in {"abort", "try_commit"}
      BY DEF AbortNext
    <2>3. \A v \in Workers \ {w} : pc'[v] = pc[v]
      BY <1>t, <2>1
    <2>4. task[w] = <<Idx(w), Inc(w)>> /\ Idx(w) \in Txns
      BY <1>t, <2>1 DEF Idx, Inc, Tasks
    <2>5. \A t \in Txns : Fresh(t)' <=> Fresh(t)
      BY <2>1 DEF Fresh
    <2>6. CASE Inc(w) = 0
      <3>1. Idx(w) \in Unrun
        BY <2>1, <2>4, <2>6 DEF Unrun
      <3>2. ~Fresh(Idx(w))
        <4>1. task[w] # NoTask
          BY <2>4 DEF NoTask
        <4>2. ASSUME NEW n \in 1 .. Len(ready_queue), ready_queue[n] = <<Idx(w), 0>>
              PROVE  FALSE
          <5>1. \A v \in Workers : task[v] # NoTask => Idx(v) # Idx(w)
            BY <2>4, <4>2 DEF FirstSafe, FirstRunFirst
          <5>2. QED BY <4>1, <5>1
        <4>3. QED BY <4>2 DEF Fresh
      <3>3. \A v \in Workers \ {w} : task[v] # <<Idx(w), 0>>
        BY <2>4, <2>6 DEF FirstSafe, FirstRunOnce
      <3>4. ASSUME NEW t \in Txns
            PROVE  t \in Unrun' <=> t \in Unrun /\ t # Idx(w)
        <4>1. CASE t = Idx(w)
          <5>1. pc'[w] \notin {"mark", "execute"}
            BY <1>t, <2>1, <2>2
          <5>2. \A v \in Workers :
                   ~(pc'[v] \in {"mark", "execute"} /\ task'[v] = <<t, 0>>)
            BY <2>1, <3>3, <4>1, <5>1
          <5>3. QED BY <2>5, <3>2, <4>1, <5>2 DEF Unrun
        <4>2. CASE t # Idx(w)
          <5>1. task[w] # <<t, 0>>
            BY <2>4, <4>2
          <5>2. QED BY <2>1, <2>3, <2>5, <4>2, <5>1 DEF Unrun
        <4>3. QED BY <4>1, <4>2
      <3>5. Unrun' = Unrun \ {Idx(w)}
        BY <3>4 DEF Unrun
      <3>6. Cardinality(Unrun \ {Idx(w)}) = Cardinality(Unrun) - 1
        BY <3>1, UnrunFinite, FS_RemoveElement
      <3>7. QED
        BY <1>t, <2>1, <2>6, <3>5, <3>6, UnrunFinite DEF FirstRunsCounted
    <2>7. CASE Inc(w) # 0
      <3>1. \A t \in Txns : task[w] # <<t, 0>>
        BY <2>4, <2>7
      <3>2. Unrun' = Unrun
        BY <2>1, <2>3, <2>5, <3>1 DEF Unrun
      <3>3. QED BY <1>t, <2>1, <2>7, <3>2 DEF FirstRunsCounted
    <2>8. QED BY <2>6, <2>7
  <1>4. QED BY StepCases, <1>1, <1>2, <1>3

-----------------------------------------------------------------------------

LEMMA IndInvSplit ==
    IndInv <=> /\ Typing /\ LockDiscipline /\ CommitSafe /\ WorkConserved
               /\ FirstSafe /\ FirstRunsCounted
  BY DEF IndInv, Typing, CommitSafe, FirstSafe

LEMMA IndInvInit == Init => IndInv
  BY TypingInit, LockInit, CommitInit, WorkInit, FirstInit, CountInit, IndInvSplit

LEMMA IndInvStep ==
    ASSUME IndInv, [Next]_vars
    PROVE  IndInv'
  <1>1. /\ Typing /\ LockDiscipline /\ CommitSafe /\ WorkConserved
        /\ FirstSafe /\ FirstRunsCounted
    BY IndInvSplit
  <1>2. /\ Typing' /\ LockDiscipline' /\ CommitSafe' /\ WorkConserved'
        /\ FirstSafe' /\ FirstRunsCounted'
    BY <1>1, TypingStep, LockStep, CommitStep, WorkStep, FirstStep, CountStep
  <1>3. QED
    BY <1>2 DEF IndInv, Typing, CommitSafe, FirstSafe

\* The inductive invariant holds for every block and every set of workers.
THEOREM IndInvariant == Spec => []IndInv
  <1>1. Init => IndInv
    BY IndInvInit
  <1>2. IndInv /\ [Next]_vars => IndInv'
    BY IndInvStep
  <1>3. QED
    BY <1>1, <1>2, PTL DEF Spec

\* No transaction is lost: next_task, finish_execution, abort_transaction and
\* the commit loop, however interleaved, keep every Pending transaction queued
\* or popped and every Executing one in the hands of a worker.
THEOREM NoWorkLost == Spec => []WorkConserved
  BY IndInvariant, PTL DEF IndInv

\* done is set, and a worker leaves its loop, only when the whole block is
\* committed.
THEOREM DoneIsSound == Spec => []DoneSound
  BY IndInvariant, PTL DEF IndInv

\* Nothing above committed_idx is ever Committed, and the transaction at
\* committed_idx only while its committer has still to store the index: a stale
\* task that marks a transaction anew between the two writes changes nothing in it.
THEOREM CommittedPrefix == Spec => []CommitPrefix
  BY IndInvariant, PTL DEF IndInv

\* next_task and abort_transaction can block each other; nothing else in the
\* scheduler can: without them every wait for a lock ends at a worker that can go
\* on, after at most one more.
THEOREM OnlyLockOrder == Spec => []OnlyLockOrderBlocks
  <1>1. IndInv => OnlyLockOrderBlocks
    <2> SUFFICES ASSUME IndInv, ~LockOrderDeadlock, NEW w \in Workers, Waiting(w)
                 PROVE  \E x \in Workers :
                          /\ ~Waiting(x)
                          /\ WaitsFor(w, x)
                             \/ \E y \in Workers : WaitsFor(w, y) /\ WaitsFor(y, x)
      BY DEF OnlyLockOrderBlocks
    <2>1. \A x \in Workers, t \in Txns : status_lock[t] = x <=> Requeuing(x, t)
      BY DEF IndInv, LockDiscipline, StatusMutex
    <2>2. \A x \in Workers : queue_lock = x <=> pc[x] = "mark"
      BY DEF IndInv, LockDiscipline, QueueMutex
    \* Who has the queue mutex waits for no one.
    <2>3. ASSUME NEW u \in Workers, queue_lock = u PROVE ~Waiting(u)
      <3>1. pc[u] = "mark"
        BY <2>2, <2>3
      <3>2. SUFFICES ASSUME NEW x \in Workers, WaitsFor(u, x) PROVE FALSE
        BY DEF Waiting
      <3>3. PICK t \in Txns : status_lock[t] = x /\ Idx(u) = t
        BY <3>1, <3>2 DEF WaitsFor, NeedsStatus
      <3>4. Requeuing(x, Idx(u))
        BY <2>1, <3>3
      <3>5. QED BY <3>1, <3>4 DEF LockOrderDeadlock
    <2>4. PICK x \in Workers : WaitsFor(w, x)
      BY DEF Waiting
    <2>5. CASE queue_lock = x
      BY <2>3, <2>4, <2>5
    <2>6. ASSUME NEW t \in Txns, status_lock[t] = x, Waiting(x)
          PROVE  \E u \in Workers : ~Waiting(u) /\ WaitsFor(x, u)
      <3>1. pc[x] = "requeue"
        BY <2>1, <2>6 DEF Requeuing
      <3>2. PICK u \in Workers : WaitsFor(x, u)
        BY <2>6 DEF Waiting
      <3>3. queue_lock = u
        BY <3>1, <3>2 DEF WaitsFor, NeedsStatus
      <3>4. QED BY <2>3, <3>2, <3>3
    <2>7. CASE queue_lock # x
      <3>1. PICK t \in Txns : status_lock[t] = x
        BY <2>4, <2>7 DEF WaitsFor
      <3>2. QED BY <2>4, <2>6, <3>1
    <2>8. QED BY <2>5, <2>7
  <1>2. QED BY <1>1, IndInvariant, PTL

\* While the first task of a transaction waits, nothing else is known of it: it
\* is Pending, queued once, and no worker holds a task of it.
THEOREM FirstRunsFirst == Spec => []FirstRunFirst
  BY IndInvariant, PTL DEF IndInv

\* When at least one worker ran and all have left, executed_once_count is the
\* number of transactions: executions overtaken by an abort, and re-executions
\* that commit before the first execution has finished, are counted once as well.
THEOREM CountedOnce ==
    ASSUME Workers # {}
    PROVE  Spec => []AllExecutedOnce
  <1>1. IndInv => AllExecutedOnce
    <2> SUFFICES ASSUME IndInv, \A w \in Workers : pc[w] = "exited"
                 PROVE  executed_once_count = NumTxns
      BY DEF AllExecutedOnce
    <2>1. committed_idx = NumTxns
      BY DEF IndInv, DoneSound
    <2>2. \A t \in Txns : ~Fresh(t)
      BY <2>1, NumTxnsAssumption DEF IndInv, CommittedStarted, Txns
    <2>3. Unrun = {}
      BY <2>2 DEF Unrun
    <2>4. executed_once_count \in Nat
      BY DEF IndInv, TypeOK
    <2>5. QED
      BY <2>3, <2>4, FS_EmptySet, NumTxnsAssumption DEF IndInv, FirstRunsCounted
  <1>2. QED BY <1>1, IndInvariant, PTL

\* Commits happen one at a time and in index order: commit_lock, although it is
\* only tried and never waited for, serialises the commit loop.
THEOREM CommitsInOrder == Spec => CommitInOrder
  <1> DEFINE Ordered ==
        /\ committed_idx' \in {committed_idx, committed_idx + 1}
        /\ \A t \in Txns :
              statuses[t] # Committed /\ statuses'[t] = Committed
                 => t = committed_idx /\ committed_idx' = committed_idx
  <1>1. IndInv /\ [Next]_vars => [Ordered]_vars
    <2> SUFFICES ASSUME IndInv, [Next]_vars PROVE Ordered \/ UNCHANGED vars
      OBVIOUS
    <2>t. statuses \in [Txns -> Statuses] /\ committed_idx \in Nat
      BY NumTxnsAssumption DEF IndInv, TypeOK
    <2>1. ASSUME UNCHANGED committed_idx,
                 \/ UNCHANGED statuses
                 \/ \E u \in Txns : \E x :
                       /\ x.kind # "Committed"
                       /\ statuses' = [statuses EXCEPT ![u] = x]
          PROVE  Ordered
      BY <2>t, <2>1 DEF Committed
    <2>2. ASSUME NEW w \in Workers, CommitTransaction(w) PROVE Ordered
      <3>1. commit_at[w] = committed_idx
        BY <2>2 DEF CommitTransaction, IndInv, CommitterView, Committing
      <3>2. QED BY <2>t, <2>2, <3>1 DEF CommitTransaction
    <2>3. ASSUME NEW w \in Workers, StoreCommitted(w) PROVE Ordered
      <3>1. commit_at[w] = committed_idx
        BY <2>3 DEF StoreCommitted, IndInv, CommitterView, Committing
      <3>2. QED BY <2>3, <3>1 DEF StoreCommitted, NextCommitted
    <2>4. ASSUME NEW w \in Workers, MarkExecuting(w) PROVE Ordered
      <3>1. Idx(w) \in Txns
        BY <2>4 DEF MarkExecuting, IndInv, HasTask, Tasks, Idx
      <3>2. QED BY <2>1, <2>4, <3>1 DEF MarkExecuting, Executing
    <2>5. ASSUME NEW w \in Workers, AbortLock(w) PROVE Ordered
      BY <2>1, <2>5 DEF AbortLock, Pending
    <2>6. ASSUME NEW w \in Workers, NEW readers \in SUBSET Txns,
                 FinishExecution(w, readers)
          PROVE  Ordered
      <3>1. Idx(w) \in Txns
        BY <2>6 DEF FinishExecution, IndInv, HasTask, Tasks, Idx
      <3>2. QED BY <2>1, <2>6, <3>1 DEF FinishExecution, Executed
    <2>7. ASSUME NEW w \in Workers, SchedulerStep(w), ~CommitTransaction(w),
                 ~StoreCommitted(w), ~MarkExecuting(w), ~AbortLock(w)
          PROVE  Ordered
      <3>1. UNCHANGED <<statuses, committed_idx>>
        BY <2>7
        DEF SchedulerStep, NextTask, PopTask, QueueEmpty, CheckCommitted, AbortSkip,
            AbortRequeue, TryCommit, SkipCommit, Inspect, ReleaseCommit, shared
      <3>2. QED BY <2>1, <3>1
    <2>8. QED BY StepCases, <2>2, <2>3, <2>4, <2>5, <2>6, <2>7
  <1>2. QED
    BY <1>1, IndInvariant, PTL DEF Spec, CommitInOrder

-----------------------------------------------------------------------------
(* Re-execution is bounded.  Every task of a transaction t but its first is    *)
(* caused by an execution of a lower transaction that reported t, which was    *)
(* a first one or was itself caused by a still lower one, and so on.  The set  *)
(* of transactions along this chain of causes tells the tasks of t apart,      *)
(* because an execution aborts nobody twice; and there are 2^t sets of         *)
(* transactions below t.                                                       *)

\* The sets a chain of causes of a task of t can be.
Chains(t) == SUBSET (0 .. t - 1)

\* A worker that executes its task or still has readers to abort for it, and
\* the transactions it may yet abort.
Active(w) == pc[w] \in {"mark", "execute", "abort", "requeue"}
ToAbort(w) == IF pc[w] \in {"mark", "execute"} THEN Higher(Idx(w)) ELSE invalidated[w]

\* used[t] are the chains of the tasks t has had: one that extends another by t
\* was caused by that task of t.
UsedOK(used) ==
    /\ used \in [Txns -> SUBSET (SUBSET Nat)]
    /\ \A t \in Txns : {} \in used[t] /\ used[t] \in SUBSET Chains(t)
    /\ \A s, t \in Txns : \A c \in Chains(s) : c \cup {s} \in used[t] => c \in used[s]

\* The chain c of a task of t has been used, and no task has yet been caused by
\* it in a transaction of `higher`.
Unspent(used, t, c, higher) ==
    /\ c \in used[t]
    /\ \A u \in higher : c \cup {t} \notin used[u]

QueueExplained(used, cq) ==
    /\ \A n \in 1 .. Len(ready_queue) :
          /\ ready_queue[n][2] < Cardinality(used[ready_queue[n][1]])
          /\ Unspent(used, ready_queue[n][1], cq[n], Higher(ready_queue[n][1]))
    /\ \A n, m \in 1 .. Len(ready_queue) :
          n # m /\ ready_queue[n][1] = ready_queue[m][1] => cq[n] # cq[m]

WorkersExplained(used, cw) ==
    /\ \A w \in Workers :
          /\ task[w] # NoTask => Inc(w) < Cardinality(used[Idx(w)])
          /\ Active(w) => /\ task[w] \in Tasks
                          /\ ToAbort(w) \subseteq Higher(Idx(w))
                          /\ Unspent(used, Idx(w), cw[w], ToAbort(w))
    /\ \A v, w \in Workers :
          v # w /\ Active(v) /\ Active(w) /\ Idx(v) = Idx(w) => cw[v] # cw[w]

\* No chain belongs to a queued task and to a worker's at once.
Apart(cq, cw) ==
    \A n \in 1 .. Len(ready_queue), w \in Workers :
        Active(w) /\ ready_queue[n][1] = Idx(w) => cq[n] # cw[w]

StatusesExplained(used) ==
    /\ \A t \in Txns : statuses[t].inc < Cardinality(used[t])
    /\ \A w \in Workers, t \in Txns :
          Requeuing(w, t) => new_incarnation[w] <= Cardinality(used[t])

Explained(used, cq, cw) ==
    /\ UsedOK(used)
    /\ QueueExplained(used, cq)
    /\ WorkersExplained(used, cw)
    /\ Apart(cq, cw)
    /\ StatusesExplained(used)

\* The tasks that are queued, held or recorded in a status can be told apart by
\* chains, of which their incarnations never exceed the number.
Chained == \E used, cq, cw : Explained(used, cq, cw)

\* A chain of causes ends in its greatest transaction.
LEMMA ChainEnd ==
    ASSUME NEW s \in Nat, NEW t \in Nat, NEW c \in Chains(s), NEW d \in Chains(t),
           c \cup {s} = d \cup {t}
    PROVE  s = t /\ c = d
  <1>1. s = t
    <2>1. s \in d \cup {t} /\ t \in c \cup {s}
      OBVIOUS
    <2>2. (s = t \/ s < t) /\ (t = s \/ t < s)
      BY <2>1 DEF Chains
    <2>3. QED BY <2>2
  <1>2. s \notin c /\ t \notin d
    BY DEF Chains
  <1>3. QED BY <1>1, <1>2

LEMMA ChainsFinite ==
    ASSUME NEW t \in Txns, NEW S \in SUBSET Chains(t)
    PROVE  /\ IsFiniteSet(S) /\ Cardinality(S) \in Nat
           /\ Cardinality(S) <= 2 ^ t /\ 2 ^ t \in Nat
  <1>1. t \in Nat
    BY NumTxnsAssumption DEF Txns
  <1>2. IsFiniteSet(0 .. t - 1) /\ Cardinality(0 .. t - 1) = t
    <2>1. 0 \in Int /\ t - 1 \in Int
      BY <1>1
    <2>2. /\ IsFiniteSet(0 .. t - 1)
          /\ Cardinality(0 .. t - 1) = IF 0 > t - 1 THEN 0 ELSE (t - 1) - 0 + 1
      BY <2>1, FS_Interval
    <2>3. QED BY <1>1, <2>2
  <1>3. IsFiniteSet(Chains(t)) /\ Cardinality(Chains(t)) = 2 ^ t
    BY <1>2, FS_SUBSET DEF Chains
  <1>4. IsFiniteSet(S) /\ Cardinality(S) <= Cardinality(Chains(t))
    BY <1>3, FS_Subset
  <1>5. Cardinality(S) \in Nat /\ Cardinality(Chains(t)) \in Nat
    BY <1>3, <1>4, FS_CardinalityType
  <1>6. QED BY <1>3, <1>4, <1>5

\* Initially every transaction has had one task, without a cause.
LEMMA ChainedInit == Init => Chained
  <1> SUFFICES ASSUME Init PROVE Chained
    OBVIOUS
  <1> DEFINE used == [t \in Txns |-> {{}}]
             cq == [n \in 1 .. NumTxns |-> {}]
             cw == [w \in Workers |-> {}]
  <1>1. UsedOK(used)
    <2>1. \A t \in Txns : used[t] = {{}} /\ {} \in Chains(t)
      BY DEF Chains
    <2>2. \A s : \A c : c \cup {s} # {}
      OBVIOUS
    <2>3. used \in [Txns -> SUBSET (SUBSET Nat)]
      OBVIOUS
    <2> HIDE DEF used
    <2>4. QED BY <2>1, <2>2, <2>3 DEF UsedOK
  <1>2. \A t \in Txns : Cardinality(used[t]) = 1
    BY FS_Singleton
  <1>3. Len(ready_queue) = NumTxns /\ \A n \in 1 .. NumTxns : ready_queue[n] = <<n - 1, 0>>
    BY NumTxnsAssumption, LenProperties DEF Init
  <1>4. \A n \in 1 .. NumTxns : n - 1 \in Txns
    BY NumTxnsAssumption DEF Txns
  <1>5. QueueExplained(used, cq)
    <2>1. ASSUME NEW n \in 1 .. NumTxns
          PROVE  /\ ready_queue[n][2] < Cardinality(used[ready_queue[n][1]])
                 /\ Unspent(used, ready_queue[n][1], cq[n], Higher(ready_queue[n][1]))
      <3>1. ready_queue[n][1] = n - 1 /\ ready_queue[n][2] = 0 /\ n - 1 \in Txns
        BY <1>3, <1>4
      <3>2. Cardinality(used[n - 1]) = 1
        BY <1>2, <3>1
      <3>3. \A u \in Higher(n - 1) : {} \cup {n - 1} \notin used[u]
        BY DEF Higher
      <3>4. Unspent(used, n - 1, cq[n], Higher(n - 1))
        BY <3>1, <3>3 DEF Unspent
      <3>5. QED BY <3>1, <3>2, <3>4
    <2>2. \A n, m \in 1 .. NumTxns : ready_queue[n][1] = ready_queue[m][1] => n = m
      BY <1>3, NumTxnsAssumption
    <2>3. QED BY <1>3, <2>1, <2>2 DEF QueueExplained
  <1>6. \A w \in Workers : task[w] = NoTask /\ ~Active(w)
    BY DEF Init, Active
  <1>7. WorkersExplained(used, cw) /\ Apart(cq, cw)
    BY <1>6 DEF WorkersExplained, Apart
  <1>8. StatusesExplained(used)
    <2>1. \A t \in Txns : statuses[t].inc = 0
      BY DEF Init, Pending
    <2>2. \A w \in Workers, t \in Txns : ~Requeuing(w, t)
      BY DEF Init, Requeuing
    <2>3. QED BY <1>2, <2>1, <2>2 DEF StatusesExplained
  <1> HIDE DEF used, cq, cw
  <1>9. QED BY <1>1, <1>5, <1>7, <1>8 DEF Chained, Explained

\* Most steps start no task and end none but the worker's own.
LEMMA ChainedQuiet ==
    ASSUME NEW used, NEW cq, NEW cw, Explained(used, cq, cw), NEW w \in Workers,
           ready_queue' = ready_queue,
           \A v \in Workers \ {w} : /\ pc'[v] = pc[v] /\ task'[v] = task[v]
                                    /\ invalidated'[v] = invalidated[v],
           task'[w] \in {task[w], NoTask},
           Active(w)' => /\ Active(w) /\ task'[w] = task[w]
                         /\ ToAbort(w)' \subseteq ToAbort(w),
           StatusesExplained(used)'
    PROVE  Explained(used, cq, cw)'
  <1>1. UsedOK(used)'
    BY DEF Explained, UsedOK
  <1>2. QueueExplained(used, cq)'
    BY DEF Explained, QueueExplained, Unspent
  <1>3. ASSUME NEW v \in Workers
        PROVE  /\ task'[v] # NoTask => task'[v] = task[v]
               /\ Active(v)' => /\ Active(v) /\ task'[v] = task[v] /\ Idx(v)' = Idx(v)
                                /\ ToAbort(v)' \subseteq ToAbort(v)
    <2>1. CASE v = w
      BY <2>1 DEF Idx
    <2>2. CASE v # w
      BY <2>2 DEF Active, ToAbort, Idx
    <2>3. QED BY <2>1, <2>2
  <1>4. WorkersExplained(used, cw)'
    <2>1. ASSUME NEW v \in Workers
          PROVE  /\ (task[v] # NoTask => Inc(v) < Cardinality(used[Idx(v)]))'
                 /\ (Active(v) => /\ task[v] \in Tasks
                                  /\ ToAbort(v) \subseteq Higher(Idx(v))
                                  /\ Unspent(used, Idx(v), cw[v], ToAbort(v)))'
      <3>1. /\ task[v] # NoTask => Inc(v) < Cardinality(used[Idx(v)])
            /\ Active(v) => /\ task[v] \in Tasks
                            /\ ToAbort(v) \subseteq Higher(Idx(v))
                            /\ Unspent(used, Idx(v), cw[v], ToAbort(v))
        BY DEF Explained, WorkersExplained
      <3>2. (task[v] # NoTask => Inc(v) < Cardinality(used[Idx(v)]))'
        BY <1>3, <3>1 DEF Inc, Idx
      <3>3. ASSUME Active(v)'
            PROVE  /\ task'[v] \in Tasks
                   /\ (ToAbort(v) \subseteq Higher(Idx(v)))'
                   /\ Unspent(used, Idx(v), cw[v], ToAbort(v))'
        <4>1. /\ Active(v) /\ task'[v] = task[v] /\ Idx(v)' = Idx(v)
              /\ ToAbort(v)' \subseteq ToAbort(v)
          BY <1>3, <3>3
        <4>2. Higher(Idx(v))' = Higher(Idx(v))
          BY <4>1 DEF Higher
        <4>3. QED BY <3>1, <4>1, <4>2 DEF Unspent
      <3>4. QED BY <3>2, <3>3
    <2>2. ASSUME NEW u \in Workers, NEW v \in Workers,
                 u # v, Active(u)', Active(v)', Idx(u)' = Idx(v)'
          PROVE  cw[u] # cw[v]
      BY <1>3, <2>2 DEF Explained, WorkersExplained
    <2>3. QED BY <2>1, <2>2 DEF WorkersExplained
  <1>5. Apart(cq, cw)'
    BY <1>3 DEF Explained, Apart
  <1>6. QED BY <1>1, <1>2, <1>4, <1>5 DEF Explained

\* The statuses a step leaves alone, sets back, or sets to the worker's task, when
\* no requeue begins.
LEMMA StatusesKept ==
    ASSUME NEW used, NEW cq, NEW cw, Explained(used, cq, cw), RequeuesKept,
           \A t \in Txns :
              \/ statuses'[t].inc = statuses[t].inc
              \/ statuses'[t].inc = 0
              \/ \E w \in Workers : task[w] \in Tasks /\ Idx(w) = t /\ statuses'[t].inc = Inc(w)
    PROVE  StatusesExplained(used)'
  <1> SUFFICES ASSUME NEW t \in Txns PROVE statuses'[t].inc < Cardinality(used[t])
    <2>1. \A w \in Workers, t \in Txns :
             Requeuing(w, t)' => new_incarnation'[w] <= Cardinality(used[t])
      BY DEF RequeuesKept, Explained, StatusesExplained
    <2>2. QED BY <2>1 DEF StatusesExplained
  <1>1. Cardinality(used[t]) \in Nat /\ Cardinality(used[t]) # 0
    <2>1. used[t] \in SUBSET Chains(t) /\ used[t] # {}
      BY DEF Explained, UsedOK
    <2>2. IsFiniteSet(used[t]) /\ Cardinality(used[t]) \in Nat
      BY <2>1, ChainsFinite
    <2>3. QED BY <2>1, <2>2, FS_EmptySet
  <1>2. CASE statuses'[t].inc = statuses[t].inc
    BY <1>2 DEF Explained, StatusesExplained
  <1>3. CASE statuses'[t].inc = 0
    BY <1>1, <1>3
  <1>4. CASE \E w \in Workers :
                task[w] \in Tasks /\ Idx(w) = t /\ statuses'[t].inc = Inc(w)
    <2>1. PICK w \in Workers :
                task[w] \in Tasks /\ Idx(w) = t /\ statuses'[t].inc = Inc(w)
      BY <1>4
    <2>2. task[w] # NoTask
      BY <2>1, NoTaskApart
    <2>3. QED BY <2>1, <2>2 DEF Explained, WorkersExplained
  <1>5. QED BY <1>2, <1>3, <1>4

\* A popped task takes its chain from the queue to the worker.
LEMMA ChainedPop ==
    ASSUME TypeOK, NEW used, NEW cq, NEW cw, Explained(used, cq, cw),
           NEW w \in Workers, PopTask(w)
    PROVE  Chained'
  <1> DEFINE q == ready_queue
  <1>1. /\ pc[w] = "lock_queue" /\ q # <<>> /\ task' = [task EXCEPT ![w] = Head(q)]
        /\ ready_queue' = Tail(q) /\ pc' = [pc EXCEPT ![w] = "mark"]
        /\ statuses' = statuses /\ invalidated' = invalidated
    BY DEF PopTask, Goto
  <1>2. q \in Seq(Tasks) /\ pc \in [Workers -> Labels] /\ task \in [Workers -> Tasks \cup {NoTask}]
    BY DEF TypeOK
  <1>3. /\ Len(q) \in Nat /\ Len(q) >= 1 /\ Head(q) = q[1] /\ q[1] \in Tasks
        /\ Len(ready_queue') = Len(q) - 1
        /\ \A n \in 1 .. Len(q) - 1 : ready_queue'[n] = q[n + 1]
    BY <1>1, <1>2
  <1>4. PICK c : c = [n \in 1 .. Len(q) - 1 |-> cq[n + 1]]
    OBVIOUS
  <1>5. PICK d : d = [v \in Workers |-> IF v = w THEN cq[1] ELSE cw[v]]
    OBVIOUS
  <1>6. d[w] = cq[1] /\ \A v \in Workers \ {w} : d[v] = cw[v]
    BY <1>5
  <1>7. \A n \in 1 .. Len(q) - 1 : n + 1 \in 1 .. Len(q) /\ n + 1 # 1 /\ c[n] = cq[n + 1]
    BY <1>3, <1>4
  <1>8. 1 \in 1 .. Len(q)
    BY <1>3
  <1>9. /\ ~Active(w) /\ Active(w)' /\ task'[w] = q[1] /\ Idx(w)' = q[1][1]
        /\ Inc(w)' = q[1][2] /\ ToAbort(w)' = Higher(q[1][1])
    <2>1. pc'[w] = "mark" /\ task'[w] = q[1]
      BY <1>1, <1>2, <1>3
    <2>2. QED BY <1>1, <2>1 DEF Active, ToAbort, Idx, Inc, Higher
  <1>10. ASSUME NEW v \in Workers \ {w}
         PROVE  /\ task'[v] = task[v] /\ Idx(v)' = Idx(v) /\ Inc(v)' = Inc(v)
                /\ Active(v)' <=> Active(v)
                /\ ToAbort(v)' = ToAbort(v)
    <2>1. pc'[v] = pc[v] /\ task'[v] = task[v] /\ invalidated'[v] = invalidated[v]
      BY <1>1, <1>2
    <2>2. QED BY <2>1 DEF Active, ToAbort, Idx, Inc, Higher
  <1>11. UsedOK(used)'
    BY DEF Explained, UsedOK
  <1>12. StatusesExplained(used)'
    <2>1. RequeuesKept
      BY <1>1, <1>2, RequeuesFrame DEF PopTask, OthersKept
    <2>2. QED BY <1>1, <2>1, StatusesKept
  <1>13. QueueExplained(used, cq)
    BY DEF Explained
  <1>14. QueueExplained(used, c)'
    <2>1. ASSUME NEW n \in 1 .. Len(q) - 1
          PROVE  /\ ready_queue'[n][2] < Cardinality(used[ready_queue'[n][1]])
                 /\ Unspent(used, ready_queue'[n][1], c[n], Higher(ready_queue'[n][1]))
      <3>1. n + 1 \in 1 .. Len(q) /\ c[n] = cq[n + 1] /\ ready_queue'[n] = q[n + 1]
        BY <1>3, <1>7
      <3>2. QED BY <1>13, <3>1 DEF QueueExplained
    <2>2. ASSUME NEW n \in 1 .. Len(q) - 1, NEW m \in 1 .. Len(q) - 1,
                 n # m, ready_queue'[n][1] = ready_queue'[m][1]
          PROVE  c[n] # c[m]
      <3>1. /\ n + 1 \in 1 .. Len(q) /\ c[n] = cq[n + 1] /\ ready_queue'[n] = q[n + 1]
            /\ m + 1 \in 1 .. Len(q) /\ c[m] = cq[m + 1] /\ ready_queue'[m] = q[m + 1]
        BY <1>3, <1>7
      <3>2. n + 1 # m + 1
        BY <1>3, <2>2
      <3>3. QED BY <1>13, <2>2, <3>1, <3>2 DEF QueueExplained
    <2>3. QED BY <1>3, <2>1, <2>2 DEF QueueExplained, Unspent, Higher
  <1>15. /\ q[1][2] < Cardinality(used[q[1][1]])
         /\ Unspent(used, q[1][1], cq[1], Higher(q[1][1]))
    BY <1>8, <1>13 DEF QueueExplained
  <1>16. WorkersExplained(used, cw) /\ Apart(cq, cw)
    BY DEF Explained
  <1>17. WorkersExplained(used, d)'
    <2>1. ASSUME NEW v \in Workers
          PROVE  /\ (task[v] # NoTask => Inc(v) < Cardinality(used[Idx(v)]))'
                 /\ (Active(v) => /\ task[v] \in Tasks
                                  /\ ToAbort(v) \subseteq Higher(Idx(v))
                                  /\ Unspent(used, Idx(v), d[v], ToAbort(v)))'
      <3>1. CASE v = w
        BY <1>3, <1>6, <1>9, <1>15, <3>1 DEF Unspent, Higher
      <3>2. CASE v # w
        <4>1. v \in Workers \ {w} /\ d[v] = cw[v]
          BY <1>6, <3>2
        <4>2. /\ task[v] # NoTask => Inc(v) < Cardinality(used[Idx(v)])
              /\ Active(v) => /\ task[v] \in Tasks
                              /\ ToAbort(v) \subseteq Higher(Idx(v))
                              /\ Unspent(used, Idx(v), cw[v], ToAbort(v))
          BY <1>16 DEF WorkersExplained
        <4>3. Higher(Idx(v))' = Higher(Idx(v))
          BY <1>10, <4>1 DEF Higher
        <4>4. QED BY <1>10, <4>1, <4>2, <4>3 DEF Unspent
      <3>3. QED BY <3>1, <3>2
    <2>2. ASSUME NEW u \in Workers, NEW v \in Workers,
                 u # v, Active(u)', Active(v)', Idx(u)' = Idx(v)'
          PROVE  d[u] # d[v]
      <3>1. ASSUME NEW x \in Workers \ {w}, Active(x)', Idx(x)' = Idx(w)'
            PROVE  cq[1] # cw[x]
        BY <1>8, <1>9, <1>10, <1>16, <3>1 DEF Apart
      <3>2. CASE u = w
        BY <1>6, <2>2, <3>1, <3>2
      <3>3. CASE v = w
        BY <1>6, <2>2, <3>1, <3>3
      <3>4. CASE u # w /\ v # w
        BY <1>6, <1>10, <1>16, <2>2, <3>4 DEF WorkersExplained
      <3>5. QED BY <3>2, <3>3, <3>4
    <2>3. QED BY <2>1, <2>2 DEF WorkersExplained
  <1>18. Apart(c, d)'
    <2> SUFFICES ASSUME NEW n \in 1 .. Len(q) - 1, NEW v \in Workers,
                        Active(v)', ready_queue'[n][1] = Idx(v)'
                 PROVE  c[n] # d[v]
      BY <1>3 DEF Apart
    <2>1. n + 1 \in 1 .. Len(q) /\ n + 1 # 1 /\ c[n] = cq[n + 1] /\ ready_queue'[n] = q[n + 1]
      BY <1>3, <1>7
    <2>2. CASE v = w
      BY <1>6, <1>8, <1>9, <1>13, <2>1, <2>2 DEF QueueExplained
    <2>3. CASE v # w
      BY <1>6, <1>10, <1>16, <2>1, <2>3 DEF Apart
    <2>4. QED BY <2>2, <2>3
  <1>19. Explained(used, c, d)'
    BY <1>11, <1>12, <1>14, <1>17, <1>18 DEF Explained
  <1>20. QED BY <1>19 DEF Chained

\* An abort gives the transaction a task with a chain it has not had: the
\* aborting execution's, extended by its own transaction.
LEMMA ChainedRequeue ==
    ASSUME TypeOK, NEW used, NEW cq, NEW cw, Explained(used, cq, cw),
           NEW w \in Workers, AbortRequeue(w)
    PROVE  Chained'
  <1> DEFINE q == ready_queue
  <1>1. PICK t \in Txns :
           /\ NextAbort(w, t)
           /\ ready_queue' = Append(q, <<t, new_incarnation[w]>>)
           /\ invalidated' = [invalidated EXCEPT ![w] = invalidated[w] \ {t}]
    BY DEF AbortRequeue, Requeued
  <1>2. /\ pc[w] = "requeue"
        /\ pc' = [pc EXCEPT ![w] = AbortNext(invalidated'[w])]
        /\ task' = task /\ statuses' = statuses
        /\ new_incarnation' = [new_incarnation EXCEPT ![w] = 0]
    BY DEF AbortRequeue, Goto
  <1>3. /\ q \in Seq(Tasks) /\ pc \in [Workers -> Labels]
        /\ statuses \in [Txns -> Statuses] /\ invalidated \in [Workers -> SUBSET Txns]
        /\ task \in [Workers -> Tasks \cup {NoTask}] /\ new_incarnation \in [Workers -> Nat]
    BY DEF TypeOK
  <1>4. PICK i \in Nat : i = new_incarnation[w]
    BY <1>3
  <1>5. PICK s : s = Idx(w)
    OBVIOUS
  <1>6. PICK e : e = cw[w] \cup {s}
    OBVIOUS
  <1>7. UsedOK(used) /\ QueueExplained(used, cq) /\ WorkersExplained(used, cw)
        /\ Apart(cq, cw) /\ StatusesExplained(used)
    BY DEF Explained
  <1>8. /\ Active(w) /\ ToAbort(w) = invalidated[w] /\ t \in invalidated[w]
    BY <1>1, <1>2 DEF Active, ToAbort, NextAbort
  <1>9. /\ s \in Txns /\ t > s /\ cw[w] \in used[s] /\ e \notin used[t]
    <2>1. /\ task[w] \in Tasks /\ ToAbort(w) \subseteq Higher(s)
          /\ Unspent(used, s, cw[w], ToAbort(w))
      BY <1>5, <1>7, <1>8 DEF WorkersExplained
    <2>2. s \in Txns
      BY <1>5, <2>1 DEF Tasks, Idx
    <2>3. QED BY <1>6, <1>8, <2>1, <2>2 DEF Unspent, Higher
  <1>10. s \in Nat /\ t \in Nat /\ \A x \in Txns : x \in Nat
    BY <1>9, NumTxnsAssumption DEF Txns
  <1>11. cw[w] \in Chains(s) /\ e \in Chains(t)
    <2>1. cw[w] \in Chains(s)
      BY <1>7, <1>9 DEF UsedOK
    <2>2. QED BY <1>6, <1>9, <1>10, <2>1 DEF Chains
  <1>12. PICK new : new = [used EXCEPT ![t] = used[t] \cup {e}]
    OBVIOUS
  <1>13. /\ new \in [Txns -> SUBSET (SUBSET Nat)]
         /\ new[t] = used[t] \cup {e}
         /\ \A x \in Txns \ {t} : new[x] = used[x]
         /\ \A x \in Txns : used[x] \subseteq new[x]
    <2>1. used \in [Txns -> SUBSET (SUBSET Nat)]
      BY <1>7 DEF UsedOK
    <2>2. e \in SUBSET Nat
      BY <1>10, <1>11 DEF Chains
    <2>3. QED BY <1>12, <2>1, <2>2
  <1>14. ASSUME NEW x \in Txns
         PROVE  /\ Cardinality(used[x]) \in Nat /\ Cardinality(new[x]) \in Nat
                /\ Cardinality(used[x]) <= Cardinality(new[x])
                /\ x = t => Cardinality(new[x]) = Cardinality(used[x]) + 1
    <2>1. IsFiniteSet(used[x]) /\ Cardinality(used[x]) \in Nat
      BY <1>7, ChainsFinite DEF UsedOK
    <2>2. CASE x = t
      <3>1. Cardinality(used[t] \cup {e}) = Cardinality(used[t]) + 1
        BY <1>9, <2>1, <2>2, FS_AddElement
      <3>2. Cardinality(new[x]) = Cardinality(used[x]) + 1
        BY <1>13, <2>2, <3>1
      <3>3. QED BY <2>1, <3>2
    <2>3. CASE x # t
      BY <1>13, <2>1, <2>3
    <2>4. QED BY <2>2, <2>3
  <1>15. UsedOK(new)'
    <2>1. \A x \in Txns : {} \in new[x] /\ new[x] \in SUBSET Chains(x)
      BY <1>7, <1>11, <1>13 DEF UsedOK
    <2>2. ASSUME NEW y \in Txns, NEW x \in Txns, NEW c \in Chains(y), c \cup {y} \in new[x]
          PROVE  c \in new[y]
      <3>1. CASE c \cup {y} \in used[x]
        BY <1>7, <1>13, <3>1 DEF UsedOK
      <3>2. CASE c \cup {y} = e
        <4>1. y = s /\ c = cw[w]
          BY <1>6, <1>10, <1>11, <3>2, ChainEnd
        <4>2. QED BY <1>9, <1>13, <4>1
      <3>3. QED BY <1>13, <2>2, <3>1, <3>2
    <2>3. QED BY <1>13, <2>1, <2>2 DEF UsedOK, Chains
  \* Whoever had not caused anything in `higher` still has not, but for w in t.
  <1>16. ASSUME NEW x \in Txns, NEW c, NEW higher \in SUBSET Higher(x),
                Unspent(used, x, c, higher),
                t \in higher => ~(x = s /\ c = cw[w])
         PROVE  Unspent(new, x, c, higher)
    <2>1. c \in used[x] /\ c \in Chains(x)
      BY <1>7, <1>16 DEF Unspent, UsedOK
    <2>2. c \in new[x]
      BY <1>13, <2>1
    <2>3. ASSUME NEW u \in higher, c \cup {x} \in new[u] PROVE FALSE
      <3>1. u \in Txns /\ c \cup {x} \notin used[u]
        BY <1>16 DEF Unspent, Higher
      <3>2. u = t /\ c \cup {x} = e
        BY <1>13, <2>3, <3>1
      <3>3. x = s /\ c = cw[w]
        BY <1>6, <1>10, <1>11, <2>1, <3>2, ChainEnd
      <3>4. QED BY <1>16, <3>2, <3>3
    <2>4. QED BY <2>2, <2>3 DEF Unspent
  <1>17. Unspent(new, t, e, Higher(t))
    <2>1. ASSUME NEW u \in Higher(t), e \cup {t} \in new[u] PROVE FALSE
      <3>1. u \in Txns /\ u # t
        BY <1>10 DEF Higher
      <3>2. e \cup {t} \in used[u]
        BY <1>13, <2>1, <3>1
      <3>3. e \in used[t]
        BY <1>7, <1>11, <3>1, <3>2 DEF UsedOK
      <3>4. QED BY <1>9, <3>3
    <2>2. QED BY <1>13, <2>1 DEF Unspent
  <1>18. /\ Len(q) \in Nat /\ Len(ready_queue') = Len(q) + 1
         /\ ready_queue'[Len(q) + 1] = <<t, i>>
         /\ \A n \in 1 .. Len(q) : ready_queue'[n] = q[n] /\ q[n] \in Tasks
    BY <1>1, <1>3, <1>4
  <1>19. PICK c : c = [n \in 1 .. Len(q) + 1 |-> IF n = Len(q) + 1 THEN e ELSE cq[n]]
    OBVIOUS
  <1>20. c[Len(q) + 1] = e /\ \A n \in 1 .. Len(q) : c[n] = cq[n]
    BY <1>18, <1>19
  <1>21. \A n \in 1 .. Len(q) + 1 : n \in 1 .. Len(q) \/ n = Len(q) + 1
    BY <1>18
  <1>22. i < Cardinality(new[t])
    <2>1. i <= Cardinality(used[t])
      BY <1>1, <1>2, <1>4, <1>7 DEF StatusesExplained, Requeuing
    <2>2. QED BY <1>14, <2>1
  <1>23. ASSUME NEW n \in 1 .. Len(q) PROVE q[n][1] \in Txns /\ q[n][2] \in Nat
    BY <1>18 DEF Tasks
  <1>24. ASSUME NEW n \in 1 .. Len(q), q[n][1] = t PROVE cq[n] # e
    <2>1. cq[n] \in used[t]
      BY <1>7, <1>24 DEF QueueExplained, Unspent
    <2>2. QED BY <1>9, <2>1
  <1>25. QueueExplained(new, c)'
    <2>1. ASSUME NEW n \in 1 .. Len(q) + 1
          PROVE  /\ ready_queue'[n][2] < Cardinality(new[ready_queue'[n][1]])
                 /\ Unspent(new, ready_queue'[n][1], c[n], Higher(ready_queue'[n][1]))
      <3>1. CASE n = Len(q) + 1
        <4>1. ready_queue'[n][1] = t /\ ready_queue'[n][2] = i /\ c[n] = e
          BY <1>18, <1>20, <3>1
        <4>2. QED BY <1>17, <1>22, <4>1
      <3>2. CASE n \in 1 .. Len(q)
        <4>1. ready_queue'[n] = q[n] /\ c[n] = cq[n] /\ q[n][1] \in Txns /\ q[n][2] \in Nat
          BY <1>18, <1>20, <1>23, <3>2
        <4>2. /\ q[n][2] < Cardinality(used[q[n][1]])
              /\ Unspent(used, q[n][1], cq[n], Higher(q[n][1]))
          BY <1>7, <3>2 DEF QueueExplained
        <4>3. q[n][2] < Cardinality(new[q[n][1]])
          BY <1>14, <4>1, <4>2
        <4>4. ~(q[n][1] = s /\ cq[n] = cw[w])
          BY <1>5, <1>7, <1>8, <3>2 DEF Apart
        <4>5. Unspent(new, q[n][1], cq[n], Higher(q[n][1]))
          BY <1>16, <4>1, <4>2, <4>4
        <4>6. QED BY <4>1, <4>3, <4>5
      <3>3. QED BY <1>21, <3>1, <3>2
    <2>2. ASSUME NEW n \in 1 .. Len(q) + 1, NEW m \in 1 .. Len(q) + 1,
                 n # m, ready_queue'[n][1] = ready_queue'[m][1]
          PROVE  c[n] # c[m]
      <3>1. ready_queue'[Len(q) + 1][1] = t
        BY <1>18
      <3>2. CASE n = Len(q) + 1
        <4>1. m \in 1 .. Len(q)
          BY <1>21, <2>2, <3>2
        <4>2. QED BY <1>18, <1>20, <1>24, <2>2, <3>1, <3>2, <4>1
      <3>3. CASE m = Len(q) + 1
        <4>1. n \in 1 .. Len(q)
          BY <1>21, <2>2, <3>3
        <4>2. QED BY <1>18, <1>20, <1>24, <2>2, <3>1, <3>3, <4>1
      <3>4. CASE n \in 1 .. Len(q) /\ m \in 1 .. Len(q)
        BY <1>7, <1>18, <1>20, <2>2, <3>4 DEF QueueExplained
      <3>5. QED BY <1>21, <3>2, <3>3, <3>4
    <2>3. QED BY <1>18, <2>1, <2>2 DEF QueueExplained, Unspent, Higher
  <1>26. ASSUME NEW v \in Workers
         PROVE  /\ Idx(v)' = Idx(v) /\ Inc(v)' = Inc(v) /\ task'[v] = task[v]
                /\ Active(v)' => Active(v) /\ ToAbort(v)' \subseteq ToAbort(v)
                /\ Active(v)' /\ v = w => t \notin ToAbort(v)'
    <2>1. Idx(v)' = Idx(v) /\ Inc(v)' = Inc(v) /\ task'[v] = task[v]
      BY <1>2 DEF Idx, Inc
    <2>2. CASE v = w
      <3>1. /\ invalidated'[w] = invalidated[w] \ {t}
            /\ pc'[w] = AbortNext(invalidated'[w])
        BY <1>1, <1>2, <1>3
      <3>2. pc'[w] \in {"abort", "try_commit"}
        BY <3>1 DEF AbortNext
      <3>3. Active(w)' => ToAbort(w)' = invalidated[w] \ {t}
        BY <3>1, <3>2 DEF Active, ToAbort
      <3>4. QED BY <1>8, <2>1, <2>2, <3>3
    <2>3. CASE v # w
      <3>1. pc'[v] = pc[v] /\ invalidated'[v] = invalidated[v]
        BY <1>1, <1>2, <1>3, <2>3
      <3>2. QED BY <2>1, <2>3, <3>1 DEF Active, ToAbort, Higher
    <2>4. QED BY <2>2, <2>3
  <1>27. WorkersExplained(new, cw)'
    <2>1. ASSUME NEW v \in Workers
          PROVE  /\ (task[v] # NoTask => Inc(v) < Cardinality(new[Idx(v)]))'
                 /\ (Active(v) => /\ task[v] \in Tasks
                                  /\ ToAbort(v) \subseteq Higher(Idx(v))
                                  /\ Unspent(new, Idx(v), cw[v], ToAbort(v)))'
      <3>1. /\ task[v] # NoTask => Inc(v) < Cardinality(used[Idx(v)])
            /\ Active(v) => /\ task[v] \in Tasks
                            /\ ToAbort(v) \subseteq Higher(Idx(v))
                            /\ Unspent(used, Idx(v), cw[v], ToAbort(v))
        BY <1>7 DEF WorkersExplained
      <3>2. ASSUME task'[v] # NoTask PROVE (Inc(v) < Cardinality(new[Idx(v)]))'
        <4>1. task[v] \in Tasks
          BY <1>26, <3>2 DEF TypeOK
        <4>2. Idx(v) \in Txns /\ Inc(v) \in Nat
          BY <4>1 DEF Tasks, Idx, Inc
        <4>3. Inc(v) < Cardinality(used[Idx(v)])
          BY <1>26, <3>1, <3>2
        <4>4. Inc(v) < Cardinality(new[Idx(v)])
          BY <1>14, <4>2, <4>3
        <4>5. QED BY <1>26, <4>4
      <3>3. ASSUME Active(v)'
            PROVE  /\ task'[v] \in Tasks
                   /\ (ToAbort(v) \subseteq Higher(Idx(v)))'
                   /\ Unspent(new, Idx(v), cw[v], ToAbort(v))'
        <4>1. /\ Active(v) /\ task'[v] = task[v] /\ Idx(v)' = Idx(v)
              /\ ToAbort(v)' \subseteq ToAbort(v)
          BY <1>26, <3>3
        <4>2. task[v] \in Tasks /\ Idx(v) \in Txns
          BY <3>1, <4>1 DEF Tasks, Idx
        <4>3. ToAbort(v)' \subseteq Higher(Idx(v))
          BY <3>1, <4>1
        <4>4. Unspent(used, Idx(v), cw[v], ToAbort(v)')
          BY <3>1, <4>1 DEF Unspent
        <4>5. t \in ToAbort(v)' => ~(Idx(v) = s /\ cw[v] = cw[w])
          <5>1. CASE v = w
            BY <1>26, <3>3, <5>1
          <5>2. CASE v # w
            BY <1>5, <1>7, <1>8, <4>1, <5>2 DEF WorkersExplained
          <5>3. QED BY <5>1, <5>2
        <4>6. Unspent(new, Idx(v), cw[v], ToAbort(v)')
          BY <1>16, <4>2, <4>3, <4>4, <4>5
        <4>7. Higher(Idx(v))' = Higher(Idx(v))
          BY <4>1 DEF Higher
        <4>8. QED BY <4>1, <4>2, <4>3, <4>6, <4>7 DEF Unspent
      <3>4. QED BY <3>2, <3>3
    <2>2. ASSUME NEW u \in Workers, NEW v \in Workers,
                 u # v, Active(u)', Active(v)', Idx(u)' = Idx(v)'
          PROVE  cw[u] # cw[v]
      BY <1>7, <1>26, <2>2 DEF WorkersExplained
    <2>3. QED BY <2>1, <2>2 DEF WorkersExplained
  <1>28. Apart(c, cw)'
    <2> SUFFICES ASSUME NEW n \in 1 .. Len(q) + 1, NEW v \in Workers,
                        Active(v)', ready_queue'[n][1] = Idx(v)'
                 PROVE  c[n] # cw[v]
      BY <1>18 DEF Apart
    <2>1. Active(v) /\ Idx(v)' = Idx(v)
      BY <1>26
    <2>2. CASE n = Len(q) + 1
      <3>1. Idx(v) = t /\ c[n] = e
        BY <1>18, <1>20, <2>1, <2>2
      <3>2. cw[v] \in used[t]
        BY <1>7, <2>1, <3>1 DEF WorkersExplained, Unspent
      <3>3. QED BY <1>9, <3>1, <3>2
    <2>3. CASE n \in 1 .. Len(q)
      BY <1>7, <1>18, <1>20, <2>1, <2>3 DEF Apart
    <2>4. QED BY <1>21, <2>2, <2>3
  <1>29. StatusesExplained(new)'
    <2>1. ASSUME NEW x \in Txns PROVE statuses'[x].inc < Cardinality(new[x])
      <3>1. statuses'[x] = statuses[x] /\ statuses[x].inc \in Nat
        BY <1>2, <1>3 DEF Statuses
      <3>2. statuses[x].inc < Cardinality(used[x])
        BY <1>7 DEF StatusesExplained
      <3>3. QED BY <1>14, <3>1, <3>2
    <2>2. RequeuesKept
      <3>1. pc'[w] # "requeue"
        BY <1>2, <1>3 DEF AbortNext
      <3>2. OthersKept(w) /\ \A v \in Workers \ {w} : new_incarnation'[v] = new_incarnation[v]
        BY <1>1, <1>2, <1>3 DEF OthersKept
      <3>3. QED BY <3>1, <3>2, RequeuesFrame
    <2>3. ASSUME NEW v \in Workers, NEW x \in Txns, Requeuing(v, x)'
          PROVE  new_incarnation'[v] <= Cardinality(new[x])
      <3>1. new_incarnation'[v] = new_incarnation[v] /\ new_incarnation[v] \in Nat
        BY <1>3, <2>2, <2>3 DEF RequeuesKept
      <3>2. new_incarnation[v] <= Cardinality(used[x])
        BY <1>7, <2>2, <2>3 DEF RequeuesKept, StatusesExplained
      <3>3. QED BY <1>14, <3>1, <3>2
    <2>4. QED BY <2>1, <2>3 DEF StatusesExplained
  <1>30. Explained(new, c, cw)'
    BY <1>15, <1>25, <1>27, <1>28, <1>29 DEF Explained
  <1>31. QED BY <1>30 DEF Chained

LEMMA ChainedStep ==
    ASSUME IndInv, Chained, [Next]_vars
    PROVE  Chained'
  <1>1. PICK used, cq, cw : Explained(used, cq, cw)
    BY DEF Chained
  <1>2. /\ TypeOK /\ pc \in [Workers -> Labels] /\ statuses \in [Txns -> Statuses]
        /\ task \in [Workers -> Tasks \cup {NoTask}] /\ commit_at \in [Workers -> 0 .. NumTxns]
        /\ invalidated \in [Workers -> SUBSET Txns] /\ new_incarnation \in [Workers -> Nat]
    BY DEF IndInv, TypeOK
  <1>3. CASE UNCHANGED vars
    <2>1. UNCHANGED <<statuses, ready_queue, pc, task, invalidated, new_incarnation>>
      BY <1>3 DEF vars, shared, local
    <2>2. Explained(used, cq, cw)'
      <3>1. /\ UsedOK(used)' /\ StatusesExplained(used)'
        BY <1>1, <2>1 DEF Explained, UsedOK, StatusesExplained, Requeuing, NextAbort
      <3>2. QueueExplained(used, cq)'
        BY <1>1, <2>1 DEF Explained, QueueExplained, Unspent, Higher
      <3>3. WorkersExplained(used, cw)'
        BY <1>1, <2>1
        DEF Explained, WorkersExplained, Unspent, Active, ToAbort, Idx, Inc, Higher
      <3>4. Apart(cq, cw)'
        BY <1>1, <2>1 DEF Explained, Apart, Active, Idx
      <3>5. QED BY <3>1, <3>2, <3>3, <3>4 DEF Explained
    <2>3. QED BY <2>2 DEF Chained
  \* Steps that change no more than the worker's label, out of a task or within one.
  <1>4. ASSUME NEW w \in Workers, \A v \in Workers \ {w} : pc'[v] = pc[v],
               \/ pc'[w] \notin {"mark", "execute", "abort", "requeue"}
               \/ pc[w] = "mark" /\ pc'[w] = "execute"
               \/ pc[w] = "abort" /\ pc'[w] = "requeue",
               UNCHANGED <<ready_queue, invalidated>>,
               \/ task' = task
               \/ /\ task' = [task EXCEPT ![w] = NoTask]
                  /\ pc'[w] \notin {"mark", "execute", "abort", "requeue"},
               StatusesExplained(used)'
        PROVE  Chained'
    <2>1. \A v \in Workers \ {w} : /\ pc'[v] = pc[v] /\ task'[v] = task[v]
                                   /\ invalidated'[v] = invalidated[v]
      BY <1>2, <1>4
    <2>2. task'[w] \in {task[w], NoTask}
      BY <1>2, <1>4
    <2>3. Active(w)' => /\ Active(w) /\ task'[w] = task[w]
                        /\ ToAbort(w)' \subseteq ToAbort(w)
      <3>1. ASSUME Active(w)'
            PROVE  /\ task' = task /\ pc[w] \in {"mark", "abort"}
                   /\ pc[w] = "mark" => pc'[w] = "execute"
                   /\ pc[w] = "abort" => pc'[w] = "requeue"
        BY <1>4, <3>1 DEF Active
      <3>2. QED BY <1>4, <3>1 DEF Active, ToAbort, Idx, Higher
    <2>4. Explained(used, cq, cw)'
      BY <1>1, <1>4, <2>1, <2>2, <2>3, ChainedQuiet
    <2>5. QED BY <2>4 DEF Chained
  <1>5. ASSUME UNCHANGED statuses, RequeuesKept PROVE StatusesExplained(used)'
    BY <1>1, <1>5, StatusesKept
  <1>6. ASSUME NEW w \in Workers,
               \/ NextTask(w) \/ QueueEmpty(w) \/ CheckCommitted(w) \/ TryCommit(w)
               \/ SkipCommit(w) \/ Inspect(w) \/ StoreCommitted(w) \/ ReleaseCommit(w)
        PROVE  Chained'
    <2>1. UNCHANGED <<statuses, ready_queue, invalidated, new_incarnation>>
      BY <1>6
      DEF NextTask, QueueEmpty, CheckCommitted, TryCommit, SkipCommit, Inspect,
          StoreCommitted, ReleaseCommit, shared
    <2>2. /\ \A v \in Workers \ {w} : pc'[v] = pc[v]
          /\ pc'[w] \notin {"mark", "execute", "abort", "requeue"}
      <3>1. CASE NextTask(w)
        BY <1>2, <3>1 DEF NextTask, Goto
      <3>2. CASE QueueEmpty(w)
        BY <1>2, <3>2 DEF QueueEmpty, Goto
      <3>3. CASE CheckCommitted(w)
        BY <1>2, <3>3 DEF CheckCommitted, Goto
      <3>4. CASE TryCommit(w)
        BY <1>2, <3>4 DEF TryCommit, Goto
      <3>5. CASE SkipCommit(w)
        BY <1>2, <3>5 DEF SkipCommit, Goto
      <3>6. CASE Inspect(w)
        BY <1>2, <3>6 DEF Inspect, Goto
      <3>7. CASE ReleaseCommit(w)
        BY <1>2, <3>7 DEF ReleaseCommit, Goto
      <3>8. CASE StoreCommitted(w)
        BY <1>2, <3>8 DEF StoreCommitted, Goto
      <3>9. QED BY <1>6, <3>1, <3>2, <3>3, <3>4, <3>5, <3>6, <3>7, <3>8
    <2>3. task' = task \/ task' = [task EXCEPT ![w] = NoTask]
      BY <1>6
      DEF NextTask, QueueEmpty, CheckCommitted, TryCommit, SkipCommit, Inspect,
          StoreCommitted, ReleaseCommit
    <2>4. RequeuesKept
      <3>1. OthersKept(w)
        BY <1>2, <2>1, <2>2, <2>3 DEF OthersKept
      <3>2. QED BY <2>1, <2>2, <3>1, RequeuesFrame
    <2>5. StatusesExplained(used)'
      BY <1>5, <2>1, <2>4
    <2>6. QED BY <1>4, <2>1, <2>2, <2>3, <2>5
  <1>7. ASSUME NEW w \in Workers, MarkExecuting(w) PROVE Chained'
    <2>1. /\ pc[w] = "mark" /\ pc' = [pc EXCEPT ![w] = "execute"]
          /\ UNCHANGED <<ready_queue, invalidated, task>>
          /\ statuses' = [statuses EXCEPT ![Idx(w)] = Executing(Inc(w))]
      BY <1>7 DEF MarkExecuting, Goto
    <2>2. task[w] \in Tasks
      BY <2>1 DEF IndInv, HasTask
    <2>3. \A t \in Txns :
             \/ statuses'[t].inc = statuses[t].inc
             \/ task[w] \in Tasks /\ Idx(w) = t /\ statuses'[t].inc = Inc(w)
      BY <1>2, <2>1, <2>2 DEF Executing
    <2>4. RequeuesKept
      BY <1>2, <1>7, RequeuesFrame DEF MarkExecuting, Goto, OthersKept
    <2>5. StatusesExplained(used)'
      BY <1>1, <2>3, <2>4, StatusesKept
    <2>6. pc'[w] = "execute" /\ \A v \in Workers \ {w} : pc'[v] = pc[v]
      BY <1>2, <2>1
    <2>7. QED BY <1>4, <2>1, <2>5, <2>6
  <1>8. ASSUME NEW w \in Workers, CommitTransaction(w) PROVE Chained'
    <2>1. /\ pc' = [pc EXCEPT ![w] = "store"]
          /\ UNCHANGED <<ready_queue, invalidated, task>>
          /\ statuses' = [statuses EXCEPT ![commit_at[w]] = Committed]
      BY <1>8 DEF CommitTransaction, Goto
    <2>2. \A t \in Txns : statuses'[t].inc = statuses[t].inc \/ statuses'[t].inc = 0
      BY <1>2, <2>1 DEF Committed
    <2>3. RequeuesKept
      BY <1>2, <1>8, RequeuesFrame DEF CommitTransaction, Goto, OthersKept
    <2>4. StatusesExplained(used)'
      BY <1>1, <2>2, <2>3, StatusesKept
    <2>5. pc'[w] = "store" /\ \A v \in Workers \ {w} : pc'[v] = pc[v]
      BY <1>2, <2>1
    <2>6. QED BY <1>4, <2>1, <2>4, <2>5
  <1>9. ASSUME NEW w \in Workers, NEW readers \in SUBSET Txns,
               readers \subseteq Higher(Idx(w)), FinishExecution(w, readers)
        PROVE  Chained'
    <2>1. /\ pc[w] = "execute" /\ pc' = [pc EXCEPT ![w] = AbortNext(readers)]
          /\ UNCHANGED <<ready_queue, task>>
          /\ invalidated' = [invalidated EXCEPT ![w] = readers]
          /\ statuses' = [statuses EXCEPT ![Idx(w)] = Executed(Inc(w))]
      BY <1>9 DEF FinishExecution, Goto
    <2>2. task[w] \in Tasks
      BY <2>1 DEF IndInv, HasTask
    <2>3. \A t \in Txns :
             \/ statuses'[t].inc = statuses[t].inc
             \/ task[w] \in Tasks /\ Idx(w) = t /\ statuses'[t].inc = Inc(w)
      BY <1>2, <2>1, <2>2 DEF Executed
    <2>4. StatusesExplained(used)'
      <3>1. pc'[w] # "requeue"
        BY <1>2, <2>1 DEF AbortNext
      <3>2. RequeuesKept
        BY <1>2, <1>9, <3>1, RequeuesFrame DEF FinishExecution, Goto, OthersKept
      <3>3. QED BY <1>1, <2>3, <3>2, StatusesKept
    <2>5. \A v \in Workers \ {w} : /\ pc'[v] = pc[v] /\ task'[v] = task[v]
                                   /\ invalidated'[v] = invalidated[v]
      BY <1>2, <2>1
    <2>6. Active(w)' => /\ Active(w) /\ task'[w] = task[w]
                        /\ ToAbort(w)' \subseteq ToAbort(w)
      <3>1. pc'[w] \in {"abort", "try_commit"} /\ invalidated'[w] = readers
        BY <1>2, <2>1 DEF AbortNext
      <3>2. Active(w) /\ ToAbort(w) = Higher(Idx(w))
        BY <2>1 DEF Active, ToAbort
      <3>3. Active(w)' => ToAbort(w)' = readers
        BY <3>1 DEF Active, ToAbort
      <3>4. QED BY <1>9, <2>1, <3>2, <3>3
    <2>7. task'[w] \in {task[w], NoTask}
      BY <2>1
    <2>8. Explained(used, cq, cw)'
      BY <1>1, <2>1, <2>4, <2>5, <2>6, <2>7, ChainedQuiet
    <2>9. QED BY <2>8 DEF Chained
  <1>10. ASSUME NEW w \in Workers, AbortSkip(w) PROVE Chained'
    <2>1. PICK t \in Txns : invalidated' = [invalidated EXCEPT ![w] = invalidated[w] \ {t}]
      BY <1>10 DEF AbortSkip
    <2>2. /\ pc[w] = "abort" /\ pc' = [pc EXCEPT ![w] = AbortNext(invalidated'[w])]
          /\ UNCHANGED <<ready_queue, task, statuses, new_incarnation>>
      BY <1>10 DEF AbortSkip, Goto, shared
    <2>3. \A v \in Workers \ {w} : /\ pc'[v] = pc[v] /\ task'[v] = task[v]
                                   /\ invalidated'[v] = invalidated[v]
      BY <1>2, <2>1, <2>2
    <2>4. Active(w)' => /\ Active(w) /\ task'[w] = task[w]
                        /\ ToAbort(w)' \subseteq ToAbort(w)
      <3>1. pc'[w] \in {"abort", "try_commit"} /\ invalidated'[w] = invalidated[w] \ {t}
        BY <1>2, <2>1, <2>2 DEF AbortNext
      <3>2. Active(w) /\ ToAbort(w) = invalidated[w]
        BY <2>2 DEF Active, ToAbort
      <3>3. Active(w)' => ToAbort(w)' = invalidated[w] \ {t}
        BY <3>1 DEF Active, ToAbort
      <3>4. QED BY <2>2, <3>2, <3>3
    <2>5. task'[w] \in {task[w], NoTask} /\ StatusesExplained(used)'
      <3>1. pc'[w] # "requeue"
        BY <1>2, <2>2 DEF AbortNext
      <3>2. RequeuesKept
        BY <2>2, <2>3, <3>1, RequeuesFrame DEF OthersKept
      <3>3. QED BY <1>5, <2>2, <3>2
    <2>6. Explained(used, cq, cw)'
      BY <1>1, <2>2, <2>3, <2>4, <2>5, ChainedQuiet
    <2>7. QED BY <2>6 DEF Chained
  <1>11. ASSUME NEW w \in Workers, PopTask(w) \/ AbortRequeue(w) PROVE Chained'
    BY <1>1, <1>2, <1>11, ChainedPop, ChainedRequeue
  <1>12. ASSUME NEW w \in Workers, AbortLock(w) PROVE Chained'
    <2>1. PICK t \in Txns :
             /\ NextAbort(w, t)
             /\ statuses' = [statuses EXCEPT ![t] = Pending]
             /\ new_incarnation' = [new_incarnation EXCEPT ![w] = statuses[t].inc + 1]
      BY <1>12 DEF AbortLock, NewIncarnation
    <2>2. /\ pc[w] = "abort" /\ pc' = [pc EXCEPT ![w] = "requeue"]
          /\ UNCHANGED <<ready_queue, invalidated, task>>
      BY <1>12 DEF AbortLock, Goto
    <2>3. ASSUME NEW u \in Txns
          PROVE  /\ statuses[u].inc \in Nat /\ Cardinality(used[u]) \in Nat
                 /\ statuses[u].inc < Cardinality(used[u])
                 /\ statuses'[u].inc \in {statuses[u].inc, 0}
      <3>1. used[u] \in SUBSET Chains(u) /\ statuses[u].inc < Cardinality(used[u])
        BY <1>1 DEF Explained, UsedOK, StatusesExplained
      <3>2. QED BY <1>2, <2>1, <3>1, ChainsFinite DEF Statuses, Pending
    <2>4. ASSUME NEW v \in Workers, NEW u \in Txns, Requeuing(v, u)'
          PROVE  new_incarnation'[v] <= Cardinality(used[u])
      <3>1. NextAbort(v, u)
        BY <2>2, <2>4 DEF Requeuing, NextAbort
      <3>2. CASE v = w
        <4>1. u = t
          BY <2>1, <3>1, <3>2, NextAbortUnique
        <4>2. new_incarnation'[v] = statuses[u].inc + 1
          BY <1>2, <2>1, <3>2, <4>1
        <4>3. QED BY <2>3, <4>2
      <3>3. CASE v # w
        <4>1. Requeuing(v, u) /\ new_incarnation'[v] = new_incarnation[v]
          BY <1>2, <2>1, <2>2, <2>4, <3>1, <3>3 DEF Requeuing
        <4>2. QED BY <1>1, <4>1 DEF Explained, StatusesExplained
      <3>4. QED BY <3>2, <3>3
    <2>5. \A u \in Txns : statuses'[u].inc < Cardinality(used[u])
      BY <2>3
    <2>6. StatusesExplained(used)'
      BY <2>4, <2>5 DEF StatusesExplained
    <2>7. pc'[w] = "requeue" /\ \A v \in Workers \ {w} : pc'[v] = pc[v]
      BY <1>2, <2>2
    <2>8. QED BY <1>4, <2>2, <2>6, <2>7
  <1>13. ASSUME NEW w \in Workers, WorkerStep(w) PROVE Chained'
    BY <1>6, <1>7, <1>8, <1>9, <1>10, <1>11, <1>12, <1>13 DEF WorkerStep, SchedulerStep
  <1>14. QED BY <1>3, <1>13 DEF Next, Terminated

\* Re-execution is bounded for every block and every set of workers: however
\* finish_execution, abort_transaction and stale statuses interleave, no task of
\* transaction t has an incarnation of 2^t or more.
THEOREM ReexecutionIsBounded == Spec => []BoundedReexecution
  <1>1. IndInv /\ Chained => BoundedReexecution
    <2> SUFFICES ASSUME IndInv, Chained PROVE BoundedReexecution
      OBVIOUS
    <2>1. PICK used, cq, cw : Explained(used, cq, cw)
      BY DEF Chained
    <2>2. ASSUME NEW t \in Txns, NEW i \in Nat, i < Cardinality(used[t])
          PROVE  i < 2 ^ t
      <3>1. used[t] \in SUBSET Chains(t)
        BY <2>1 DEF Explained, UsedOK
      <3>2. /\ Cardinality(used[t]) \in Nat /\ 2 ^ t \in Nat
            /\ Cardinality(used[t]) <= 2 ^ t
        BY <3>1, ChainsFinite
      <3>3. QED BY <2>2, <3>2
    <2>3. ASSUME NEW n \in 1 .. Len(ready_queue)
          PROVE  ready_queue[n][2] < 2 ^ ready_queue[n][1]
      <3>1. ready_queue[n] \in Tasks
        BY DEF IndInv, TypeOK
      <3>2. ready_queue[n][1] \in Txns /\ ready_queue[n][2] \in Nat
        BY <3>1 DEF Tasks
      <3>3. ready_queue[n][2] < Cardinality(used[ready_queue[n][1]])
        BY <2>1 DEF Explained, QueueExplained
      <3>4. QED BY <2>2, <3>2, <3>3
    <2>4. ASSUME NEW w \in Workers, task[w] # NoTask PROVE Inc(w) < 2 ^ Idx(w)
      <3>1. task[w] \in Tasks
        BY <2>4 DEF IndInv, TypeOK
      <3>2. Idx(w) \in Txns /\ Inc(w) \in Nat
        BY <3>1 DEF Tasks, Idx, Inc
      <3>3. Inc(w) < Cardinality(used[Idx(w)])
        BY <2>1, <2>4 DEF Explained, WorkersExplained
      <3>4. QED BY <2>2, <3>2, <3>3
    <2>5. QED BY <2>3, <2>4 DEF BoundedReexecution
  <1>2. IndInv /\ Chained /\ [Next]_vars => Chained'
    BY ChainedStep
  <1>3. QED BY <1>1, <1>2, ChainedInit, IndInvariant, PTL DEF Spec
=============================================================================

--------------------------- MODULE ExecutorProofs ---------------------------
(***************************************************************************)
(* Proofs about ParallelExecutor, for every block, every set of workers    *)
(* and every set of accounts: that it uses the scheduler as Scheduler      *)
(* specifies, so that all of SchedulerProofs holds of it, what the         *)
(* executions leave in the multi-version map and in the counters, and when *)
(* the block ends as if executed in order: with a single worker, and with  *)
(* any number of them when no two transactions share an account.           *)
(***************************************************************************)
EXTENDS ParallelExecutor, SchedulerProofs, TransferProofs

\* Stages at which both accounts have been read and the sender's checks passed.
Writing == {"lower", "storage", "insert"}

\* A worker that executes nothing has nothing left over from its last execution.
Clean(w) ==
    pc[w] # "execute" =>
        /\ stage[w] = "verify" /\ side[w] = "from"
        /\ seen[w] = Storage /\ found[w] = {}

\* Where a worker is inside execute_transaction tells what it has established:
\* what it found to invalidate is above it, what it read is below it, its
\* transaction is signed, and it writes only after the sender's checks.
Established(w) ==
    pc[w] = "execute" =>
        /\ found[w] \subseteq Higher(Idx(w))
        /\ stage[w] = "verify" => found[w] = {}
        /\ stage[w] \in {"verify", "report"} => side[w] = "from"
        /\ seen[w] # Storage => stage[w] = "record" /\ seen[w][1] < Idx(w)
        /\ stage[w] \notin {"verify", "report"} => Tx(w).signed
        /\ side[w] = "to" \/ stage[w] \in Writing => Accepts(Tx(w), view[w]["from"])

LocalInv == \A w \in Workers : Clean(w) /\ Established(w)

\* The part of ReadsGoBack that is about the map.
RecordedGoBack ==
    \A a \in Addresses : \A u \in DOMAIN data[a] :
        \A r \in data[a][u].readers : u < r

\* The types of what the executor adds to the scheduler.
ExecTypes ==
    /\ MVTypeOK(Txns)
    /\ WellFormed(txs, NumTxns)
    /\ execution_count \in Nat /\ fail_count \in Nat
    /\ stage \in [Workers -> Stages]
    /\ side \in [Workers -> Sides]
    /\ seen \in [Workers -> Tasks \cup {Storage}]
    /\ view \in [Workers -> [Sides -> AccountStates]]
    /\ found \in [Workers -> SUBSET Txns]

\* What an execution leaves behind.
TraceInv == ExecTypes /\ LocalInv /\ RecordedGoBack /\ RejectedLeaveNoTrace

\* The executor's inductive invariant, on top of the scheduler's.
ExecInv == IndInv /\ TraceInv

\* A rejected transaction is only ever queued and run at incarnation 0.
RejectedRunOnce ==
    \A t \in Txns : ~txs[t].signed =>
        /\ \A n \in 1 .. Len(ready_queue) :
              ready_queue[n][1] = t => ready_queue[n][2] = 0
        /\ \A w \in Workers : task[w] # NoTask /\ Idx(w) = t => Inc(w) = 0

Rejected == {t \in Txns : ~txs[t].signed}

\* The rejected transactions whose signature has not been looked at yet.
Unverified ==
    {t \in Rejected :
        Fresh(t) \/ \E w \in Workers : Held(w, t) /\ stage[w] = "verify"}

\* Every rejected transaction is outstanding or has been counted as failed.
FailuresCounted == fail_count + Cardinality(Unverified) = Cardinality(Rejected)

\* Versions are written by transactions that touch the account.
WritersTouch == \A a \in Addresses : \A u \in DOMAIN data[a] : Touches(u, a)

\* The versions of an independent transaction are the ledger's.
StatesExact ==
    \A t \in Txns : Independent(t) =>
        \A a \in Addresses : t \in DOMAIN data[a] =>
            data[a][t].state = Apply(txs[t], Genesis)[a]

\* What an execution of an independent transaction has read is the ledger's.
ViewExact(w) ==
    pc[w] = "execute" /\ Independent(Idx(w)) =>
        /\ side[w] = "to" \/ stage[w] \in Writing \cup {"record"} =>
              view[w]["from"] = Genesis[Tx(w).from]
        /\ stage[w] \in Writing \/ (side[w] = "to" /\ stage[w] = "record") =>
              view[w]["to"] = Genesis[Tx(w).to]

\* Can be executed, whatever else runs.
Certain(t) == Independent(t) /\ Succeeds(txs[t], Genesis)

\* The execution of such a transaction writes the sender's version, then the
\* receiver's, before it reports.
WritesBoth(w) ==
    pc[w] = "execute" /\ Certain(Idx(w)) =>
        /\ side[w] = "to" /\ stage[w] \in Writing => Idx(w) \in DOMAIN data[Tx(w).from]
        /\ stage[w] = "report" =>
              \A a \in {Tx(w).from, Tx(w).to} : Idx(w) \in DOMAIN data[a]

\* Both versions are there by the end of its first execution.
VersionsComplete ==
    \A t \in Txns \ Unrun : Certain(t) =>
        \A a \in {txs[t].from, txs[t].to} : t \in DOMAIN data[a]

VersionsInv ==
    /\ WritersTouch
    /\ StatesExact
    /\ \A w \in Workers : ViewExact(w) /\ WritesBoth(w)
    /\ VersionsComplete

-----------------------------------------------------------------------------
(* The executor uses the scheduler as Scheduler specifies.                    *)

\* A step of the scheduler is of a worker that executes nothing, leaves the
\* others alone, and adds nothing to what is to be aborted.
LEMMA SchedulerStepFrame ==
    ASSUME IndInv, NEW w \in Workers, SchedulerStep(w)
    PROVE  /\ pc[w] # "execute"
           /\ \A v \in Workers \ {w} : /\ pc'[v] = pc[v]
                                       /\ task'[v] = task[v]
                                       /\ invalidated'[v] = invalidated[v]
           /\ invalidated'[w] \subseteq invalidated[w]
  <1> USE DEF Goto, shared, locks, local
  <1>1. /\ pc \in [Workers -> Labels]
        /\ task \in [Workers -> Tasks \cup {NoTask}]
        /\ invalidated \in [Workers -> SUBSET Txns]
    BY DEF IndInv, TypeOK
  <1>2. CASE NextTask(w) \/ PopTask(w) \/ QueueEmpty(w) \/ MarkExecuting(w)
    BY <1>1, <1>2 DEF NextTask, PopTask, QueueEmpty, MarkExecuting
  <1>3. CASE CheckCommitted(w) \/ AbortLock(w) \/ AbortSkip(w) \/ AbortRequeue(w)
    BY <1>1, <1>3 DEF CheckCommitted, AbortLock, AbortSkip, AbortRequeue
  <1>4. CASE \/ TryCommit(w) \/ SkipCommit(w) \/ Inspect(w)
             \/ CommitTransaction(w) \/ StoreCommitted(w) \/ ReleaseCommit(w)
    BY <1>1, <1>4
    DEF TryCommit, SkipCommit, Inspect, CommitTransaction, StoreCommitted, ReleaseCommit
  <1>5. QED BY <1>2, <1>3, <1>4 DEF SchedulerStep

LEMMA ImplementsStep ==
    ASSUME ExecInv, [ExecNext]_execVars
    PROVE  [Next]_vars
  <1>1. CASE UNCHANGED execVars
    BY <1>1 DEF execVars
  <1>2. CASE ExecTerminated
    BY <1>2 DEF ExecTerminated, execVars
  <1>3. ASSUME NEW w \in Workers, WorkerLoop(w) PROVE [Next]_vars
    <2>1. CASE SchedulerStep(w)
      BY <2>1 DEF Next, WorkerStep
    <2>2. CASE Report(w)
      <3>1. pc[w] = "execute" /\ FinishExecution(w, found[w])
        BY <2>2 DEF Report, At
      <3>2. found[w] \in SUBSET Txns /\ found[w] \subseteq Higher(Idx(w))
        BY <3>1 DEF ExecInv, TraceInv, LocalInv, Established, ExecTypes
      <3>3. QED BY <3>1, <3>2 DEF Next, WorkerStep
    <2>3. CASE ExecuteStep(w) /\ ~Report(w)
      BY <2>3
      DEF ExecuteStep, VerifySignature, ReadAccount, RecordAccess, CheckLower,
          CollectStorageReaders, WriteVersion
    <2>4. QED BY <1>3, <2>1, <2>2, <2>3 DEF WorkerLoop, ExecuteStep
  <1>4. QED BY <1>1, <1>2, <1>3 DEF ExecNext

\* The scheduler's inductive invariant is kept by the executor.
LEMMA SchedulerKept ==
    ASSUME ExecInv, [ExecNext]_execVars
    PROVE  IndInv'
  <1>1. [Next]_vars
    BY ImplementsStep
  <1>2. IndInv
    BY DEF ExecInv
  <1>3. QED BY <1>1, <1>2, IndInvStep

-----------------------------------------------------------------------------
(* The operations of the map.                                                 *)

\* Recording a read adds the reader to the version read, or changes nothing.
LEMMA RecordReadEffect ==
    ASSUME MVTypeOK(Txns), NEW a \in Addresses, NEW t \in Txns,
           NEW version \in Tasks, RecordRead(a, t, version)
    PROVE  /\ MVTypeOK(Txns)'
           /\ \A b \in Addresses :
                 /\ DOMAIN data'[b] = DOMAIN data[b]
                 /\ \A u \in DOMAIN data[b] :
                       /\ data'[b][u].state = data[b][u].state
                       /\ \A r \in data'[b][u].readers :
                             r \in data[b][u].readers \/ (r = t /\ u = version[1])
           /\ UNCHANGED storage_readers
  <1> DEFINE u == version[1]
  <1>1. /\ DOMAIN data = Addresses
        /\ \A b \in Addresses :
              /\ DOMAIN data[b] \subseteq Txns
              /\ \A v \in DOMAIN data[b] : data[b][v] \in VersionedEntries(Txns)
        /\ storage_readers \in [Addresses -> SUBSET Txns]
        /\ UNCHANGED storage_readers
    BY DEF MVTypeOK, RecordRead
  <1>2. CASE data' = data
    BY <1>1, <1>2 DEF MVTypeOK
  <1>3. CASE u \in DOMAIN data[a] /\ data' = [data EXCEPT ![a][u].readers = @ \cup {t}]
    <2>1. DOMAIN data' = Addresses
      BY <1>1, <1>3
    <2>2. ASSUME NEW b \in Addresses
          PROVE  DOMAIN data'[b] = DOMAIN data[b]
      BY <1>1, <1>3
    <2>3. ASSUME NEW b \in Addresses, NEW v \in DOMAIN data[b], b # a \/ v # u
          PROVE  data'[b][v] = data[b][v]
      BY <1>1, <1>3, <2>3
    <2>4. data'[a][u] = [data[a][u] EXCEPT !.readers = @ \cup {t}]
      BY <1>1, <1>3
    <2>5. /\ data'[a][u] \in VersionedEntries(Txns)
          /\ data'[a][u].state = data[a][u].state
          /\ data'[a][u].readers = data[a][u].readers \cup {t}
      BY <1>1, <1>3, <2>4 DEF VersionedEntries
    <2>6. MVTypeOK(Txns)'
      <3>1. ASSUME NEW b \in Addresses, NEW v \in DOMAIN data[b]
            PROVE  data'[b][v] \in VersionedEntries(Txns)
        <4>1. CASE b = a /\ v = u
          BY <2>5, <4>1
        <4>2. CASE b # a \/ v # u
          BY <1>1, <2>3, <4>2
        <4>3. QED BY <4>1, <4>2
      <3>2. VersionedEntries(Txns)' = VersionedEntries(Txns)
        BY DEF VersionedEntries, AccountStates, Txns
      <3>3. QED BY <1>1, <2>1, <2>2, <3>1, <3>2 DEF MVTypeOK
    <2>7. ASSUME NEW b \in Addresses, NEW v \in DOMAIN data[b]
          PROVE  /\ data'[b][v].state = data[b][v].state
                 /\ \A r \in data'[b][v].readers :
                       r \in data[b][v].readers \/ (r = t /\ v = u)
      <3>1. CASE b = a /\ v = u
        BY <2>5, <3>1
      <3>2. CASE b # a \/ v # u
        BY <2>3, <3>2
      <3>3. QED BY <3>1, <3>2
    <2>8. QED BY <1>1, <2>2, <2>6, <2>7
  <1>4. QED BY <1>2, <1>3 DEF RecordRead

\* A write puts one version in place.
LEMMA InsertEffect ==
    ASSUME MVTypeOK(Txns), NEW a \in Addresses, NEW t \in Txns, NEW i \in Nat,
           NEW s \in AccountStates, InsertVersion(a, t, i, s)
    PROVE  /\ MVTypeOK(Txns)'
           /\ DOMAIN data'[a] = DOMAIN data[a] \cup {t}
           /\ data'[a][t] = [incarnation |-> i, state |-> s, readers |-> {}]
           /\ \A v \in DOMAIN data[a] \ {t} : data'[a][v] = data[a][v]
           /\ \A b \in Addresses \ {a} : data'[b] = data[b]
           /\ UNCHANGED storage_readers
  <1>1. /\ DOMAIN data = Addresses
        /\ \A b \in Addresses :
              /\ DOMAIN data[b] \subseteq Txns
              /\ \A v \in DOMAIN data[b] : data[b][v] \in VersionedEntries(Txns)
        /\ storage_readers \in [Addresses -> SUBSET Txns]
        /\ UNCHANGED storage_readers
    BY DEF MVTypeOK, InsertVersion
  <1>2. /\ DOMAIN data' = Addresses
        /\ \A b \in Addresses \ {a} : data'[b] = data[b]
        /\ data'[a] = [u \in DOMAIN data[a] \cup {t} |->
                         IF u = t
                         THEN [incarnation |-> i, state |-> s, readers |-> {}]
                         ELSE data[a][u]]
    BY <1>1 DEF InsertVersion
  <1>3. /\ DOMAIN data'[a] = DOMAIN data[a] \cup {t}
        /\ data'[a][t] = [incarnation |-> i, state |-> s, readers |-> {}]
        /\ \A v \in DOMAIN data[a] \ {t} : data'[a][v] = data[a][v]
    BY <1>2
  <1>4. [incarnation |-> i, state |-> s, readers |-> {}] \in VersionedEntries(Txns)
    BY DEF VersionedEntries
  <1>5. ASSUME NEW b \in Addresses
        PROVE  /\ DOMAIN data'[b] \subseteq Txns
               /\ \A v \in DOMAIN data'[b] : data'[b][v] \in VersionedEntries(Txns)
    <2>1. CASE b = a
      BY <1>1, <1>3, <1>4, <2>1
    <2>2. CASE b # a
      BY <1>1, <1>2, <2>2
    <2>3. QED BY <2>1, <2>2
  <1>6. VersionedEntries(Txns)' = VersionedEntries(Txns)
    BY DEF VersionedEntries, AccountStates, Txns
  <1>7. MVTypeOK(Txns)'
    BY <1>1, <1>2, <1>5, <1>6 DEF MVTypeOK
  <1>8. QED BY <1>1, <1>2, <1>3, <1>7

\* A read returns a lower version of the map, or what is in storage.
LEMMA ReadVersionCases ==
    ASSUME MVTypeOK(Txns), NEW a \in Addresses, NEW t \in Txns
    PROVE  \/ Previous(a, t) = {} /\ ReadVersion(a, t) = Storage
           \/ \E u \in DOMAIN data[a] :
                 /\ u < t /\ u \in Txns
                 /\ ReadVersion(a, t) = <<u, data[a][u].incarnation>>
                 /\ ReadVersion(a, t) # Storage
                 /\ ReadVersion(a, t) \in Tasks
                 /\ StateOf(a, ReadVersion(a, t)) = data[a][u].state
                 /\ data[a][u].state \in AccountStates
  <1>1. CASE Previous(a, t) = {}
    BY <1>1 DEF ReadVersion
  <1>2. CASE Previous(a, t) # {}
    <2> DEFINE u == CHOOSE v \in Previous(a, t) : TRUE
    <2>1. u \in Previous(a, t)
      BY <1>2
    <2>2. ReadVersion(a, t) = <<u, data[a][u].incarnation>>
      BY <1>2 DEF ReadVersion
    <2> HIDE DEF u
    <2>3. u \in DOMAIN data[a] /\ u < t /\ u \in Txns
      BY <2>1 DEF Previous, MVTypeOK
    <2>4. data[a][u].incarnation \in Nat /\ data[a][u].state \in AccountStates
      BY <2>3 DEF MVTypeOK, VersionedEntries
    <2>5. ReadVersion(a, t) # Storage /\ ReadVersion(a, t) \in Tasks
      BY <2>2, <2>3, <2>4 DEF Storage, Tasks
    <2>6. StateOf(a, ReadVersion(a, t)) = data[a][u].state
      BY <2>2, <2>5 DEF StateOf
    <2>7. QED BY <2>2, <2>3, <2>4, <2>5, <2>6
  <1>3. QED BY <1>1, <1>2


-----------------------------------------------------------------------------
(* What the executions leave behind.                                          *)

\* The transaction a worker executes is one of the block.
LEMMA ExecutingFacts ==
    ASSUME ExecInv, NEW w \in Workers, pc[w] = "execute"
    PROVE  /\ Idx(w) \in Txns /\ Inc(w) \in Nat /\ task[w] = <<Idx(w), Inc(w)>>
           /\ Tx(w) \in SignedTransactions
           /\ Tx(w).from \in Addresses /\ Tx(w).to \in Addresses
           /\ Tx(w).from # Tx(w).to
           /\ Tx(w).value \in Nat /\ Tx(w).signed \in BOOLEAN
           /\ side[w] \in Sides /\ Addr(w) \in Addresses
  <1>1. task[w] \in Tasks
    BY DEF ExecInv, IndInv, HasTask
  <1>2. Idx(w) \in Txns /\ Inc(w) \in Nat /\ task[w] = <<Idx(w), Inc(w)>>
    BY <1>1 DEF Tasks, Idx, Inc
  <1>3. Tx(w) \in SignedTransactions /\ Tx(w).from # Tx(w).to
    BY <1>2 DEF ExecInv, TraceInv, ExecTypes, WellFormed, Tx, Txns
  <1>4. /\ Tx(w).from \in Addresses /\ Tx(w).to \in Addresses
        /\ Tx(w).value \in Nat /\ Tx(w).signed \in BOOLEAN
    BY <1>3 DEF SignedTransactions
  <1>5. side[w] \in {"from", "to"}
    BY DEF ExecInv, TraceInv, ExecTypes, Sides
  <1>6. Addr(w) \in Addresses
    BY <1>4, <1>5 DEF Addr
  <1>7. QED BY <1>2, <1>3, <1>4, <1>5, <1>6 DEF Sides

\* A worker whose variables a step leaves alone.
Kept(v) ==
    /\ pc'[v] = pc[v] /\ task'[v] = task[v] /\ txs' = txs
    /\ stage'[v] = stage[v] /\ side'[v] = side[v] /\ seen'[v] = seen[v]
    /\ view'[v] = view[v] /\ found'[v] = found[v]

LEMMA LocalFrame ==
    ASSUME NEW v \in Workers, Clean(v), Established(v), Kept(v)
    PROVE  Clean(v)' /\ Established(v)'
  <1>1. Idx(v)' = Idx(v) /\ Tx(v)' = Tx(v) /\ Higher(Idx(v))' = Higher(Idx(v))
    BY DEF Kept, Idx, Tx, Higher, Txns
  <1>2. Clean(v)'
    BY DEF Clean, Kept, Storage
  <1>3. Established(v)'
    BY <1>1 DEF Established, Kept, Storage, Writing, Accepts
  <1>4. QED BY <1>2, <1>3

\* Nothing is recorded, written or reported, except that the worker may change
\* what it has found, seen and where it is.
LEMMA MapFrame ==
    ASSUME TraceInv, UNCHANGED mvVars, UNCHANGED txs, UNCHANGED invalidated,
           UNCHANGED found
    PROVE  RecordedGoBack' /\ RejectedLeaveNoTrace'
  BY DEF TraceInv, RecordedGoBack, RejectedLeaveNoTrace, mvVars

LEMMA TraceScheduler ==
    ASSUME ExecInv, NEW w \in Workers, SchedulerStep(w),
           UNCHANGED <<mvVars, txs, counters, execLocal>>
    PROVE  TraceInv'
  <1> USE DEF counters, execLocal
  <1>1. /\ pc[w] # "execute"
        /\ \A v \in Workers \ {w} : pc'[v] = pc[v] /\ task'[v] = task[v]
        /\ \A v \in Workers : invalidated'[v] \subseteq invalidated[v]
    BY SchedulerStepFrame DEF ExecInv
  <1>2. ExecTypes'
    BY DEF ExecInv, TraceInv, ExecTypes, MVTypeOK, WellFormed, mvVars
  <1>3. ASSUME NEW v \in Workers PROVE Clean(v)' /\ Established(v)'
    <2>1. CASE v = w
      <3>1. stage'[w] = "verify" /\ side'[w] = "from" /\ seen'[w] = Storage /\ found'[w] = {}
        BY <1>1 DEF ExecInv, TraceInv, LocalInv, Clean
      <3>2. QED BY <2>1, <3>1 DEF Clean, Established, Storage, Writing
    <2>2. CASE v # w
      BY <1>1, <2>2, LocalFrame DEF Kept, ExecInv, TraceInv, LocalInv
    <2>3. QED BY <2>1, <2>2
  <1>4. RecordedGoBack'
    BY DEF ExecInv, TraceInv, RecordedGoBack, mvVars
  <1>5. RejectedLeaveNoTrace'
    BY <1>1 DEF ExecInv, TraceInv, RejectedLeaveNoTrace, mvVars
  <1>6. QED BY <1>2, <1>3, <1>4, <1>5 DEF TraceInv, LocalInv

LEMMA TraceVerify ==
    ASSUME ExecInv, NEW w \in Workers, VerifySignature(w)
    PROVE  TraceInv'
  <1>1. /\ pc[w] = "execute" /\ stage[w] = "verify"
        /\ stage' = [stage EXCEPT ![w] = IF Tx(w).signed THEN "read" ELSE "report"]
        /\ execution_count' = execution_count + 1
        /\ fail_count' = fail_count + (IF Tx(w).signed THEN 0 ELSE 1)
        /\ UNCHANGED <<vars, mvVars, txs, side, seen, view, found>>
    BY DEF VerifySignature, At, GotoStage, AfterVerify
  <1>2. TraceInv
    BY DEF ExecInv
  <1>3. ExecTypes'
    BY <1>1, <1>2 DEF TraceInv, ExecTypes, MVTypeOK, WellFormed, mvVars, Stages
  <1>4. UNCHANGED <<pc, task, invalidated>>
    BY <1>1 DEF vars, local
  <1>5. ASSUME NEW v \in Workers PROVE Clean(v)' /\ Established(v)'
    <2>1. CASE v = w
      <3>1. Clean(w) /\ Established(w) /\ stage'[w] \in {"read", "report"}
        BY <1>1, <1>2 DEF TraceInv, LocalInv, ExecTypes
      <3>2. Tx(w)' = Tx(w) /\ Idx(w)' = Idx(w) /\ Higher(Idx(w))' = Higher(Idx(w))
        BY <1>1, <1>4 DEF Tx, Idx, Higher, Txns
      <3>3. Tx(w).signed \/ stage'[w] = "report"
        BY <1>1, <1>2 DEF TraceInv, ExecTypes
      <3>4. QED BY <1>1, <1>4, <2>1, <3>1, <3>2, <3>3 DEF Clean, Established, Storage, Writing
    <2>2. CASE v # w
      BY <1>1, <1>2, <1>4, <2>2, LocalFrame DEF Kept, TraceInv, LocalInv, ExecTypes
    <2>3. QED BY <2>1, <2>2
  <1>6. QED BY <1>1, <1>2, <1>3, <1>4, <1>5, MapFrame DEF TraceInv, LocalInv

LEMMA TraceRead ==
    ASSUME ExecInv, NEW w \in Workers, ReadAccount(w)
    PROVE  TraceInv'
  <1> DEFINE version == ReadVersion(Addr(w), Idx(w))
  <1>1. /\ pc[w] = "execute" /\ stage[w] = "read"
        /\ seen' = [seen EXCEPT ![w] = version]
        /\ view' = [view EXCEPT ![w][side[w]] = StateOf(Addr(w), version)]
        /\ stage' = [stage EXCEPT ![w] = "record"]
        /\ UNCHANGED <<vars, mvVars, txs, counters, side, found>>
    BY DEF ReadAccount, At, GotoStage
  <1>2. TraceInv
    BY DEF ExecInv
  <1>3. Idx(w) \in Txns /\ Addr(w) \in Addresses /\ side[w] \in Sides
    BY <1>1, ExecutingFacts
  <1>4. /\ version = Storage \/ (version \in Tasks /\ version[1] < Idx(w))
        /\ StateOf(Addr(w), version) \in AccountStates
    <2>1. MVTypeOK(Txns)
      BY <1>2 DEF TraceInv, ExecTypes
    <2>2. CASE version = Storage
      BY <1>3, <2>2, GenesisOK DEF StateOf
    <2>3. CASE version # Storage
      BY <1>3, <2>1, <2>3, ReadVersionCases
    <2>4. QED BY <2>2, <2>3
  <1> HIDE DEF version
  <1>5. ExecTypes'
    <2>1. seen' \in [Workers -> Tasks \cup {Storage}]
      BY <1>1, <1>2, <1>4 DEF TraceInv, ExecTypes
    <2>2. view' \in [Workers -> [Sides -> AccountStates]]
      BY <1>1, <1>2, <1>3, <1>4 DEF TraceInv, ExecTypes
    <2>3. stage' \in [Workers -> Stages]
      BY <1>1, <1>2 DEF TraceInv, ExecTypes, Stages
    <2>4. QED
      BY <1>1, <1>2, <2>1, <2>2, <2>3
      DEF TraceInv, ExecTypes, MVTypeOK, WellFormed, mvVars, counters, Storage
  <1>6. UNCHANGED <<pc, task, invalidated>>
    BY <1>1 DEF vars, local
  <1>7. ASSUME NEW v \in Workers PROVE Clean(v)' /\ Established(v)'
    <2>1. CASE v = w
      <3>1. Clean(w) /\ Established(w) /\ stage'[w] = "record" /\ seen'[w] = version
        BY <1>1, <1>2 DEF TraceInv, LocalInv, ExecTypes
      <3>2. Tx(w)' = Tx(w) /\ Idx(w)' = Idx(w) /\ Higher(Idx(w))' = Higher(Idx(w))
        BY <1>1, <1>6 DEF Tx, Idx, Higher, Txns
      <3>3. side[w] = "to" => view'[w]["from"] = view[w]["from"]
        BY <1>1, <1>2 DEF TraceInv, ExecTypes, Sides
      <3>4. Clean(w)'
        BY <1>1, <1>6 DEF Clean
      <3>5. Established(w)'
        BY <1>1, <1>4, <1>6, <3>1, <3>2, <3>3 DEF Established, Storage, Writing, Accepts
      <3>6. QED BY <2>1, <3>4, <3>5
    <2>2. CASE v # w
      BY <1>1, <1>2, <1>6, <2>2, LocalFrame DEF Kept, TraceInv, LocalInv, ExecTypes
    <2>3. QED BY <2>1, <2>2
  <1>8. QED BY <1>1, <1>2, <1>5, <1>6, <1>7, MapFrame DEF TraceInv, LocalInv


LEMMA TraceRecord ==
    ASSUME ExecInv, NEW w \in Workers, RecordAccess(w)
    PROVE  TraceInv'
  <1> DEFINE a == Addr(w)
             t == Idx(w)
  <1>1. /\ pc[w] = "execute" /\ stage[w] = "record"
        /\ seen' = [seen EXCEPT ![w] = Storage]
        /\ stage' = [stage EXCEPT ![w] = AfterRead(w)]
        /\ side' = [side EXCEPT ![w] = IF AfterRead(w) = "read" THEN "to" ELSE "from"]
        /\ UNCHANGED <<vars, txs, counters, view, found>>
    BY DEF RecordAccess, At, GotoStage
  <1>2. TraceInv
    BY DEF ExecInv
  <1>3. /\ t \in Txns /\ a \in Addresses /\ side[w] \in Sides
        /\ Tx(w) = txs[t] /\ Tx(w).signed
    BY <1>1, <1>2, ExecutingFacts DEF TraceInv, LocalInv, Established, Tx
  <1>4. UNCHANGED <<pc, task, invalidated>>
    BY <1>1 DEF vars, local
  <1>5. /\ MVTypeOK(Txns)'
        /\ RecordedGoBack'
        /\ \A b \in Addresses :
              /\ DOMAIN data'[b] = DOMAIN data[b]
              /\ storage_readers'[b] \subseteq storage_readers[b] \cup {t}
              /\ \A u \in DOMAIN data[b] :
                    data'[b][u].readers \subseteq data[b][u].readers \cup {t}
    <2> HIDE DEF a, t
    <2>1. MVTypeOK(Txns) /\ seen[w] \in Tasks \cup {Storage}
      BY <1>2 DEF TraceInv, ExecTypes
    <2>2. CASE seen[w] = Storage /\ RecordStorageRead(a, t)
      <3>1. /\ storage_readers' = [storage_readers EXCEPT ![a] = @ \cup {t}]
            /\ UNCHANGED data
        BY <2>2 DEF RecordStorageRead
      <3>2. storage_readers \in [Addresses -> SUBSET Txns]
        BY <2>1 DEF MVTypeOK
      <3>3. /\ storage_readers' \in [Addresses -> SUBSET Txns]
            /\ \A b \in Addresses : storage_readers'[b] \subseteq storage_readers[b] \cup {t}
        BY <1>3, <3>1, <3>2
      <3>4. MVTypeOK(Txns)'
        BY <2>1, <3>1, <3>3 DEF MVTypeOK
      <3>5. RecordedGoBack'
        BY <1>2, <3>1 DEF TraceInv, RecordedGoBack
      <3>6. QED BY <3>1, <3>3, <3>4, <3>5
    <2>3. CASE seen[w] # Storage /\ RecordRead(a, t, seen[w])
      <3>1. seen[w] \in Tasks /\ seen[w][1] < t
        BY <1>1, <1>2, <2>1, <2>3 DEF TraceInv, LocalInv, Established, t
      <3>2. /\ MVTypeOK(Txns)'
            /\ \A b \in Addresses :
                  /\ DOMAIN data'[b] = DOMAIN data[b]
                  /\ \A u \in DOMAIN data[b] :
                        \A r \in data'[b][u].readers :
                            r \in data[b][u].readers \/ (r = t /\ u = seen[w][1])
            /\ UNCHANGED storage_readers
        BY <1>3, <2>1, <2>3, <3>1, RecordReadEffect
      <3>3. RecordedGoBack'
        BY <1>2, <3>1, <3>2 DEF TraceInv, RecordedGoBack
      <3>4. QED BY <3>2, <3>3
    <2>4. QED BY <2>2, <2>3 DEF RecordAccess, a, t
  <1>6. ExecTypes'
    <2>1. AfterRead(w) \in Stages
      BY DEF AfterRead, Stages
    <2>2. /\ stage' \in [Workers -> Stages] /\ side' \in [Workers -> Sides]
          /\ seen' \in [Workers -> Tasks \cup {Storage}]
      BY <1>1, <1>2, <2>1 DEF TraceInv, ExecTypes, Sides
    <2>3. QED
      BY <1>1, <1>2, <1>5, <2>2 DEF TraceInv, ExecTypes, WellFormed, counters, Storage
  <1>7. ASSUME NEW v \in Workers PROVE Clean(v)' /\ Established(v)'
    <2>1. CASE v = w
      <3>1. Clean(w) /\ Established(w)
        BY <1>2 DEF TraceInv, LocalInv
      <3>2. Tx(w)' = Tx(w) /\ Idx(w)' = Idx(w) /\ Higher(Idx(w))' = Higher(Idx(w))
        BY <1>1, <1>4 DEF Tx, Idx, Higher, Txns
      <3>3. /\ stage'[w] = AfterRead(w) /\ seen'[w] = Storage
            /\ side'[w] = IF AfterRead(w) = "read" THEN "to" ELSE "from"
            /\ view'[w] = view[w] /\ found'[w] = found[w]
        BY <1>1, <1>2 DEF TraceInv, ExecTypes
      <3>4. /\ AfterRead(w) \in {"lower", "read", "report"}
            /\ AfterRead(w) # "report" => Accepts(Tx(w), view[w]["from"])
        BY <1>1, <1>3, <3>1 DEF AfterRead, Established, Sides
      <3>5. Clean(w)'
        BY <1>1, <1>4 DEF Clean
      <3>6. (Tx(w).signed)' /\ (Accepts(Tx(w), view[w]["from"]))' = Accepts(Tx(w), view[w]["from"])
        BY <1>3, <3>2, <3>3 DEF Accepts
      <3>7. Established(w)'
        BY <1>1, <1>4, <3>1, <3>2, <3>3, <3>4, <3>6 DEF Established, Storage, Writing
      <3>8. QED BY <2>1, <3>5, <3>7
    <2>2. CASE v # w
      BY <1>1, <1>2, <1>4, <2>2, LocalFrame DEF Kept, TraceInv, LocalInv, ExecTypes
    <2>3. QED BY <2>1, <2>2
  <1>8. RejectedLeaveNoTrace'
    <2> SUFFICES ASSUME NEW u \in Txns, ~txs[u].signed
                 PROVE  /\ \A b \in Addresses :
                              /\ u \notin DOMAIN data'[b]
                              /\ u \notin storage_readers'[b]
                              /\ \A x \in DOMAIN data'[b] : u \notin data'[b][x].readers
                        /\ \A v \in Workers : u \notin found'[v] \cup invalidated'[v]
      BY <1>1 DEF RejectedLeaveNoTrace
    <2>1. u # t
      BY <1>3
    <2>2. QED BY <1>1, <1>2, <1>4, <1>5, <2>1 DEF TraceInv, RejectedLeaveNoTrace
  <1>9. QED BY <1>5, <1>6, <1>7, <1>8 DEF TraceInv, LocalInv

\* A write that only looks at the map, and may collect readers of t's account.
LEMMA TraceCollect ==
    ASSUME ExecInv, NEW w \in Workers, pc[w] = "execute", stage[w] \in Writing,
           NEW l \in Writing, stage' = [stage EXCEPT ![w] = l],
           NEW more \in SUBSET Txns, found' = [found EXCEPT ![w] = @ \cup more],
           more \subseteq Higher(Idx(w)), \A u \in more : txs[u].signed,
           UNCHANGED <<vars, mvVars, txs, counters, side, seen, view>>
    PROVE  TraceInv'
  <1>1. TraceInv
    BY DEF ExecInv
  <1>2. UNCHANGED <<pc, task, invalidated>>
    BY DEF vars, local
  <1>3. ExecTypes'
    <2>1. stage' \in [Workers -> Stages] /\ found' \in [Workers -> SUBSET Txns]
      BY <1>1 DEF TraceInv, ExecTypes, Stages, Writing
    <2>2. QED
      BY <1>1, <2>1 DEF TraceInv, ExecTypes, MVTypeOK, WellFormed, mvVars, counters, Storage
  <1>4. ASSUME NEW v \in Workers PROVE Clean(v)' /\ Established(v)'
    <2>1. CASE v = w
      <3>1. Clean(w) /\ Established(w) /\ stage'[w] = l /\ found'[w] = found[w] \cup more
        BY <1>1 DEF TraceInv, LocalInv, ExecTypes
      <3>2. Tx(w)' = Tx(w) /\ Idx(w)' = Idx(w) /\ Higher(Idx(w))' = Higher(Idx(w))
        BY <1>2 DEF Tx, Idx, Higher, Txns
      <3>3. Clean(w)'
        BY <1>2 DEF Clean
      <3>4. Established(w)'
        BY <1>2, <3>1, <3>2 DEF Established, Storage, Writing, Accepts
      <3>5. QED BY <2>1, <3>3, <3>4
    <2>2. CASE v # w
      BY <1>1, <1>2, <2>2, LocalFrame DEF Kept, TraceInv, LocalInv, ExecTypes
    <2>3. QED BY <2>1, <2>2
  <1>5. RecordedGoBack'
    BY <1>1 DEF TraceInv, RecordedGoBack, mvVars
  <1>6. \A v \in Workers : found'[v] \subseteq found[v] \cup more
    BY <1>1 DEF TraceInv, ExecTypes
  <1>7. RejectedLeaveNoTrace'
    BY <1>1, <1>2, <1>6 DEF TraceInv, RejectedLeaveNoTrace, mvVars
  <1>8. QED BY <1>3, <1>4, <1>5, <1>7 DEF TraceInv, LocalInv

LEMMA TraceLower ==
    ASSUME ExecInv, NEW w \in Workers, CheckLower(w)
    PROVE  TraceInv'
  <1>1. /\ pc[w] = "execute" /\ stage[w] = "lower"
        /\ stage' = [stage EXCEPT ![w] = IF HasLowerVersion(Addr(w), Idx(w))
                                         THEN "insert" ELSE "storage"]
        /\ UNCHANGED <<vars, mvVars, txs, counters, side, seen, view, found>>
    BY DEF CheckLower, At, GotoStage
  <1>2. PICK l \in Writing : stage' = [stage EXCEPT ![w] = l]
    BY <1>1 DEF Writing
  <1>3. found' = [found EXCEPT ![w] = @ \cup {}]
    BY <1>1 DEF ExecInv, TraceInv, ExecTypes
  <1>4. /\ {} \in SUBSET Txns /\ {} \subseteq Higher(Idx(w))
        /\ \A u \in {} : txs[u].signed
    OBVIOUS
  <1>5. stage[w] \in Writing
    BY <1>1 DEF Writing
  <1>6. UNCHANGED <<vars, mvVars, txs, counters, side, seen, view>>
    BY <1>1
  <1>7. pc[w] = "execute"
    BY <1>1
  <1>8. QED BY <1>2, <1>3, <1>4, <1>5, <1>6, <1>7, TraceCollect

LEMMA TraceStorage ==
    ASSUME ExecInv, NEW w \in Workers, CollectStorageReaders(w)
    PROVE  TraceInv'
  <1> DEFINE more == StorageReadersAbove(Addr(w), Idx(w))
  <1>1. /\ pc[w] = "execute" /\ stage[w] = "storage"
        /\ stage' = [stage EXCEPT ![w] = "insert"]
        /\ found' = [found EXCEPT ![w] = @ \cup more]
        /\ UNCHANGED <<vars, mvVars, txs, counters, side, seen, view>>
    BY DEF CollectStorageReaders, At, GotoStage
  <1>2. Addr(w) \in Addresses
    BY <1>1, ExecutingFacts
  <1>3. storage_readers[Addr(w)] \in SUBSET Txns
    BY <1>2 DEF ExecInv, TraceInv, ExecTypes, MVTypeOK
  <1>4. more \in SUBSET Txns /\ more \subseteq Higher(Idx(w))
    BY <1>3 DEF StorageReadersAbove, Higher
  <1>5. \A u \in more : txs[u].signed
    BY <1>2, <1>4 DEF StorageReadersAbove, ExecInv, TraceInv, RejectedLeaveNoTrace
  <1> HIDE DEF more
  <1>6. "insert" \in Writing /\ stage[w] \in Writing
    BY <1>1 DEF Writing
  <1>7. QED BY <1>1, <1>4, <1>5, <1>6, TraceCollect


\* The state a worker writes is one: the sender's checks have passed.
LEMMA NewStateOK ==
    ASSUME ExecInv, NEW w \in Workers, pc[w] = "execute", stage[w] \in Writing
    PROVE  NewState(w) \in AccountStates
  <1>1. Accepts(Tx(w), view[w]["from"])
    BY DEF ExecInv, TraceInv, LocalInv, Established
  <1>2. Tx(w).value \in Nat
    BY ExecutingFacts
  <1>3. view[w]["from"] \in AccountStates /\ view[w]["to"] \in AccountStates
    BY DEF ExecInv, TraceInv, ExecTypes, Sides
  <1>4. Debit(Tx(w), view[w]["from"]) \in AccountStates
    BY <1>1, <1>2, <1>3 DEF Debit, Accepts, AccountStates
  <1>5. Credit(Tx(w), view[w]["to"]) \in AccountStates
    BY <1>2, <1>3 DEF Credit, AccountStates
  <1>6. QED BY <1>4, <1>5 DEF NewState

LEMMA TraceWrite ==
    ASSUME ExecInv, NEW w \in Workers, WriteVersion(w)
    PROVE  TraceInv'
  <1> DEFINE a == Addr(w)
             t == Idx(w)
             more == PreviousReadersAbove(a, t)
  <1>1. /\ pc[w] = "execute" /\ stage[w] = "insert"
        /\ found' = [found EXCEPT ![w] = @ \cup more]
        /\ InsertVersion(a, t, Inc(w), NewState(w))
        /\ stage' = [stage EXCEPT ![w] = IF side[w] = "from" THEN "lower" ELSE "report"]
        /\ side' = [side EXCEPT ![w] = IF side[w] = "from" THEN "to" ELSE "from"]
        /\ UNCHANGED <<vars, txs, counters, seen, view>>
    BY DEF WriteVersion, At, GotoStage
  <1>2. TraceInv
    BY DEF ExecInv
  <1>3. /\ t \in Txns /\ a \in Addresses /\ Inc(w) \in Nat /\ side[w] \in Sides
        /\ Tx(w) = txs[t] /\ Tx(w).signed
    BY <1>1, <1>2, ExecutingFacts DEF TraceInv, LocalInv, Established, Tx
  <1>4. UNCHANGED <<pc, task, invalidated>>
    BY <1>1 DEF vars, local
  <1>5. MVTypeOK(Txns)
    BY <1>2 DEF TraceInv, ExecTypes
  <1>6. more \in SUBSET Txns /\ more \subseteq Higher(t) /\ \A u \in more : txs[u].signed
    <2> SUFFICES ASSUME NEW r \in more
                 PROVE  r \in Txns /\ r > t /\ txs[r].signed
      BY DEF Higher
    <2>1. PICK u \in Previous(a, t) : r \in data[a][u].readers /\ r > t
      BY DEF PreviousReadersAbove
    <2>2. u \in DOMAIN data[a]
      BY <2>1 DEF Previous
    <2>3. r \in Txns
      BY <1>3, <1>5, <2>1, <2>2 DEF MVTypeOK, VersionedEntries
    <2>4. QED BY <1>2, <1>3, <2>1, <2>2, <2>3 DEF TraceInv, RejectedLeaveNoTrace
  <1> HIDE DEF more, a, t
  <1>7. NewState(w) \in AccountStates
    BY <1>1, NewStateOK DEF Writing
  <1>8. /\ MVTypeOK(Txns)'
        /\ DOMAIN data'[a] = DOMAIN data[a] \cup {t}
        /\ data'[a][t] = [incarnation |-> Inc(w), state |-> NewState(w), readers |-> {}]
        /\ \A v \in DOMAIN data[a] \ {t} : data'[a][v] = data[a][v]
        /\ \A b \in Addresses \ {a} : data'[b] = data[b]
        /\ UNCHANGED storage_readers
    BY <1>1, <1>3, <1>5, <1>7, InsertEffect
  <1>9. ExecTypes'
    <2>1. /\ stage' \in [Workers -> Stages] /\ side' \in [Workers -> Sides]
          /\ found' \in [Workers -> SUBSET Txns]
      BY <1>1, <1>2, <1>6 DEF TraceInv, ExecTypes, Sides, Stages
    <2>2. QED
      BY <1>1, <1>2, <1>8, <2>1 DEF TraceInv, ExecTypes, WellFormed, counters, Storage
  <1>10. ASSUME NEW v \in Workers PROVE Clean(v)' /\ Established(v)'
    <2>1. CASE v = w
      <3>1. Clean(w) /\ Established(w) /\ found'[w] = found[w] \cup more
        BY <1>1, <1>2 DEF TraceInv, LocalInv, ExecTypes
      <3>2. Tx(w)' = Tx(w) /\ Idx(w)' = Idx(w) /\ Higher(Idx(w))' = Higher(Idx(w))
        BY <1>1, <1>4 DEF Tx, Idx, Higher, Txns
      <3>3. /\ stage'[w] = IF side[w] = "from" THEN "lower" ELSE "report"
            /\ side'[w] = IF side[w] = "from" THEN "to" ELSE "from"
        BY <1>1, <1>2 DEF TraceInv, ExecTypes
      <3>4. Clean(w)'
        BY <1>1, <1>4 DEF Clean
      <3>5. Accepts(Tx(w), view[w]["from"])
        BY <1>1, <3>1 DEF Established, Writing
      <3>6. (Accepts(Tx(w), view[w]["from"]))' /\ (Tx(w).signed)'
        BY <1>1, <1>3, <3>2, <3>5 DEF Accepts
      <3>7. Established(w)'
        BY <1>1, <1>4, <1>6, <3>1, <3>2, <3>3, <3>6 DEF Established, Storage, Writing, t
      <3>8. QED BY <2>1, <3>4, <3>7
    <2>2. CASE v # w
      BY <1>1, <1>2, <1>4, <2>2, LocalFrame DEF Kept, TraceInv, LocalInv, ExecTypes
    <2>3. QED BY <2>1, <2>2
  <1>11. ASSUME NEW b \in Addresses, NEW u \in DOMAIN data'[b]
         PROVE  \/ u = t /\ data'[b][u].readers = {}
                \/ u \in DOMAIN data[b] /\ data'[b][u] = data[b][u]
    BY <1>8
  <1>12. RecordedGoBack'
    BY <1>2, <1>11 DEF TraceInv, RecordedGoBack
  <1>13. RejectedLeaveNoTrace'
    <2> SUFFICES ASSUME NEW u \in Txns, ~txs[u].signed
                 PROVE  /\ \A b \in Addresses :
                              /\ u \notin DOMAIN data'[b]
                              /\ u \notin storage_readers'[b]
                              /\ \A x \in DOMAIN data'[b] : u \notin data'[b][x].readers
                        /\ \A v \in Workers : u \notin found'[v] \cup invalidated'[v]
      BY <1>1 DEF RejectedLeaveNoTrace
    <2>1. u # t
      BY <1>3
    <2>2. \A b \in Addresses :
             /\ u \notin DOMAIN data'[b]
             /\ u \notin storage_readers'[b]
             /\ \A x \in DOMAIN data'[b] : u \notin data'[b][x].readers
      BY <1>2, <1>8, <1>11, <2>1 DEF TraceInv, RejectedLeaveNoTrace
    <2>3. \A v \in Workers : found'[v] \subseteq found[v] \cup more
      BY <1>1, <1>2 DEF TraceInv, ExecTypes
    <2>4. u \notin more
      BY <1>6
    <2>5. QED BY <1>2, <1>4, <2>2, <2>3, <2>4 DEF TraceInv, RejectedLeaveNoTrace
  <1>14. QED BY <1>9, <1>10, <1>12, <1>13 DEF TraceInv, LocalInv

LEMMA TraceReport ==
    ASSUME ExecInv, NEW w \in Workers, Report(w)
    PROVE  TraceInv'
  <1>1. /\ pc[w] = "execute" /\ stage[w] = "report"
        /\ stage' = [stage EXCEPT ![w] = "verify"]
        /\ view' = [view EXCEPT ![w] = NoView]
        /\ found' = [found EXCEPT ![w] = {}]
        /\ UNCHANGED <<mvVars, txs, counters, side, seen>>
    BY DEF Report, At
  <1>2. /\ pc' = [pc EXCEPT ![w] = AbortNext(found[w])]
        /\ invalidated' = [invalidated EXCEPT ![w] = found[w]]
        /\ UNCHANGED task
    BY DEF Report, FinishExecution, Goto
  <1>3. AbortNext(found[w]) \in {"abort", "try_commit"}
    BY DEF AbortNext
  <1>4. TraceInv
    BY DEF ExecInv
  <1>5. /\ pc \in [Workers -> Labels]
        /\ invalidated \in [Workers -> SUBSET Txns]
    BY DEF ExecInv, IndInv, TypeOK
  <1>6. ExecTypes'
    <2>1. NoView \in [Sides -> AccountStates]
      BY DEF NoView, AccountStates
    <2>2. /\ stage' \in [Workers -> Stages]
          /\ view' \in [Workers -> [Sides -> AccountStates]]
          /\ found' \in [Workers -> SUBSET Txns]
      BY <1>1, <1>4, <2>1 DEF TraceInv, ExecTypes, Stages
    <2>3. QED
      BY <1>1, <1>4, <2>2
      DEF TraceInv, ExecTypes, MVTypeOK, WellFormed, mvVars, counters, Storage
  <1>7. ASSUME NEW v \in Workers PROVE Clean(v)' /\ Established(v)'
    <2>1. CASE v = w
      <3>1. /\ stage'[w] = "verify" /\ found'[w] = {} /\ pc'[w] # "execute"
            /\ side'[w] = side[w] /\ seen'[w] = seen[w]
        BY <1>1, <1>2, <1>3, <1>4, <1>5 DEF TraceInv, ExecTypes
      <3>2. side[w] = "from" /\ seen[w] = Storage
        BY <1>1, <1>4 DEF TraceInv, LocalInv, Established
      <3>3. QED BY <2>1, <3>1, <3>2 DEF Clean, Established, Storage
    <2>2. CASE v # w
      BY <1>1, <1>2, <1>4, <1>5, <2>2, LocalFrame DEF Kept, TraceInv, LocalInv, ExecTypes
    <2>3. QED BY <2>1, <2>2
  <1>8. RecordedGoBack'
    BY <1>1, <1>4 DEF TraceInv, RecordedGoBack, mvVars
  <1>9. \A v \in Workers : found'[v] \cup invalidated'[v]
                              \subseteq found[v] \cup invalidated[v]
    BY <1>1, <1>2, <1>4, <1>5 DEF TraceInv, ExecTypes
  <1>10. RejectedLeaveNoTrace'
    BY <1>1, <1>4, <1>9 DEF TraceInv, RejectedLeaveNoTrace, mvVars
  <1>11. QED BY <1>6, <1>7, <1>8, <1>10 DEF TraceInv, LocalInv

-----------------------------------------------------------------------------

LEMMA ExecInvInit == ExecInit => ExecInv
  <1> SUFFICES ASSUME ExecInit PROVE ExecInv
    OBVIOUS
  <1>1. IndInv
    BY IndInvInit DEF ExecInit, ExecStart
  <1>2. WellFormed(txs, NumTxns)
    BY WorkloadsWellFormed, NumTxnsAssumption, SigOutcomesAssumption DEF ExecInit
  <1>3. MVTypeOK(Txns) /\ \A a \in Addresses : DOMAIN data[a] = {} /\ storage_readers[a] = {}
    BY DEF ExecInit, ExecStart, MVInit, MVTypeOK
  <1>4. NoView \in [Sides -> AccountStates]
    BY DEF NoView, AccountStates
  <1>5. ExecTypes
    BY <1>2, <1>3, <1>4 DEF ExecInit, ExecStart, ExecTypes, Stages, Sides
  <1>6. LocalInv
    BY DEF ExecInit, ExecStart, Init, LocalInv, Clean, Established
  <1>7. RecordedGoBack /\ RejectedLeaveNoTrace
    BY <1>3 DEF ExecInit, ExecStart, Init, RecordedGoBack, RejectedLeaveNoTrace
  <1>8. QED BY <1>1, <1>5, <1>6, <1>7 DEF ExecInv, TraceInv

LEMMA ExecInvStep ==
    ASSUME ExecInv, [ExecNext]_execVars
    PROVE  ExecInv'
  <1>1. IndInv'
    BY SchedulerKept
  <1>2. CASE UNCHANGED execVars
    <2>1. UNCHANGED <<pc, task, invalidated, mvVars, txs, counters, execLocal>>
      BY <1>2 DEF execVars, vars, local
    <2>2. ExecTypes' /\ RecordedGoBack' /\ RejectedLeaveNoTrace'
      BY <2>1
      DEF ExecInv, TraceInv, ExecTypes, MVTypeOK, WellFormed, RecordedGoBack,
          RejectedLeaveNoTrace, mvVars, counters, execLocal, Storage
    <2>3. \A v \in Workers : Clean(v)' /\ Established(v)'
      BY <2>1, LocalFrame DEF ExecInv, TraceInv, LocalInv, Kept, execLocal
    <2>4. QED BY <1>1, <2>2, <2>3 DEF ExecInv, TraceInv, LocalInv
  <1>3. ASSUME NEW w \in Workers, WorkerLoop(w) PROVE TraceInv'
    BY <1>3, TraceScheduler, TraceVerify, TraceRead, TraceRecord, TraceLower,
       TraceStorage, TraceWrite, TraceReport
    DEF WorkerLoop, ExecuteStep
  <1>4. QED BY <1>1, <1>2, <1>3 DEF ExecNext, ExecTerminated, ExecInv

\* The executor's inductive invariant, for every block and every set of workers.
THEOREM ExecInvariant == ExecSpec => []ExecInv
  <1>1. ExecInit => ExecInv
    BY ExecInvInit
  <1>2. ExecInv /\ [ExecNext]_execVars => ExecInv'
    BY ExecInvStep
  <1>3. QED BY <1>1, <1>2, PTL DEF ExecSpec

\* execute_block uses the scheduler as Scheduler specifies: every step of a
\* worker is one of the scheduler's or leaves its state alone, and what it
\* reports as invalidated are higher transactions only.  Everything proved of
\* Scheduler holds of the executor.
THEOREM ExecImplementsScheduler == ExecSpec => ImplementsScheduler
  <1>1. ExecInit => Init
    BY DEF ExecInit, ExecStart
  <1>2. ExecInv /\ [ExecNext]_execVars => [Next]_vars
    BY ImplementsStep
  <1>3. QED
    BY <1>1, <1>2, ExecInvariant, PTL DEF ExecSpec, Spec, ImplementsScheduler

\* Type correctness of the executor: in particular no balance is debited below
\* zero, whatever stale states an execution has read.
THEOREM ExecTypeCorrect == ExecSpec => []ExecTypeOK
  <1>1. ExecInv => ExecTypeOK
    BY DEF ExecInv, IndInv, TraceInv, ExecTypes, ExecTypeOK, WellFormed, Txns
  <1>2. QED BY <1>1, ExecInvariant, PTL

\* Reads, in a worker's hands or recorded in the map, are of lower transactions.
THEOREM ReadsOnlyGoBack == ExecSpec => []ReadsGoBack
  <1>1. ExecInv => ReadsGoBack
    BY DEF ExecInv, TraceInv, LocalInv, Clean, Established, RecordedGoBack, ReadsGoBack
  <1>2. QED BY <1>1, ExecInvariant, PTL

\* A transaction with a bad signature is never read, written or invalidated.
THEOREM RejectedLeaveNothing == ExecSpec => []RejectedLeaveNoTrace
  <1>1. ExecInv => RejectedLeaveNoTrace
    BY DEF ExecInv, TraceInv
  <1>2. QED BY <1>1, ExecInvariant, PTL

-----------------------------------------------------------------------------
(* The failures are counted: the rejected transactions are run once each.     *)

\* Where tasks come from: the queue, or the readers the worker aborts.
LEMMA TaskSources ==
    ASSUME IndInv, NEW w \in Workers, SchedulerStep(w)
    PROVE  /\ \A n \in 1 .. Len(ready_queue') :
                 \/ \E m \in 1 .. Len(ready_queue) : ready_queue'[n] = ready_queue[m]
                 \/ ready_queue'[n][1] \in invalidated[w]
           /\ \A v \in Workers :
                 \/ task'[v] \in {task[v], NoTask}
                 \/ \E m \in 1 .. Len(ready_queue) : task'[v] = ready_queue[m]
  <1> USE DEF Goto, shared, locks, local
  <1>t. /\ task \in [Workers -> Tasks \cup {NoTask}]
        /\ ready_queue \in Seq(Tasks)
    BY DEF IndInv, TypeOK
  <1>1. CASE PopTask(w)
    <2>1. /\ ready_queue # <<>> /\ ready_queue' = Tail(ready_queue)
          /\ task' = [task EXCEPT ![w] = ready_queue[1]]
      BY <1>t, <1>1 DEF PopTask
    <2>2. Len(ready_queue) \in Nat /\ 1 \in 1 .. Len(ready_queue)
      BY <1>t, <2>1
    <2>3. ASSUME NEW n \in 1 .. Len(ready_queue')
          PROVE  n + 1 \in 1 .. Len(ready_queue) /\ ready_queue'[n] = ready_queue[n + 1]
      BY <1>t, <2>1
    <2>4. QED BY <1>t, <2>1, <2>2, <2>3
  <1>2. CASE AbortRequeue(w)
    <2>1. PICK u \in Txns :
             /\ u \in invalidated[w]
             /\ ready_queue' = Append(ready_queue, <<u, new_incarnation[w]>>)
      BY <1>2 DEF AbortRequeue, Requeued, NextAbort
    <2>2. ASSUME NEW n \in 1 .. Len(ready_queue')
          PROVE  \/ n \in 1 .. Len(ready_queue) /\ ready_queue'[n] = ready_queue[n]
                 \/ ready_queue'[n] = <<u, new_incarnation[w]>>
      BY <1>t, <2>1
    <2>3. UNCHANGED task
      BY <1>2 DEF AbortRequeue
    <2>4. QED BY <2>1, <2>2, <2>3
  <1>3. CASE ~PopTask(w) /\ ~AbortRequeue(w)
    <2>1. UNCHANGED ready_queue
      BY <1>3
      DEF SchedulerStep, NextTask, QueueEmpty, MarkExecuting, CheckCommitted,
          AbortLock, AbortSkip, TryCommit, SkipCommit, Inspect,
          CommitTransaction, StoreCommitted, ReleaseCommit
    <2>2. UNCHANGED task \/ task' = [task EXCEPT ![w] = NoTask]
      BY <1>3
      DEF SchedulerStep, NextTask, QueueEmpty, MarkExecuting, CheckCommitted,
          AbortLock, AbortSkip, TryCommit, SkipCommit, Inspect,
          CommitTransaction, StoreCommitted, ReleaseCommit
    <2>3. QED BY <1>t, <2>1, <2>2
  <1>4. QED BY <1>1, <1>2, <1>3

LEMMA RejectedFinite ==
    /\ IsFiniteSet(Rejected) /\ Cardinality(Rejected) \in Nat
    /\ IsFiniteSet(Unverified) /\ Cardinality(Unverified) \in Nat
  <1>1. Rejected \subseteq 0 .. NumTxns - 1 /\ Unverified \subseteq 0 .. NumTxns - 1
    BY DEF Rejected, Unverified, Txns
  <1>2. QED BY <1>1, IndicesFinite, NumTxnsAssumption

LEMMA RunOnceScheduler ==
    ASSUME ExecInv, RejectedRunOnce, NEW w \in Workers, SchedulerStep(w), UNCHANGED txs
    PROVE  RejectedRunOnce'
  <1> SUFFICES ASSUME NEW t \in Txns, ~txs[t].signed
               PROVE  /\ \A n \in 1 .. Len(ready_queue') :
                            ready_queue'[n][1] = t => ready_queue'[n][2] = 0
                      /\ \A v \in Workers :
                            task'[v] # NoTask /\ task'[v][1] = t => task'[v][2] = 0
    BY DEF RejectedRunOnce, Idx, Inc
  <1>1. t \notin invalidated[w]
    BY DEF ExecInv, TraceInv, RejectedLeaveNoTrace
  <1>2. /\ \A n \in 1 .. Len(ready_queue) :
              ready_queue[n][1] = t => ready_queue[n][2] = 0
        /\ \A v \in Workers : task[v] # NoTask /\ task[v][1] = t => task[v][2] = 0
    BY DEF RejectedRunOnce, Idx, Inc
  <1>3. IndInv
    BY DEF ExecInv
  <1>4. QED BY <1>1, <1>2, <1>3, TaskSources

\* The set of outstanding rejected transactions stays as it is when no worker
\* takes a first task or verifies its signature.
LEMMA UnverifiedFrame ==
    ASSUME UNCHANGED <<txs, ready_queue>>,
           \A v \in Workers, t \in Rejected :
              (Held(v, t) /\ stage[v] = "verify")' <=> Held(v, t) /\ stage[v] = "verify"
    PROVE  Unverified' = Unverified
  <1>1. Rejected' = Rejected
    BY DEF Rejected, Txns
  <1>2. \A t \in Rejected : Fresh(t)' <=> Fresh(t)
    BY DEF Fresh
  <1>3. QED BY <1>1, <1>2 DEF Unverified

LEMMA UnverifiedScheduler ==
    ASSUME ExecInv, NEW w \in Workers, SchedulerStep(w), UNCHANGED <<txs, execLocal>>
    PROVE  Unverified' = Unverified
  <1>1. Rejected' = Rejected
    BY DEF Rejected, Txns
  <1>2. ASSUME NEW t \in Rejected
        PROVE  (Fresh(t) \/ \E v \in Workers : Held(v, t) /\ stage[v] = "verify")'
                 <=> (Fresh(t) \/ \E v \in Workers : Held(v, t) /\ stage[v] = "verify")
    <2>1. Typing /\ FirstSafe /\ t \in Txns
      BY IndInvSplit DEF ExecInv, Rejected
    <2>2. Moved(w, t)
      BY <2>1, FirstTaskMoves
    <2>3. stage[w] = "verify" /\ stage' = stage
      BY SchedulerStepFrame DEF ExecInv, TraceInv, LocalInv, Clean, execLocal
    <2>4. (pc'[w] = "mark" /\ task'[w] = <<t, 0>>) => Held(w, t)'
      BY DEF Held
    <2>5. QED BY <2>2, <2>3, <2>4 DEF Moved
  <1>3. QED BY <1>1, <1>2 DEF Unverified

LEMMA CountedVerify ==
    ASSUME ExecInv, RejectedRunOnce, FailuresCounted,
           NEW w \in Workers, VerifySignature(w)
    PROVE  FailuresCounted'
  <1>1. /\ pc[w] = "execute" /\ stage[w] = "verify"
        /\ stage' = [stage EXCEPT ![w] = IF Tx(w).signed THEN "read" ELSE "report"]
        /\ fail_count' = fail_count + (IF Tx(w).signed THEN 0 ELSE 1)
        /\ UNCHANGED <<pc, task, ready_queue, txs>>
    BY DEF VerifySignature, At, GotoStage, AfterVerify, vars, shared, local
  <1>2. /\ stage \in [Workers -> Stages] /\ fail_count \in Nat
        /\ FirstRunFirst /\ FirstRunOnce
    BY DEF ExecInv, TraceInv, ExecTypes, IndInv
  <1>3. stage'[w] # "verify" /\ \A v \in Workers \ {w} : stage'[v] = stage[v]
    BY <1>1, <1>2
  <1>4. Idx(w) \in Txns /\ task[w] = <<Idx(w), Inc(w)>> /\ Tx(w) = txs[Idx(w)]
    BY <1>1, ExecutingFacts DEF Tx
  <1>5. Rejected' = Rejected
    BY <1>1 DEF Rejected, Txns
  <1>6. CASE Tx(w).signed
    <2>1. \A t \in Rejected : task[w] # <<t, 0>>
      BY <1>4, <1>6 DEF Rejected
    <2>2. Unverified' = Unverified
      BY <1>1, <1>3, <2>1, UnverifiedFrame DEF Held
    <2>3. QED BY <1>1, <1>2, <1>5, <1>6, <2>2 DEF FailuresCounted
  <1>7. CASE ~Tx(w).signed
    <2> DEFINE u == Idx(w)
    <2>1. u \in Rejected /\ task[w] = <<u, 0>>
      <3>1. task[w] # NoTask
        BY <1>4 DEF NoTask
      <3>2. QED BY <1>4, <1>7, <3>1 DEF RejectedRunOnce, Rejected
    <2> HIDE DEF u
    <2>2. u \in Unverified
      BY <1>1, <2>1 DEF Unverified, Held
    <2>3. ~Fresh(u) /\ u \in Txns
      <3>1. task[w] # NoTask /\ Idx(w) = u /\ u \in Txns
        BY <2>1 DEF NoTask, u, Rejected
      <3>2. QED BY <1>2, <3>1 DEF FirstRunFirst, Fresh
    <2>4. \A v \in Workers \ {w} : task[v] # <<u, 0>>
      BY <1>2, <2>1, <2>3 DEF FirstRunOnce
    <2>5. ASSUME NEW t \in Rejected
          PROVE  t \in Unverified' <=> t \in Unverified /\ t # u
      <3>1. Fresh(t)' <=> Fresh(t)
        BY <1>1 DEF Fresh
      <3>2. CASE t = u
        <4>1. \A v \in Workers : ~(Held(v, t) /\ stage[v] = "verify")'
          BY <1>1, <1>3, <2>4, <3>2 DEF Held
        <4>2. QED BY <2>3, <3>1, <3>2, <4>1 DEF Unverified
      <3>3. CASE t # u
        <4>1. task[w] # <<t, 0>>
          BY <2>1, <3>3
        <4>2. \A v \in Workers : (Held(v, t) /\ stage[v] = "verify")'
                                    <=> Held(v, t) /\ stage[v] = "verify"
          BY <1>1, <1>3, <4>1 DEF Held
        <4>3. QED BY <1>5, <3>1, <3>3, <4>2 DEF Unverified
      <3>4. QED BY <3>2, <3>3
    <2>6. Unverified' = Unverified \ {u}
      <3>1. Unverified \subseteq Rejected /\ Unverified' \subseteq Rejected
        BY <1>5 DEF Unverified
      <3>2. QED BY <2>5, <3>1
    <2>7. Cardinality(Unverified \ {u}) = Cardinality(Unverified) - 1
      BY <2>2, RejectedFinite, FS_RemoveElement
    <2>8. QED
      BY <1>1, <1>2, <1>5, <1>7, <2>6, <2>7, RejectedFinite DEF FailuresCounted
  <1>8. QED BY <1>6, <1>7

\* The other steps of an execution.
LEMMA CountedExecute ==
    ASSUME ExecInv, FailuresCounted, NEW w \in Workers,
           ExecuteStep(w), ~VerifySignature(w)
    PROVE  FailuresCounted'
  <1>1. stage \in [Workers -> Stages] /\ pc \in [Workers -> Labels]
    BY DEF ExecInv, TraceInv, ExecTypes, IndInv, TypeOK
  <1>2. UNCHANGED <<fail_count, txs, task, ready_queue>>
    <2> USE DEF vars, shared, local, counters
    <2>1. CASE Report(w)
      BY <2>1 DEF Report, FinishExecution
    <2>2. CASE ~Report(w)
      BY <2>2
      DEF ExecuteStep, ReadAccount, RecordAccess, CheckLower,
          CollectStorageReaders, WriteVersion
    <2>3. QED BY <2>1, <2>2
  <1>3. ASSUME NEW v \in Workers, NEW t \in Rejected
        PROVE  (Held(v, t) /\ stage[v] = "verify")' <=> Held(v, t) /\ stage[v] = "verify"
    <2>1. CASE Report(w)
      <3>1. /\ stage[w] = "report" /\ stage' = [stage EXCEPT ![w] = "verify"]
            /\ pc' = [pc EXCEPT ![w] = AbortNext(found[w])]
        BY <2>1 DEF Report, At, FinishExecution, Goto
      <3>2. AbortNext(found[w]) \in {"abort", "try_commit"}
        BY DEF AbortNext
      <3>3. QED BY <1>1, <1>2, <3>1, <3>2 DEF Held
    <2>2. CASE ~Report(w)
      <3>1. UNCHANGED pc
        BY <2>2
        DEF ExecuteStep, ReadAccount, RecordAccess, CheckLower,
            CollectStorageReaders, WriteVersion, vars, local
      <3>2. \E l \in Stages \ {"verify"} : stage' = [stage EXCEPT ![w] = l]
        BY <2>2
        DEF ExecuteStep, ReadAccount, RecordAccess, CheckLower,
            CollectStorageReaders, WriteVersion, GotoStage, AfterRead, Stages
      <3>3. stage[w] # "verify"
        BY <2>2
        DEF ExecuteStep, ReadAccount, RecordAccess, CheckLower,
            CollectStorageReaders, WriteVersion, At
      <3>4. QED BY <1>1, <1>2, <3>1, <3>2, <3>3 DEF Held
    <2>3. QED BY <2>1, <2>2
  <1>4. Unverified' = Unverified
    BY <1>2, <1>3, UnverifiedFrame
  <1>5. Rejected' = Rejected
    BY <1>2 DEF Rejected, Txns
  <1>6. QED BY <1>2, <1>4, <1>5 DEF FailuresCounted

FailInv == ExecInv /\ RejectedRunOnce /\ FailuresCounted

LEMMA FailInvInit == ExecInit => FailInv
  <1> SUFFICES ASSUME ExecInit PROVE FailInv
    OBVIOUS
  <1>1. ExecInv
    BY ExecInvInit
  <1>2. RejectedRunOnce
    BY NumTxnsAssumption DEF ExecInit, ExecStart, Init, RejectedRunOnce, Idx, Inc
  <1>3. ASSUME NEW t \in Txns PROVE Fresh(t)
    <2>1. t + 1 \in 1 .. Len(ready_queue) /\ ready_queue[t + 1] = <<t, 0>>
      BY InitiallyQueued DEF ExecInit, ExecStart
    <2>2. QED BY <2>1 DEF Fresh
  <1>4. Unverified = Rejected
    BY <1>3 DEF Unverified, Rejected
  <1>5. QED
    BY <1>1, <1>2, <1>4, RejectedFinite DEF FailInv, FailuresCounted, ExecInit, ExecStart

LEMMA FailInvStep ==
    ASSUME FailInv, [ExecNext]_execVars
    PROVE  FailInv'
  <1>0. ExecInv /\ RejectedRunOnce /\ FailuresCounted
    BY DEF FailInv
  <1>1. ExecInv'
    BY <1>0, ExecInvStep
  <1>2. CASE UNCHANGED execVars
    <2>1. UNCHANGED <<pc, task, ready_queue, txs, stage, fail_count>>
      BY <1>2 DEF execVars, vars, shared, local, counters, execLocal
    <2>2. RejectedRunOnce'
      BY <1>0, <2>1 DEF RejectedRunOnce, Idx, Inc
    <2>3. Unverified' = Unverified
      BY <2>1, UnverifiedFrame DEF Held
    <2>4. Rejected' = Rejected
      BY <2>1 DEF Rejected, Txns
    <2>5. QED BY <1>0, <1>1, <2>1, <2>2, <2>3, <2>4 DEF FailInv, FailuresCounted
  <1>3. ASSUME NEW w \in Workers, SchedulerStep(w),
               UNCHANGED <<mvVars, txs, counters, execLocal>>
        PROVE  FailInv'
    <2>1. RejectedRunOnce'
      BY <1>0, <1>3, RunOnceScheduler
    <2>2. Unverified' = Unverified
      BY <1>0, <1>3, UnverifiedScheduler
    <2>3. Rejected' = Rejected
      BY <1>3 DEF Rejected, Txns
    <2>4. QED BY <1>0, <1>1, <1>3, <2>1, <2>2, <2>3 DEF FailInv, FailuresCounted, counters
  <1>4. ASSUME NEW w \in Workers, ExecuteStep(w) PROVE FailInv'
    <2>1. UNCHANGED <<task, ready_queue, txs>>
      <3> USE DEF vars, shared, local
      <3>1. CASE Report(w)
        BY <3>1 DEF Report, FinishExecution
      <3>2. CASE ~Report(w)
        BY <1>4, <3>2
        DEF ExecuteStep, VerifySignature, ReadAccount, RecordAccess, CheckLower,
            CollectStorageReaders, WriteVersion
      <3>3. QED BY <3>1, <3>2
    <2>2. RejectedRunOnce'
      BY <1>0, <2>1 DEF RejectedRunOnce, Idx, Inc
    <2>3. FailuresCounted'
      BY <1>0, <1>4, CountedVerify, CountedExecute
    <2>4. QED BY <1>1, <2>2, <2>3 DEF FailInv
  <1>5. QED BY <1>2, <1>3, <1>4 DEF ExecNext, ExecTerminated, WorkerLoop

\* execute_block's counts, when at least one worker ran and all have been
\* joined: fail_count is the number of badly signed transactions, each counted
\* once, committed_idx - fail_count does not underflow, and the two add up to the
\* block.
THEOREM FailuresOnce ==
    ASSUME Workers # {}
    PROVE  ExecSpec => []FailuresCountedOnce
  <1>1. FailInv => FailuresCountedOnce
    <2> SUFFICES ASSUME FailInv, Joined
                 PROVE  /\ fail_count = Cardinality(Rejected)
                        /\ fail_count <= committed_idx
                        /\ Successful + fail_count = NumTxns
      BY DEF FailuresCountedOnce, Rejected
    <2>0. IndInv /\ fail_count \in Nat
      BY DEF FailInv, ExecInv, TraceInv, ExecTypes
    <2>1. committed_idx = NumTxns
      BY <2>0 DEF IndInv, DoneSound, Joined
    <2>2. \A t \in Txns : ~Fresh(t)
      BY <2>0, <2>1, NumTxnsAssumption DEF IndInv, CommittedStarted, Txns
    <2>3. Unverified = {}
      BY <2>2 DEF Unverified, Rejected, Held, Joined
    <2>4. fail_count = Cardinality(Rejected)
      BY <2>0, <2>3, FS_EmptySet, RejectedFinite DEF FailInv, FailuresCounted
    <2>5. IsFiniteSet(Txns) /\ Cardinality(Txns) = NumTxns
      BY UnrunFinite
    <2>6. Cardinality(Rejected) <= NumTxns
      BY <2>5, FS_Subset DEF Rejected
    <2>7. QED BY <2>0, <2>1, <2>4, <2>6, NumTxnsAssumption DEF Successful
  <1>2. ExecInit => FailInv
    BY FailInvInit
  <1>3. FailInv /\ [ExecNext]_execVars => FailInv'
    BY FailInvStep
  <1>4. QED BY <1>1, <1>2, <1>3, PTL DEF ExecSpec

-----------------------------------------------------------------------------
(* Independent transactions are executed exactly.                             *)

\* The ledger of the ordered execution, at the accounts of an independent
\* transaction, is the genesis with that transaction applied.
LEMMA IndependentLedger ==
    ASSUME ExecInv, NEW t \in Txns, Independent(t), NEW a \in Addresses, Touches(t, a)
    PROVE  LedgerAfter(txs, t + 1)[a] = Apply(txs[t], Genesis)[a]
  <1> DEFINE L == LedgerAfter(txs, t)
             tx == txs[t]
  <1>1. /\ t \in Nat /\ t \in 0 .. NumTxns /\ t \in 0 .. NumTxns - 1
        /\ WellFormed(txs, NumTxns)
    BY NumTxnsAssumption DEF Txns, ExecInv, TraceInv, ExecTypes
  <1>2. tx \in SignedTransactions /\ tx.from # tx.to
    BY <1>1 DEF WellFormed
  <1>3. tx.from \in Addresses /\ tx.to \in Addresses
    BY <1>2 DEF SignedTransactions
  <1>4. ASSUME NEW b \in Addresses, b \in {tx.from, tx.to}
        PROVE  L[b] = Genesis[b]
    <2>1. \A u \in 0 .. t - 1 : b \notin {txs[u].from, txs[u].to}
      BY <1>4 DEF Independent, Touches
    <2>2. QED BY <1>1, <2>1, LedgerUntouched, NumTxnsAssumption
  <1>5. L \in [Addresses -> AccountStates]
    BY <1>1, LedgerTyped, NumTxnsAssumption
  <1>6. LedgerAfter(txs, t + 1) = Apply(tx, L)
    BY <1>1, LedgerAfterNext
  <1>7. a \in {tx.from, tx.to}
    BY DEF Touches
  <1> HIDE DEF L, tx
  <1>8. Succeeds(tx, L) <=> Succeeds(tx, Genesis)
    BY <1>3, <1>4 DEF Succeeds
  <1>9. CASE Succeeds(tx, L)
    BY <1>2, <1>3, <1>4, <1>5, <1>6, <1>7, <1>8, <1>9, ApplyTyped, GenesisOK DEF tx
  <1>10. CASE ~Succeeds(tx, L)
    BY <1>4, <1>6, <1>7, <1>8, <1>10 DEF Apply, tx
  <1>11. QED BY <1>9, <1>10

\* A step that takes no version away.
Grow == \A a \in Addresses : DOMAIN data[a] \subseteq DOMAIN data'[a]

\* A step that writes no version.
SameVersions ==
    \A a \in Addresses :
        /\ DOMAIN data'[a] = DOMAIN data[a]
        /\ \A u \in DOMAIN data[a] : data'[a][u].state = data[a][u].state

LEMMA ContentsFrame ==
    ASSUME WritersTouch, StatesExact, SameVersions, UNCHANGED txs
    PROVE  WritersTouch' /\ StatesExact'
  <1>1. \A u \in Txns : Independent(u)' <=> Independent(u)
    BY DEF Independent, Touches
  <1>2. WritersTouch'
    BY DEF WritersTouch, SameVersions, Touches
  <1>3. StatesExact'
    BY <1>1 DEF StatesExact, SameVersions, Apply, Succeeds, Accepts, Debit, Credit, Genesis
  <1>4. QED BY <1>2, <1>3

\* What stays of a worker that keeps its task.
LEMMA SameTask ==
    ASSUME NEW w \in Workers, task'[w] = task[w], UNCHANGED txs
    PROVE  /\ Idx(w)' = Idx(w) /\ Tx(w)' = Tx(w)
           /\ Independent(Idx(w))' <=> Independent(Idx(w))
           /\ Certain(Idx(w))' <=> Certain(Idx(w))
  <1>1. Idx(w)' = Idx(w) /\ Tx(w)' = Tx(w)
    BY DEF Idx, Tx
  <1>2. Independent(Idx(w))' <=> Independent(Idx(w))
    BY <1>1 DEF Independent, Touches
  <1>3. Succeeds(txs[Idx(w)], Genesis)' <=> Succeeds(txs[Idx(w)], Genesis)
    BY <1>1 DEF Succeeds, Accepts, Genesis
  <1>4. QED BY <1>1, <1>2, <1>3 DEF Certain

LEMMA OthersFrame ==
    ASSUME ExecInv, NEW v \in Workers, ViewExact(v), WritesBoth(v), Kept(v), Grow
    PROVE  ViewExact(v)' /\ WritesBoth(v)'
  <1>1. /\ Idx(v)' = Idx(v) /\ Tx(v)' = Tx(v)
        /\ Independent(Idx(v))' <=> Independent(Idx(v))
        /\ Certain(Idx(v))' <=> Certain(Idx(v))
    BY SameTask DEF Kept
  <1>2. ViewExact(v)'
    BY <1>1 DEF ViewExact, Kept, Writing, Genesis
  <1>3. pc[v] = "execute" => Tx(v).from \in Addresses /\ Tx(v).to \in Addresses
    BY ExecutingFacts
  <1>4. WritesBoth(v)'
    BY <1>1, <1>3 DEF WritesBoth, Kept, Writing, Grow
  <1>5. QED BY <1>2, <1>4

LEMMA CompleteFrame ==
    ASSUME ExecInv, VersionsComplete, Grow, UNCHANGED txs, Unrun' = Unrun
    PROVE  VersionsComplete'
  <1>1. \A t \in Txns : Certain(t)' <=> Certain(t)
    BY DEF Certain, Independent, Touches, Succeeds, Accepts, Genesis
  <1>2. \A t \in Txns : txs[t].from \in Addresses /\ txs[t].to \in Addresses
    BY DEF ExecInv, TraceInv, ExecTypes, WellFormed, SignedTransactions, Txns
  <1>3. QED BY <1>1, <1>2 DEF VersionsComplete, Grow, Txns

\* Steps of an execution that write nothing and report nothing.
LEMMA QuietStep ==
    ASSUME ExecInv, VersionsInv, NEW w \in Workers,
           SameVersions, UNCHANGED <<vars, txs>>,
           \A v \in Workers \ {w} : Kept(v),
           ViewExact(w)', WritesBoth(w)'
    PROVE  VersionsInv'
  <1>1. Grow
    BY DEF Grow, SameVersions
  <1>2. WritersTouch' /\ StatesExact'
    BY ContentsFrame DEF VersionsInv
  <1>3. \A v \in Workers : ViewExact(v)' /\ WritesBoth(v)'
    BY <1>1, OthersFrame DEF VersionsInv
  <1>4. Unrun' = Unrun
    BY DEF Unrun, Fresh, vars, shared, local
  <1>5. VersionsComplete'
    BY <1>1, <1>4, CompleteFrame DEF VersionsInv
  <1>6. QED BY <1>2, <1>3, <1>5 DEF VersionsInv

LEMMA VersionsScheduler ==
    ASSUME ExecInv, VersionsInv, NEW w \in Workers, SchedulerStep(w),
           UNCHANGED <<mvVars, txs, counters, execLocal>>
    PROVE  VersionsInv'
  <1>1. /\ pc[w] # "execute"
        /\ \A v \in Workers \ {w} : pc'[v] = pc[v] /\ task'[v] = task[v]
    BY SchedulerStepFrame DEF ExecInv
  <1>2. SameVersions /\ Grow
    BY DEF SameVersions, Grow, mvVars
  <1>3. ASSUME NEW v \in Workers PROVE ViewExact(v)' /\ WritesBoth(v)'
    <2>1. CASE v = w
      <3>1. stage'[w] = "verify" /\ side'[w] = "from"
        BY <1>1 DEF ExecInv, TraceInv, LocalInv, Clean, execLocal
      <3>2. QED BY <2>1, <3>1 DEF ViewExact, WritesBoth, Writing
    <2>2. CASE v # w
      <3>1. Kept(v)
        BY <1>1, <2>2 DEF Kept, execLocal
      <3>2. QED BY <1>2, <3>1, OthersFrame DEF VersionsInv
    <2>3. QED BY <2>1, <2>2
  <1>4. Typing /\ FirstSafe
    BY IndInvSplit DEF ExecInv
  <1>5. Unrun' = Unrun
    BY <1>4, UnrunKept
  <1>6. QED BY <1>2, <1>3, <1>5, ContentsFrame, CompleteFrame DEF VersionsInv

LEMMA VersionsVerify ==
    ASSUME ExecInv, VersionsInv, NEW w \in Workers, VerifySignature(w)
    PROVE  VersionsInv'
  <1>1. /\ pc[w] = "execute" /\ stage[w] = "verify"
        /\ stage' = [stage EXCEPT ![w] = IF Tx(w).signed THEN "read" ELSE "report"]
        /\ UNCHANGED <<vars, mvVars, txs, side, seen, view, found>>
    BY DEF VerifySignature, At, GotoStage, AfterVerify
  <1>2. stage \in [Workers -> Stages] /\ side[w] = "from"
    BY <1>1 DEF ExecInv, TraceInv, ExecTypes, LocalInv, Established
  <1>3. SameVersions /\ UNCHANGED <<pc, task>>
    BY <1>1 DEF SameVersions, mvVars, vars, local
  <1>4. \A v \in Workers \ {w} : Kept(v)
    BY <1>1, <1>2, <1>3 DEF Kept
  <1>5. /\ Idx(w)' = Idx(w) /\ Tx(w)' = Tx(w) /\ Tx(w) = txs[Idx(w)]
        /\ Certain(Idx(w))' <=> Certain(Idx(w))
    BY <1>1, <1>3, SameTask DEF Tx
  <1>6. ViewExact(w)' /\ WritesBoth(w)'
    <2>1. /\ stage'[w] \in {"read", "report"} /\ side'[w] = "from"
          /\ stage'[w] = "report" => ~Tx(w).signed
      BY <1>1, <1>2
    <2>2. QED BY <1>5, <2>1 DEF ViewExact, WritesBoth, Writing, Certain, Succeeds
  <1>7. QED BY <1>1, <1>3, <1>4, <1>6, QuietStep

\* An independent transaction reads its accounts from storage: no version below
\* it is of an account of its own.
LEMMA IndependentRead ==
    ASSUME ExecInv, WritersTouch, NEW w \in Workers, pc[w] = "execute",
           Independent(Idx(w))
    PROVE  StateOf(Addr(w), ReadVersion(Addr(w), Idx(w))) = Genesis[Addr(w)]
  <1> DEFINE a == Addr(w)
             t == Idx(w)
  <1>1. /\ t \in Txns /\ a \in Addresses /\ side[w] \in {"from", "to"}
        /\ Tx(w).from \in Addresses /\ Tx(w).to \in Addresses
    BY ExecutingFacts DEF Sides
  <1>2. Touches(t, a)
    BY <1>1 DEF Touches, Addr, Tx
  <1> HIDE DEF a, t
  <1>3. ASSUME NEW u \in DOMAIN data[a], u < t PROVE FALSE
    <2>1. Touches(u, a) /\ u \in Txns
      BY <1>1 DEF WritersTouch, ExecInv, TraceInv, ExecTypes, MVTypeOK
    <2>2. u \in 0 .. t - 1
      BY <1>1, <1>3, <2>1, NumTxnsAssumption DEF Txns
    <2>3. QED BY <1>1, <1>2, <2>1, <2>2 DEF Independent, t
  <1>4. Previous(a, t) = {}
    BY <1>3 DEF Previous
  <1>5. QED BY <1>4 DEF ReadVersion, StateOf, a, t

LEMMA VersionsRead ==
    ASSUME ExecInv, VersionsInv, NEW w \in Workers, ReadAccount(w)
    PROVE  VersionsInv'
  <1> DEFINE got == StateOf(Addr(w), ReadVersion(Addr(w), Idx(w)))
  <1>1. /\ pc[w] = "execute" /\ stage[w] = "read"
        /\ \E version : seen' = [seen EXCEPT ![w] = version]
        /\ view' = [view EXCEPT ![w][side[w]] = got]
        /\ stage' = [stage EXCEPT ![w] = "record"]
        /\ UNCHANGED <<vars, mvVars, txs, counters, side, found>>
    BY DEF ReadAccount, At, GotoStage
  <1>2. /\ stage \in [Workers -> Stages] /\ seen \in [Workers -> Tasks \cup {Storage}]
        /\ view \in [Workers -> [Sides -> AccountStates]] /\ side[w] \in Sides
    BY DEF ExecInv, TraceInv, ExecTypes
  <1>3. SameVersions /\ UNCHANGED <<pc, task>>
    BY <1>1 DEF SameVersions, mvVars, vars, local
  <1>4. \A v \in Workers \ {w} : Kept(v)
    BY <1>1, <1>2, <1>3 DEF Kept
  <1>5. /\ Idx(w)' = Idx(w) /\ Tx(w)' = Tx(w)
        /\ Independent(Idx(w))' <=> Independent(Idx(w))
    BY <1>1, <1>3, SameTask
  <1>6. /\ stage'[w] = "record" /\ side'[w] = side[w] /\ view'[w][side[w]] = got
        /\ \A s \in Sides \ {side[w]} : view'[w][s] = view[w][s]
    BY <1>1, <1>2
  <1>7. ViewExact(w)'
    <2> SUFFICES ASSUME Independent(Idx(w))
                 PROVE  /\ view'[w]["from"] = Genesis[Tx(w).from]
                        /\ side[w] = "to" => view'[w]["to"] = Genesis[Tx(w).to]
      BY <1>5, <1>6 DEF ViewExact, Writing, Genesis
    <2>1. got = Genesis[Tx(w)[side[w]]]
      BY <1>1, IndependentRead DEF VersionsInv, Addr
    <2> HIDE DEF got
    <2>2. CASE side[w] = "from"
      BY <1>6, <2>1, <2>2
    <2>3. CASE side[w] = "to"
      <3>1. view[w]["from"] = Genesis[Tx(w).from]
        BY <1>1, <2>3 DEF VersionsInv, ViewExact
      <3>2. view'[w]["from"] = view[w]["from"]
        BY <1>6, <2>3 DEF Sides
      <3>3. QED BY <1>6, <2>1, <2>3, <3>1, <3>2
    <2>4. QED BY <1>2, <2>2, <2>3 DEF Sides
  <1>8. WritesBoth(w)'
    BY <1>6 DEF WritesBoth, Writing
  <1>9. QED BY <1>1, <1>3, <1>4, <1>7, <1>8, QuietStep

LEMMA VersionsRecord ==
    ASSUME ExecInv, VersionsInv, NEW w \in Workers, RecordAccess(w)
    PROVE  VersionsInv'
  <1>1. /\ pc[w] = "execute" /\ stage[w] = "record"
        /\ seen' = [seen EXCEPT ![w] = Storage]
        /\ stage' = [stage EXCEPT ![w] = AfterRead(w)]
        /\ side' = [side EXCEPT ![w] = IF AfterRead(w) = "read" THEN "to" ELSE "from"]
        /\ UNCHANGED <<vars, txs, counters, view, found>>
    BY DEF RecordAccess, At, GotoStage
  <1>2. /\ stage \in [Workers -> Stages] /\ seen \in [Workers -> Tasks \cup {Storage}]
        /\ side \in [Workers -> {"from", "to"}]
    BY DEF ExecInv, TraceInv, ExecTypes, Sides
  <1>3. SameVersions
    <2>1. Addr(w) \in Addresses /\ Idx(w) \in Txns /\ MVTypeOK(Txns)
      BY <1>1, ExecutingFacts DEF ExecInv, TraceInv, ExecTypes
    <2>2. CASE RecordStorageRead(Addr(w), Idx(w))
      BY <2>2 DEF RecordStorageRead, SameVersions
    <2>3. CASE seen[w] # Storage /\ RecordRead(Addr(w), Idx(w), seen[w])
      BY <1>2, <2>1, <2>3, RecordReadEffect DEF SameVersions
    <2>4. QED BY <2>2, <2>3 DEF RecordAccess
  <1>4. UNCHANGED <<pc, task>>
    BY <1>1 DEF vars, local
  <1>5. \A v \in Workers \ {w} : Kept(v)
    BY <1>1, <1>2, <1>4 DEF Kept
  <1>6. /\ Idx(w)' = Idx(w) /\ Tx(w)' = Tx(w) /\ Tx(w) = txs[Idx(w)]
        /\ Independent(Idx(w))' <=> Independent(Idx(w))
        /\ Certain(Idx(w))' <=> Certain(Idx(w))
    BY <1>1, <1>4, SameTask DEF Tx
  <1>7. /\ stage'[w] = AfterRead(w) /\ view'[w] = view[w]
        /\ side'[w] = IF AfterRead(w) = "read" THEN "to" ELSE "from"
    BY <1>1, <1>2
  <1>8. Independent(Idx(w)) =>
           /\ view[w]["from"] = Genesis[Tx(w).from]
           /\ side[w] = "to" => view[w]["to"] = Genesis[Tx(w).to]
    BY <1>1 DEF VersionsInv, ViewExact
  <1>9. ViewExact(w)' /\ WritesBoth(w)'
    <2>1. CASE side[w] = "to"
      <3>1. stage'[w] = "lower" /\ side'[w] = "from"
        BY <1>7, <2>1 DEF AfterRead
      <3>2. QED
        BY <1>6, <1>7, <1>8, <2>1, <3>1 DEF ViewExact, WritesBoth, Writing, Genesis
    <2>2. CASE side[w] = "from" /\ Accepts(Tx(w), view[w]["from"])
      <3>1. stage'[w] = "read" /\ side'[w] = "to"
        BY <1>7, <2>2 DEF AfterRead
      <3>2. QED BY <1>6, <1>7, <1>8, <3>1 DEF ViewExact, WritesBoth, Writing, Genesis
    <2>3. CASE side[w] = "from" /\ ~Accepts(Tx(w), view[w]["from"])
      <3>1. stage'[w] = "report" /\ side'[w] = "from"
        BY <1>7, <2>3 DEF AfterRead
      <3>2. ~Certain(Idx(w))
        BY <1>6, <1>8, <2>3 DEF Certain, Succeeds
      <3>3. QED BY <1>6, <3>1, <3>2 DEF ViewExact, WritesBoth, Writing
    <2>4. QED BY <1>2, <2>1, <2>2, <2>3
  <1>10. QED BY <1>1, <1>3, <1>5, <1>9, QuietStep

\* The two steps of a write that look before it.
LEMMA VersionsCollect ==
    ASSUME ExecInv, VersionsInv, NEW w \in Workers,
           CheckLower(w) \/ CollectStorageReaders(w)
    PROVE  VersionsInv'
  <1>1. /\ pc[w] = "execute" /\ stage[w] \in Writing
        /\ \E l \in Writing : stage' = [stage EXCEPT ![w] = l]
        /\ UNCHANGED found \/ \E more : found' = [found EXCEPT ![w] = more]
        /\ UNCHANGED <<vars, mvVars, txs, side, seen, view>>
    BY DEF CheckLower, CollectStorageReaders, At, GotoStage, Writing
  <1>2. stage \in [Workers -> Stages] /\ found \in [Workers -> SUBSET Txns]
    BY DEF ExecInv, TraceInv, ExecTypes
  <1>3. SameVersions /\ UNCHANGED <<pc, task>>
    BY <1>1 DEF SameVersions, mvVars, vars, local
  <1>4. \A v \in Workers \ {w} : Kept(v)
    BY <1>1, <1>2, <1>3 DEF Kept
  <1>5. /\ Idx(w)' = Idx(w) /\ Tx(w)' = Tx(w) /\ stage'[w] \in Writing
        /\ Independent(Idx(w))' <=> Independent(Idx(w))
        /\ Certain(Idx(w))' <=> Certain(Idx(w))
    BY <1>1, <1>2, <1>3, SameTask
  <1>6. ViewExact(w) /\ WritesBoth(w)
    BY DEF VersionsInv
  <1>7. ViewExact(w)'
    BY <1>1, <1>3, <1>5, <1>6 DEF ViewExact, Writing, Genesis
  <1>8. WritesBoth(w)'
    BY <1>1, <1>3, <1>5, <1>6 DEF WritesBoth, Writing, mvVars
  <1>9. QED BY <1>1, <1>3, <1>4, <1>7, <1>8, QuietStep

LEMMA VersionsWrite ==
    ASSUME ExecInv, VersionsInv, NEW w \in Workers, WriteVersion(w)
    PROVE  VersionsInv'
  <1> DEFINE a == Addr(w)
             t == Idx(w)
  <1>1. /\ pc[w] = "execute" /\ stage[w] = "insert"
        /\ \E more : found' = [found EXCEPT ![w] = more]
        /\ InsertVersion(a, t, Inc(w), NewState(w))
        /\ stage' = [stage EXCEPT ![w] = IF side[w] = "from" THEN "lower" ELSE "report"]
        /\ side' = [side EXCEPT ![w] = IF side[w] = "from" THEN "to" ELSE "from"]
        /\ UNCHANGED <<vars, txs, counters, seen, view>>
    BY DEF WriteVersion, At, GotoStage
  <1>2. /\ stage \in [Workers -> Stages] /\ side \in [Workers -> {"from", "to"}]
        /\ found \in [Workers -> SUBSET Txns] /\ MVTypeOK(Txns)
    BY DEF ExecInv, TraceInv, ExecTypes, Sides
  <1>3. UNCHANGED <<pc, task>>
    BY <1>1 DEF vars, local
  <1>4. /\ Tx(w) \in SignedTransactions /\ Tx(w).from # Tx(w).to
        /\ Tx(w).from \in Addresses /\ Tx(w).to \in Addresses
        /\ t \in Txns /\ a \in Addresses /\ Inc(w) \in Nat
    BY <1>1, ExecutingFacts
  <1>5. Tx(w).signed /\ Accepts(Tx(w), view[w]["from"])
    BY <1>1 DEF ExecInv, TraceInv, LocalInv, Established, Writing
  <1>6. NewState(w) \in AccountStates
    BY <1>1, NewStateOK DEF Writing
  <1>7. /\ Idx(w)' = Idx(w) /\ Tx(w)' = Tx(w) /\ Tx(w) = txs[t]
        /\ Independent(Idx(w))' <=> Independent(Idx(w))
        /\ Certain(Idx(w))' <=> Certain(Idx(w))
    BY <1>1, <1>3, SameTask DEF Tx
  <1>8. a = IF side[w] = "from" THEN Tx(w).from ELSE Tx(w).to
    BY <1>2 DEF Addr
  <1> HIDE DEF a, t
  <1>9. /\ DOMAIN data'[a] = DOMAIN data[a] \cup {t}
        /\ data'[a][t].state = NewState(w)
        /\ \A v \in DOMAIN data[a] \ {t} : data'[a][v] = data[a][v]
        /\ \A b \in Addresses \ {a} : data'[b] = data[b]
    <2>1. data'[a][t] = [incarnation |-> Inc(w), state |-> NewState(w), readers |-> {}]
      BY <1>1, <1>2, <1>4, <1>6, InsertEffect
    <2>2. QED BY <1>1, <1>2, <1>4, <1>6, <2>1, InsertEffect
  <1>10. Grow
    BY <1>9 DEF Grow
  <1>11. Independent(t) =>
            view[w]["from"] = Genesis[Tx(w).from] /\ view[w]["to"] = Genesis[Tx(w).to]
    BY <1>1 DEF VersionsInv, ViewExact, Writing, t
  <1>12. WritersTouch'
    <2>1. Touches(t, a)
      BY <1>7, <1>8 DEF Touches
    <2>2. ASSUME NEW b \in Addresses, NEW u \in DOMAIN data'[b] PROVE Touches(u, b)
      BY <1>9, <2>1 DEF VersionsInv, WritersTouch
    <2>3. QED BY <1>1, <2>2 DEF WritersTouch, Touches
  <1>13. StatesExact'
    <2> SUFFICES ASSUME NEW u \in Txns, Independent(u), NEW b \in Addresses,
                        u \in DOMAIN data'[b]
                 PROVE  data'[b][u].state = Apply(txs[u], Genesis)[b]
      BY <1>1 DEF StatesExact, Independent, Touches, Apply, Succeeds, Accepts,
                  Debit, Credit, Genesis
    <2>1. CASE u = t /\ b = a
      <3>1. Succeeds(Tx(w), Genesis)
        BY <1>5, <1>11, <2>1 DEF Succeeds
      <3>2. CASE side[w] = "from"
        BY <1>4, <1>7, <1>8, <1>9, <1>11, <2>1, <3>1, <3>2, ApplyTyped, GenesisOK
        DEF NewState
      <3>3. CASE side[w] = "to"
        BY <1>4, <1>7, <1>8, <1>9, <1>11, <2>1, <3>1, <3>3, ApplyTyped, GenesisOK
        DEF NewState
      <3>4. QED BY <1>2, <3>2, <3>3
    <2>2. CASE u # t \/ b # a
      <3>1. u \in DOMAIN data[b] /\ data'[b][u] = data[b][u]
        BY <1>9, <2>2
      <3>2. QED BY <3>1 DEF VersionsInv, StatesExact
    <2>3. QED BY <2>1, <2>2
  <1>14. /\ stage'[w] = IF side[w] = "from" THEN "lower" ELSE "report"
         /\ side'[w] = IF side[w] = "from" THEN "to" ELSE "from"
         /\ view'[w] = view[w]
    BY <1>1, <1>2
  <1>15. ViewExact(w)'
    BY <1>7, <1>11, <1>14 DEF ViewExact, Writing, Genesis, t
  <1>16. WritesBoth(w)'
    <2>1. side[w] = "to" => (Certain(t) => t \in DOMAIN data[Tx(w).from])
      BY <1>1 DEF VersionsInv, WritesBoth, Writing, t
    <2>2. CASE side[w] = "from"
      BY <1>7, <1>8, <1>9, <1>14, <2>2 DEF WritesBoth, Writing, t
    <2>3. CASE side[w] = "to"
      <3>1. Certain(t) => t \in DOMAIN data'[Tx(w).from] /\ t \in DOMAIN data'[Tx(w).to]
        BY <1>4, <1>8, <1>9, <1>10, <2>1, <2>3 DEF Grow
      <3>2. QED BY <1>7, <1>14, <2>3, <3>1 DEF WritesBoth, Writing, t
    <2>4. QED BY <1>2, <2>2, <2>3
  <1>17. ASSUME NEW v \in Workers PROVE ViewExact(v)' /\ WritesBoth(v)'
    <2>1. CASE v = w
      BY <1>15, <1>16, <2>1
    <2>2. CASE v # w
      <3>1. Kept(v)
        BY <1>1, <1>2, <1>3, <2>2 DEF Kept
      <3>2. QED BY <1>10, <3>1, OthersFrame DEF VersionsInv
    <2>3. QED BY <2>1, <2>2
  <1>18. Unrun' = Unrun
    BY <1>1 DEF Unrun, Fresh, vars, shared, local
  <1>19. VersionsComplete'
    BY <1>1, <1>10, <1>18, CompleteFrame DEF VersionsInv
  <1>20. QED BY <1>12, <1>13, <1>17, <1>19 DEF VersionsInv

LEMMA VersionsReport ==
    ASSUME ExecInv, VersionsInv, NEW w \in Workers, Report(w)
    PROVE  VersionsInv'
  <1>1. /\ pc[w] = "execute" /\ stage[w] = "report"
        /\ stage' = [stage EXCEPT ![w] = "verify"]
        /\ view' = [view EXCEPT ![w] = NoView]
        /\ found' = [found EXCEPT ![w] = {}]
        /\ pc' = [pc EXCEPT ![w] = AbortNext(found[w])]
        /\ UNCHANGED <<mvVars, txs, counters, side, seen, task, ready_queue>>
    BY DEF Report, At, FinishExecution, Goto
  <1>2. AbortNext(found[w]) \in {"abort", "try_commit"}
    BY DEF AbortNext
  <1>3. /\ stage \in [Workers -> Stages] /\ view \in [Workers -> [Sides -> AccountStates]]
        /\ found \in [Workers -> SUBSET Txns] /\ pc \in [Workers -> Labels]
    BY DEF ExecInv, TraceInv, ExecTypes, IndInv, TypeOK
  <1>4. SameVersions /\ Grow
    BY <1>1 DEF SameVersions, Grow, mvVars
  <1>5. ASSUME NEW v \in Workers PROVE ViewExact(v)' /\ WritesBoth(v)'
    <2>1. CASE v = w
      <3>1. pc'[w] # "execute"
        BY <1>1, <1>2, <1>3
      <3>2. QED BY <2>1, <3>1 DEF ViewExact, WritesBoth
    <2>2. CASE v # w
      <3>1. Kept(v)
        BY <1>1, <1>3, <2>2 DEF Kept
      <3>2. QED BY <1>4, <3>1, OthersFrame DEF VersionsInv
    <2>3. QED BY <2>1, <2>2
  <1>6. VersionsComplete'
    <2> SUFFICES ASSUME NEW t \in Txns, t \notin Unrun', Certain(t),
                        NEW a \in {txs[t].from, txs[t].to}
                 PROVE  t \in DOMAIN data[a]
      BY <1>1
      DEF VersionsComplete, mvVars, Certain, Independent, Touches, Succeeds, Accepts,
          Genesis, Txns
    <2>1. CASE t \notin Unrun
      BY <2>1 DEF VersionsInv, VersionsComplete
    <2>2. CASE t \in Unrun
      <3>1. ~Fresh(t)
        BY <1>1 DEF Unrun, Fresh
      <3>2. PICK v \in Workers : pc[v] \in {"mark", "execute"} /\ task[v] = <<t, 0>>
        BY <2>2, <3>1 DEF Unrun
      <3>3. v = w
        <4>1. CASE v # w
          <5>1. pc'[v] = pc[v] /\ task'[v] = task[v]
            BY <1>1, <1>3, <4>1
          <5>2. QED BY <3>2, <5>1 DEF Unrun
        <4>2. QED BY <4>1
      <3>4. Idx(w) = t /\ Tx(w) = txs[t]
        BY <3>2, <3>3 DEF Idx, Tx
      <3>5. QED BY <1>1, <3>4 DEF VersionsInv, WritesBoth
    <2>3. QED BY <2>1, <2>2
  <1>7. QED BY <1>1, <1>4, <1>5, <1>6, ContentsFrame DEF VersionsInv

LEMMA VersionsInit == ExecInit => VersionsInv
  <1> SUFFICES ASSUME ExecInit PROVE VersionsInv
    OBVIOUS
  <1>1. \A a \in Addresses : DOMAIN data[a] = {}
    BY DEF ExecInit, ExecStart, MVInit
  <1>2. WritersTouch /\ StatesExact
    BY <1>1 DEF WritersTouch, StatesExact
  <1>3. \A w \in Workers : ViewExact(w) /\ WritesBoth(w)
    BY DEF ExecInit, ExecStart, Init, ViewExact, WritesBoth
  <1>4. ASSUME NEW t \in Txns PROVE t \in Unrun
    <2>1. t + 1 \in 1 .. Len(ready_queue) /\ ready_queue[t + 1] = <<t, 0>>
      BY InitiallyQueued DEF ExecInit, ExecStart
    <2>2. QED BY <2>1 DEF Unrun, Fresh
  <1>5. QED BY <1>2, <1>3, <1>4 DEF VersionsInv, VersionsComplete

LEMMA VersionsStep ==
    ASSUME ExecInv, VersionsInv, [ExecNext]_execVars
    PROVE  VersionsInv'
  <1>1. CASE UNCHANGED execVars
    <2>1. UNCHANGED <<txs, mvVars, pc, task, ready_queue, execLocal>>
      BY <1>1 DEF execVars, vars, shared, local
    <2>2. SameVersions /\ Grow
      BY <2>1 DEF SameVersions, Grow, mvVars
    <2>3. \A v \in Workers : ViewExact(v)' /\ WritesBoth(v)'
      BY <2>1, <2>2, OthersFrame DEF Kept, VersionsInv, execLocal
    <2>4. Unrun' = Unrun
      BY <2>1 DEF Unrun, Fresh
    <2>5. QED BY <2>1, <2>2, <2>3, <2>4, ContentsFrame, CompleteFrame DEF VersionsInv
  <1>2. ASSUME NEW w \in Workers, WorkerLoop(w) PROVE VersionsInv'
    BY <1>2, VersionsScheduler, VersionsVerify, VersionsRead, VersionsRecord,
       VersionsCollect, VersionsWrite, VersionsReport
    DEF WorkerLoop, ExecuteStep
  <1>3. QED BY <1>1, <1>2 DEF ExecNext, ExecTerminated

\* However its executions interleave with others', a transaction that shares no
\* account with a lower one writes exactly what the ordered execution writes,
\* and both versions are there when the workers have been joined.
THEOREM IndependentIsExact ==
    ASSUME Workers # {}
    PROVE  ExecSpec => []IndependentExact
  <1>1. ExecInv /\ VersionsInv => IndependentExact
    <2> SUFFICES ASSUME ExecInv, VersionsInv, NEW t \in Txns, NEW a \in Addresses,
                        Touches(t, a), Independent(t), txs[t].signed
                 PROVE  /\ t \in DOMAIN data[a] =>
                              data[a][t].state = LedgerAfter(txs, t + 1)[a]
                        /\ Joined /\ Succeeds(txs[t], Genesis) => t \in DOMAIN data[a]
      BY DEF IndependentExact, Independent
    <2>1. t \in DOMAIN data[a] => data[a][t].state = LedgerAfter(txs, t + 1)[a]
      BY IndependentLedger DEF VersionsInv, StatesExact
    <2>2. ASSUME Joined, Succeeds(txs[t], Genesis) PROVE t \in DOMAIN data[a]
      <3>1. committed_idx = NumTxns
        BY <2>2 DEF ExecInv, IndInv, DoneSound, Joined
      <3>2. ~Fresh(t)
        BY <3>1, NumTxnsAssumption DEF ExecInv, IndInv, CommittedStarted, Txns
      <3>3. t \notin Unrun
        BY <2>2, <3>2 DEF Unrun, Joined
      <3>4. QED BY <2>2, <3>3 DEF VersionsInv, VersionsComplete, Certain, Touches
    <2>3. QED BY <2>1, <2>2
  <1>2. ExecInit => ExecInv /\ VersionsInv
    BY ExecInvInit, VersionsInit
  <1>3. ExecInv /\ VersionsInv /\ [ExecNext]_execVars => ExecInv' /\ VersionsInv'
    BY ExecInvStep, VersionsStep
  <1>4. QED BY <1>1, <1>2, <1>3, PTL DEF ExecSpec

-----------------------------------------------------------------------------
(* Any number of workers: the accounts on which no transactions meet.         *)

\* The final state of an uncontended account.
LEMMA UncontendedAccount ==
    ASSUME ExecInv, VersionsInv, IndependentExact, Joined,
           NEW a \in Addresses, Uncontended(a)
    PROVE  (IF a \in Written THEN FinalDb[a] ELSE Genesis[a]) = LedgerAfter(txs, NumTxns)[a]
  <1> DEFINE L == LedgerAfter(txs, NumTxns)
  <1>1. WellFormed(txs, NumTxns) /\ MVTypeOK(Txns)
    BY DEF ExecInv, TraceInv, ExecTypes
  <1>2. \A u, t \in Txns : Touches(u, a) /\ Touches(t, a) => u = t
    <2> SUFFICES ASSUME NEW u \in Txns, NEW t \in Txns, u < t, Touches(u, a), Touches(t, a)
                 PROVE  FALSE
      BY DEF Txns
    <2>1. u \in 0 .. t - 1
      BY NumTxnsAssumption DEF Txns
    <2>2. QED BY <2>1 DEF Uncontended, Independent
  <1>3. DOMAIN data[a] \subseteq {t \in Txns : Touches(t, a)}
    BY <1>1 DEF VersionsInv, WritersTouch, MVTypeOK
  <1>4. CASE \A t \in Txns : ~Touches(t, a)
    <2>1. L[a] = Genesis[a]
      BY <1>1, <1>4, LedgerUntouched, NumTxnsAssumption DEF Touches, Txns
    <2>2. a \notin Written
      BY <1>3, <1>4 DEF Written
    <2>3. QED BY <2>1, <2>2
  <1>5. ASSUME NEW t \in Txns, Touches(t, a)
        PROVE  (IF a \in Written THEN FinalDb[a] ELSE Genesis[a]) = L[a]
    <2>1. DOMAIN data[a] \subseteq {t}
      BY <1>2, <1>3, <1>5
    <2>2. /\ t \in 0 .. NumTxns - 1 /\ t \in Nat /\ t + 1 \in 0 .. NumTxns
          /\ NumTxns \in 0 .. NumTxns /\ t \in 0 .. NumTxns /\ t + 1 \in 0 .. NumTxns
      BY NumTxnsAssumption DEF Txns
    <2>3. L[a] = LedgerAfter(txs, t + 1)[a]
      <3>1. \A u \in t + 1 .. NumTxns - 1 : a \notin {txs[u].from, txs[u].to}
        BY <1>2, <1>5, <2>2 DEF Touches, Txns
      <3>2. QED BY <1>1, <2>2, <3>1, LedgerStable, NumTxnsAssumption
    <2>4. LedgerAfter(txs, t + 1)[a] = Apply(txs[t], Genesis)[a]
      BY <1>5, IndependentLedger DEF Uncontended
    <2>5. CASE t \in DOMAIN data[a]
      <3>1. DOMAIN data[a] = {t} /\ a \in Written
        BY <2>1, <2>5 DEF Written
      <3>2. (CHOOSE u \in DOMAIN data[a] : \A v \in DOMAIN data[a] : v <= u) = t
        BY <2>2, <3>1
      <3>3. FinalDb[a] = data[a][t].state
        BY <3>1, <3>2 DEF FinalDb, CommittedStates
      <3>4. data[a][t].state = Apply(txs[t], Genesis)[a]
        BY <1>5, <2>5 DEF VersionsInv, StatesExact, Uncontended
      <3>5. QED BY <2>3, <2>4, <3>1, <3>3, <3>4
    <2>6. CASE t \notin DOMAIN data[a]
      <3>1. a \notin Written
        BY <2>1, <2>6 DEF Written
      <3>2. ~Succeeds(txs[t], Genesis)
        BY <1>5, <2>6 DEF IndependentExact, Uncontended, Succeeds
      <3>3. QED BY <2>3, <2>4, <3>1, <3>2 DEF Apply
    <2>7. QED BY <2>5, <2>6
  <1>6. QED BY <1>4, <1>5

\* However many threads execute the block and however they interleave, an account
\* that no two transactions share, directly or through a transaction on it, ends in
\* its state of the execution one transaction at a time, and is in the database
\* only if it has been written: what the executor gets wrong takes a conflict.
THEOREM UncontendedIsExact ==
    ASSUME Workers # {}
    PROVE  ExecSpec => [](\A a \in Addresses :
              Joined /\ Uncontended(a) => FinalLedger[a] = LedgerAfter(txs, NumTxns)[a])
  <1> DEFINE Goal == \A a \in Addresses :
        Joined /\ Uncontended(a) => FinalLedger[a] = LedgerAfter(txs, NumTxns)[a]
  <1>1. ExecInv /\ VersionsInv /\ IndependentExact => Goal
    BY UncontendedAccount DEF FinalLedger
  <1> HIDE DEF Goal
  <1>2. ExecInit => ExecInv /\ VersionsInv
    BY ExecInvInit, VersionsInit
  <1>3. ExecInv /\ VersionsInv /\ [ExecNext]_execVars => ExecInv' /\ VersionsInv'
    BY ExecInvStep, VersionsStep
  <1>4. ExecSpec => []Goal
    BY <1>1, <1>2, <1>3, IndependentIsExact, PTL DEF ExecSpec
  <1>5. QED BY <1>4 DEF Goal

\* Accounts no transaction of the block touches are never in the database.
LEMMA UntouchedNotWritten ==
    ASSUME VersionsInv, NEW a \in Addresses, \A t \in Txns : ~Touches(t, a), ExecInv
    PROVE  a \notin Written
  <1>1. DOMAIN data[a] \subseteq Txns
    BY DEF ExecInv, TraceInv, ExecTypes, MVTypeOK
  <1>2. QED BY <1>1 DEF VersionsInv, WritersTouch, Written

-----------------------------------------------------------------------------
(* One worker: the block is executed in order.                                *)

\* With one worker: the transactions popped so far, and those executed.
Popped == NumTxns - Len(ready_queue)
Reached(w) == IF pc[w] \in {"mark", "execute"} THEN Popped - 1 ELSE Popped

\* The queue is what is left of the first incarnations, and nothing is aborted.
InOrder(w) ==
    /\ Popped \in 0 .. NumTxns
    /\ \A n \in 1 .. Len(ready_queue) : ready_queue[n] = <<Popped + n - 1, 0>>
    /\ pc[w] \in {"mark", "execute"} => Popped > 0 /\ task[w] = <<Popped - 1, 0>>
    /\ pc[w] \notin {"abort", "requeue"}
    /\ invalidated[w] = {} /\ found[w] = {}

\* Nobody above the transactions popped has read.
NoneAhead ==
    \A a \in Addresses :
        /\ storage_readers[a] \subseteq 0 .. Popped - 1
        /\ \A u \in DOMAIN data[a] : data[a][u].readers \subseteq 0 .. Popped - 1

\* The accounts the execution under way has written.
WrittenBy(w) ==
    IF pc[w] # "execute" THEN {}
    ELSE IF side[w] = "to" /\ stage[w] \in Writing THEN {Tx(w).from}
    ELSE IF stage[w] = "report" /\ Succeeds(Tx(w), LedgerAfter(txs, Idx(w)))
    THEN {Tx(w).from, Tx(w).to}
    ELSE {}

\* Below t the last of the versions is s, or there is none and storage has s.
Latest(versions, stored, t, s) ==
    \/ s = stored /\ \A u \in DOMAIN versions : u >= t
    \/ \E u \in DOMAIN versions :
          /\ u < t /\ s = versions[u].state
          /\ \A v \in DOMAIN versions : v < t => v <= u

\* The versions are those of the ordered execution as far as it has come, and
\* of the transaction under way what it has written.
MapExact(w) ==
    \A a \in Addresses :
        /\ Latest(data[a], Genesis[a], Reached(w), LedgerAfter(txs, Reached(w))[a])
        /\ \A u \in DOMAIN data[a] : u < Reached(w) \/ (u = Reached(w) /\ a \in WrittenBy(w))
        /\ a \in WrittenBy(w) =>
              /\ Reached(w) \in DOMAIN data[a]
              /\ data[a][Reached(w)].state = LedgerAfter(txs, Reached(w) + 1)[a]

\* What the transaction under way has read is the ledger before it.
ViewOrdered(w) ==
    pc[w] = "execute" =>
        /\ side[w] = "to" \/ stage[w] \in Writing \cup {"record"} =>
              view[w]["from"] = LedgerAfter(txs, Idx(w))[Tx(w).from]
        /\ stage[w] \in Writing \/ (side[w] = "to" /\ stage[w] = "record") =>
              view[w]["to"] = LedgerAfter(txs, Idx(w))[Tx(w).to]

AloneInv(w) == InOrder(w) /\ NoneAhead /\ MapExact(w) /\ ViewOrdered(w)

\* What a read returns is the latest version below the reader.
LEMMA LatestIsRead ==
    ASSUME MVTypeOK(Txns), NEW a \in Addresses, NEW t \in Nat, NEW s,
           Latest(data[a], Genesis[a], t, s)
    PROVE  StateOf(a, ReadVersion(a, t)) = s
  <1>1. DOMAIN data[a] \subseteq Nat
    BY DEF MVTypeOK, Txns
  <1>2. CASE s = Genesis[a] /\ \A u \in DOMAIN data[a] : u >= t
    <2>1. Previous(a, t) = {}
      BY <1>1, <1>2 DEF Previous
    <2>2. QED BY <1>2, <2>1 DEF ReadVersion, StateOf
  <1>3. ASSUME NEW u \in DOMAIN data[a], u < t, s = data[a][u].state,
               \A v \in DOMAIN data[a] : v < t => v <= u
        PROVE  StateOf(a, ReadVersion(a, t)) = s
    <2>1. Previous(a, t) = {u}
      BY <1>1, <1>3 DEF Previous
    <2>2. (CHOOSE v \in Previous(a, t) : TRUE) = u
      BY <2>1
    <2>3. ReadVersion(a, t) = <<u, data[a][u].incarnation>>
      BY <2>1, <2>2 DEF ReadVersion
    <2>4. QED BY <1>3, <2>3 DEF StateOf, Storage
  <1>4. QED BY <1>2, <1>3 DEF Latest

\* Where the only worker is in the block.
LEMMA ReachedFacts ==
    ASSUME ExecInv, NEW w \in Workers, AloneInv(w)
    PROVE  /\ Reached(w) \in 0 .. NumTxns /\ Popped \in 0 .. NumTxns
           /\ LedgerAfter(txs, Reached(w)) \in [Addresses -> AccountStates]
           /\ pc[w] = "execute" =>
                 /\ Reached(w) = Idx(w) /\ Idx(w) \in 0 .. NumTxns - 1
                 /\ Idx(w) = Popped - 1
                 /\ LedgerAfter(txs, Idx(w) + 1) = Apply(Tx(w), LedgerAfter(txs, Idx(w)))
  <1>1. /\ Popped \in 0 .. NumTxns
        /\ pc[w] \in {"mark", "execute"} => Popped > 0 /\ task[w] = <<Popped - 1, 0>>
    BY DEF AloneInv, InOrder
  <1>2. Reached(w) \in 0 .. NumTxns
    BY <1>1, NumTxnsAssumption DEF Reached
  <1>3. WellFormed(txs, NumTxns)
    BY DEF ExecInv, TraceInv, ExecTypes
  <1>4. LedgerAfter(txs, Reached(w)) \in [Addresses -> AccountStates]
    BY <1>2, <1>3, LedgerTyped, NumTxnsAssumption
  <1>5. ASSUME pc[w] = "execute"
        PROVE  /\ Reached(w) = Idx(w) /\ Idx(w) \in 0 .. NumTxns - 1
               /\ Idx(w) = Popped - 1
               /\ LedgerAfter(txs, Idx(w) + 1) = Apply(Tx(w), LedgerAfter(txs, Idx(w)))
    <2>1. Reached(w) = Idx(w) /\ Idx(w) = Popped - 1 /\ Idx(w) \in 0 .. NumTxns - 1
      BY <1>1, <1>5, NumTxnsAssumption DEF Reached, Idx
    <2>2. Idx(w) \in Nat
      BY <2>1
    <2>3. QED BY <2>1, <2>2, LedgerAfterNext DEF Tx
  <1>6. QED BY <1>1, <1>2, <1>4, <1>5

\* The parts of the invariant that follow from what a step leaves alone.
LEMMA OrderFrame ==
    ASSUME NEW w \in Workers, InOrder(w), UNCHANGED <<ready_queue, pc, task, invalidated>>,
           found'[w] = {}
    PROVE  InOrder(w)' /\ Reached(w)' = Reached(w) /\ Popped' = Popped /\ Idx(w)' = Idx(w)
  BY DEF InOrder, Reached, Popped, Idx

LEMMA MapFrameAlone ==
    ASSUME NEW w \in Workers, MapExact(w), SameVersions, UNCHANGED txs,
           Reached(w)' = Reached(w), WrittenBy(w)' = WrittenBy(w)
    PROVE  MapExact(w)'
  <1> DEFINE k == Reached(w)
             L == LedgerAfter(txs, k)
             M == LedgerAfter(txs, k + 1)
  <1>1. LedgerAfter(txs, Reached(w))' = L /\ LedgerAfter(txs, Reached(w) + 1)' = M
    BY DEF LedgerAfter, Apply, Succeeds, Accepts, Debit, Credit, Genesis
  <1> HIDE DEF k, L, M
  <1>2. QED BY <1>1 DEF MapExact, SameVersions, Latest, k, L, M, Genesis

\* Between executions: only popping and marking matter to the invariant.
LEMMA AloneScheduler ==
    ASSUME ExecInv, NEW w \in Workers, AloneInv(w), SchedulerStep(w),
           UNCHANGED <<mvVars, txs, counters, execLocal>>
    PROVE  AloneInv(w)'
  <1> USE DEF Goto, shared, locks, local, execLocal
  <1>1. /\ pc \in [Workers -> Labels] /\ ready_queue \in Seq(Tasks)
        /\ task \in [Workers -> Tasks \cup {NoTask}]
        /\ invalidated \in [Workers -> SUBSET Txns]
    BY DEF ExecInv, IndInv, TypeOK
  <1>2. SameVersions /\ UNCHANGED <<data, storage_readers>>
    BY DEF SameVersions, mvVars
  <1>3. pc[w] # "execute"
    BY SchedulerStepFrame DEF ExecInv
  <1>4. stage[w] = "verify" /\ side[w] = "from"
    BY <1>3 DEF ExecInv, TraceInv, LocalInv, Clean
  <1>5. WrittenBy(w) = {} /\ WrittenBy(w)' = {}
    BY <1>3, <1>4 DEF WrittenBy, Writing
  <1>6. ViewOrdered(w)'
    BY <1>4 DEF ViewOrdered, Writing
  <1>7. InOrder(w)' /\ Reached(w)' = Reached(w) /\ Popped' \in {Popped, Popped + 1}
    <2>1. InOrder(w) /\ Popped \in 0 .. NumTxns
      BY DEF AloneInv, InOrder
    <2>2. CASE PopTask(w)
      <3>1. /\ pc[w] = "lock_queue" /\ ready_queue # <<>>
            /\ pc'[w] = "mark" /\ task'[w] = Head(ready_queue)
            /\ ready_queue' = Tail(ready_queue)
            /\ UNCHANGED <<invalidated, found>>
        BY <1>1, <2>2 DEF PopTask
      <3>2. /\ Len(ready_queue) \in Nat /\ Len(ready_queue) > 0
            /\ Len(ready_queue') = Len(ready_queue) - 1
            /\ Head(ready_queue) = ready_queue[1]
            /\ \A n \in 1 .. Len(ready_queue') : ready_queue'[n] = ready_queue[n + 1]
        BY <1>1, <3>1
      <3>3. Popped' = Popped + 1 /\ Popped' <= NumTxns
        BY <2>1, <3>2, NumTxnsAssumption DEF Popped
      <3>4. \A n \in 1 .. Len(ready_queue') : ready_queue'[n] = <<Popped' + n - 1, 0>>
        <4> SUFFICES ASSUME NEW n \in 1 .. Len(ready_queue')
                     PROVE  ready_queue'[n] = <<Popped' + n - 1, 0>>
          OBVIOUS
        <4>1. n + 1 \in 1 .. Len(ready_queue) /\ Popped' + n - 1 = Popped + (n + 1) - 1
          BY <2>1, <3>2, <3>3
        <4>2. ready_queue[n + 1] = <<Popped + (n + 1) - 1, 0>>
          BY <2>1, <4>1 DEF InOrder
        <4>3. QED BY <3>2, <4>1, <4>2
      <3>5. task'[w] = <<Popped' - 1, 0>>
        <4>1. ready_queue[1] = <<Popped + 1 - 1, 0>>
          BY <2>1, <3>2 DEF InOrder
        <4>2. QED BY <2>1, <3>1, <3>2, <3>3, <4>1
      <3>6. Reached(w)' = Reached(w)
        BY <2>1, <3>1, <3>3 DEF Reached
      <3>7. InOrder(w)'
        BY <2>1, <3>1, <3>3, <3>4, <3>5 DEF InOrder
      <3>8. QED BY <3>3, <3>6, <3>7
    <2>3. CASE MarkExecuting(w)
      <3>1. /\ pc[w] = "mark" /\ pc'[w] = "execute"
            /\ UNCHANGED <<ready_queue, task, invalidated, found>>
        BY <1>1, <2>3 DEF MarkExecuting
      <3>2. QED BY <2>1, <3>1 DEF InOrder, Reached, Popped
    <2>4. CASE ~PopTask(w) /\ ~MarkExecuting(w)
      <3>1. pc[w] \notin {"abort", "requeue"}
        BY <2>1 DEF InOrder
      <3>2. /\ pc[w] # "mark" /\ pc'[w] \notin {"mark", "execute", "abort", "requeue"}
            /\ UNCHANGED <<ready_queue, invalidated, found>>
        BY <1>1, <2>4, <3>1
        DEF SchedulerStep, NextTask, QueueEmpty, CheckCommitted, AbortLock, AbortSkip,
            AbortRequeue, TryCommit, SkipCommit, Inspect, CommitTransaction,
            StoreCommitted, ReleaseCommit, PopTask, MarkExecuting
      <3>3. QED BY <1>3, <2>1, <3>2 DEF InOrder, Reached, Popped
    <2>5. QED BY <2>2, <2>3, <2>4
  <1>8. NoneAhead'
    <2>1. 0 .. Popped - 1 \subseteq 0 .. Popped' - 1
      BY <1>7 DEF AloneInv, InOrder
    <2>2. QED BY <1>2, <2>1 DEF AloneInv, NoneAhead
  <1>9. MapExact(w)'
    BY <1>2, <1>5, <1>7, MapFrameAlone DEF AloneInv
  <1>10. QED BY <1>6, <1>7, <1>8, <1>9 DEF AloneInv

\* The execution under way succeeds exactly if the ledger before it says so.
LEMMA SuccessKnown ==
    ASSUME ExecInv, NEW w \in Workers, AloneInv(w), pc[w] = "execute",
           side[w] = "to" \/ stage[w] \in Writing
    PROVE  Succeeds(Tx(w), LedgerAfter(txs, Idx(w)))
  <1>1. Accepts(Tx(w), view[w]["from"])
    BY DEF ExecInv, TraceInv, LocalInv, Established
  <1>2. stage[w] \notin {"verify", "report"}
    BY DEF ExecInv, TraceInv, LocalInv, Established, Writing
  <1>3. Tx(w).signed
    BY <1>2 DEF ExecInv, TraceInv, LocalInv, Established
  <1>4. view[w]["from"] = LedgerAfter(txs, Idx(w))[Tx(w).from]
    BY DEF AloneInv, ViewOrdered
  <1>5. QED BY <1>1, <1>3, <1>4 DEF Succeeds

\* Steps of an execution that write nothing and find nothing.
LEMMA AloneQuiet ==
    ASSUME ExecInv, NEW w \in Workers, AloneInv(w), pc[w] = "execute",
           UNCHANGED <<vars, txs>>, SameVersions, found'[w] = {}, NoneAhead',
           ViewOrdered(w)', WrittenBy(w)' = WrittenBy(w)
    PROVE  AloneInv(w)'
  <1>1. InOrder(w)' /\ Reached(w)' = Reached(w)
    BY OrderFrame DEF AloneInv, vars, shared, local
  <1>2. MapExact(w)'
    BY <1>1, MapFrameAlone DEF AloneInv
  <1>3. QED BY <1>1, <1>2 DEF AloneInv

\* What a step of an execution leaves alone.
LEMMA ExecuteFrame ==
    ASSUME NEW w \in Workers, UNCHANGED <<vars, txs>>
    PROVE  /\ pc'[w] = pc[w] /\ Idx(w)' = Idx(w) /\ Tx(w)' = Tx(w) /\ Popped' = Popped
           /\ LedgerAfter(txs, Idx(w))' = LedgerAfter(txs, Idx(w))
           /\ LedgerAfter(txs, Idx(w) + 1)' = LedgerAfter(txs, Idx(w) + 1)
           /\ Succeeds(Tx(w), LedgerAfter(txs, Idx(w)))'
                = Succeeds(Tx(w), LedgerAfter(txs, Idx(w)))
  <1>1. UNCHANGED <<pc, task, ready_queue>>
    BY DEF vars, shared, local
  <1>2. Idx(w)' = Idx(w) /\ Tx(w)' = Tx(w) /\ Popped' = Popped
    BY <1>1 DEF Idx, Tx, Popped
  <1>3. /\ LedgerAfter(txs, Idx(w))' = LedgerAfter(txs, Idx(w))
        /\ LedgerAfter(txs, Idx(w) + 1)' = LedgerAfter(txs, Idx(w) + 1)
    BY <1>2 DEF LedgerAfter, Apply, Succeeds, Accepts, Debit, Credit, Genesis
  <1>4. Succeeds(Tx(w), LedgerAfter(txs, Idx(w)))'
          = Succeeds(Tx(w), LedgerAfter(txs, Idx(w)))
    BY <1>2, <1>3 DEF Succeeds, Accepts
  <1>5. QED BY <1>1, <1>2, <1>3, <1>4

LEMMA AloneVerify ==
    ASSUME ExecInv, NEW w \in Workers, AloneInv(w), VerifySignature(w)
    PROVE  AloneInv(w)'
  <1>1. /\ pc[w] = "execute" /\ stage[w] = "verify"
        /\ stage' = [stage EXCEPT ![w] = IF Tx(w).signed THEN "read" ELSE "report"]
        /\ UNCHANGED <<vars, mvVars, txs, side, seen, view, found>>
    BY DEF VerifySignature, At, GotoStage, AfterVerify
  <1>2. side[w] = "from" /\ stage \in [Workers -> Stages]
    BY <1>1 DEF ExecInv, TraceInv, LocalInv, Established, ExecTypes
  <1>3. pc'[w] = pc[w] /\ Popped' = Popped
        /\ Succeeds(Tx(w), LedgerAfter(txs, Idx(w)))' = Succeeds(Tx(w), LedgerAfter(txs, Idx(w)))
    BY <1>1, ExecuteFrame
  <1>4. stage'[w] = "read" \/ (stage'[w] = "report" /\ ~Tx(w).signed)
    BY <1>1, <1>2
  <1>5. WrittenBy(w) = {}
    BY <1>1, <1>2 DEF WrittenBy
  <1>6. WrittenBy(w)' = {}
    <2>1. ~Tx(w).signed => ~Succeeds(Tx(w), LedgerAfter(txs, Idx(w)))
      BY DEF Succeeds
    <2>2. QED BY <1>1, <1>2, <1>3, <1>4, <2>1 DEF WrittenBy
  <1>7. ViewOrdered(w)'
    BY <1>1, <1>2, <1>4 DEF ViewOrdered, Writing
  <1>8. SameVersions /\ NoneAhead' /\ found'[w] = {}
    BY <1>1, <1>3 DEF AloneInv, SameVersions, NoneAhead, InOrder, mvVars
  <1>9. QED BY <1>1, <1>5, <1>6, <1>7, <1>8, AloneQuiet

LEMMA AloneRead ==
    ASSUME ExecInv, NEW w \in Workers, AloneInv(w), ReadAccount(w)
    PROVE  AloneInv(w)'
  <1> DEFINE before == LedgerAfter(txs, Idx(w))
  <1>1. /\ pc[w] = "execute" /\ stage[w] = "read"
        /\ view' = [view EXCEPT ![w][side[w]] =
                       StateOf(Addr(w), ReadVersion(Addr(w), Idx(w)))]
        /\ stage' = [stage EXCEPT ![w] = "record"]
        /\ UNCHANGED <<vars, mvVars, txs, counters, side, found>>
    BY DEF ReadAccount, At, GotoStage
  <1>2. /\ Addr(w) \in Addresses /\ side[w] \in {"from", "to"}
        /\ Addr(w) = IF side[w] = "from" THEN Tx(w).from ELSE Tx(w).to
    BY <1>1, ExecutingFacts DEF Sides, Addr
  <1>3. StateOf(Addr(w), ReadVersion(Addr(w), Idx(w))) = before[Addr(w)]
    <2>1. Reached(w) = Idx(w) /\ Idx(w) \in Nat
      BY <1>1, ReachedFacts
    <2>2. Latest(data[Addr(w)], Genesis[Addr(w)], Idx(w), before[Addr(w)])
      BY <1>2, <2>1 DEF AloneInv, MapExact
    <2>3. QED BY <1>2, <2>1, <2>2, LatestIsRead DEF ExecInv, TraceInv, ExecTypes
  <1>4. /\ pc'[w] = pc[w] /\ Popped' = Popped /\ before' = before
        /\ Tx(w)' = Tx(w) /\ Idx(w)' = Idx(w)
    BY <1>1, ExecuteFrame
  <1> HIDE DEF before
  <1>5. stage'[w] = "record" /\ side'[w] = side[w]
    BY <1>1 DEF ExecInv, TraceInv, ExecTypes
  <1>6. /\ view'[w][side[w]] = before[Addr(w)]
        /\ side[w] = "to" => view'[w]["from"] = view[w]["from"]
    BY <1>1, <1>2, <1>3 DEF ExecInv, TraceInv, ExecTypes, Sides
  <1>7. ViewOrdered(w)'
    <2>1. side[w] = "to" => view[w]["from"] = before[Tx(w).from]
      BY <1>1 DEF AloneInv, ViewOrdered, before
    <2>2. /\ view'[w]["from"] = before'[Tx(w)'.from]
          /\ side'[w] = "to" => view'[w]["to"] = before'[Tx(w)'.to]
      BY <1>2, <1>4, <1>5, <1>6, <2>1
    <2>3. QED BY <1>5, <2>2 DEF ViewOrdered, Writing, before
  <1>8. WrittenBy(w) = {} /\ WrittenBy(w)' = {}
    BY <1>1, <1>5 DEF WrittenBy, Writing
  <1>9. SameVersions /\ NoneAhead' /\ found'[w] = {}
    BY <1>1, <1>4 DEF AloneInv, SameVersions, NoneAhead, InOrder, mvVars
  <1>10. QED BY <1>1, <1>7, <1>8, <1>9, AloneQuiet

LEMMA AloneRecord ==
    ASSUME ExecInv, NEW w \in Workers, AloneInv(w), RecordAccess(w)
    PROVE  AloneInv(w)'
  <1> DEFINE a == Addr(w)
             t == Idx(w)
             before == LedgerAfter(txs, Idx(w))
  <1>1. /\ pc[w] = "execute" /\ stage[w] = "record"
        /\ stage' = [stage EXCEPT ![w] = AfterRead(w)]
        /\ side' = [side EXCEPT ![w] = IF AfterRead(w) = "read" THEN "to" ELSE "from"]
        /\ UNCHANGED <<vars, txs, counters, view, found>>
    BY DEF RecordAccess, At, GotoStage
  <1>2. /\ t \in Txns /\ a \in Addresses /\ side[w] \in {"from", "to"}
    BY <1>1, ExecutingFacts DEF Sides
  <1>3. /\ MVTypeOK(Txns) /\ seen[w] \in Tasks \cup {Storage}
        /\ stage \in [Workers -> Stages] /\ side \in [Workers -> Sides]
    BY DEF ExecInv, TraceInv, ExecTypes
  <1>4. t \in 0 .. Popped - 1
    BY <1>1, ReachedFacts
  <1>5. Popped' = Popped /\ before' = before /\ Tx(w)' = Tx(w) /\ Idx(w)' = Idx(w)
        /\ pc'[w] = pc[w] /\ Succeeds(Tx(w), before)' = Succeeds(Tx(w), before)
    BY <1>1, ExecuteFrame
  <1>6. SameVersions /\ NoneAhead'
    <2> HIDE DEF a, t
    <2>1. NoneAhead
      BY DEF AloneInv
    <2>2. CASE seen[w] = Storage /\ RecordStorageRead(a, t)
      <3>1. /\ UNCHANGED data
            /\ \A b \in Addresses : storage_readers'[b] \subseteq storage_readers[b] \cup {t}
        BY <1>2, <1>3, <2>2 DEF RecordStorageRead, MVTypeOK
      <3>2. QED BY <1>4, <1>5, <2>1, <3>1 DEF SameVersions, NoneAhead
    <2>3. CASE seen[w] # Storage /\ RecordRead(a, t, seen[w])
      <3>1. seen[w] \in Tasks
        BY <1>3, <2>3
      <3>2. /\ UNCHANGED storage_readers
            /\ \A b \in Addresses :
                 /\ DOMAIN data'[b] = DOMAIN data[b]
                 /\ \A u \in DOMAIN data[b] :
                       /\ data'[b][u].state = data[b][u].state
                       /\ data'[b][u].readers \subseteq data[b][u].readers \cup {t}
        BY <1>2, <1>3, <2>3, <3>1, RecordReadEffect
      <3>3. QED BY <1>4, <1>5, <2>1, <3>2 DEF SameVersions, NoneAhead
    <2>4. QED BY <2>2, <2>3 DEF RecordAccess, a, t
  <1>7. /\ stage'[w] = AfterRead(w) /\ view'[w] = view[w]
        /\ side'[w] = IF AfterRead(w) = "read" THEN "to" ELSE "from"
    BY <1>1, <1>3
  <1>8. /\ view[w]["from"] = before[Tx(w).from]
        /\ side[w] = "to" => view[w]["to"] = before[Tx(w).to]
    BY <1>1 DEF AloneInv, ViewOrdered
  <1>9. Tx(w).signed
    BY <1>1 DEF ExecInv, TraceInv, LocalInv, Established
  <1>10. AfterRead(w) = "report" => ~Succeeds(Tx(w), before)
    BY <1>8, <1>9 DEF AfterRead, Succeeds
  <1>11. /\ AfterRead(w) \in {"lower", "read", "report"}
         /\ AfterRead(w) = "lower" => side[w] = "to"
    BY DEF AfterRead
  <1> HIDE DEF before
  <1>12. ViewOrdered(w)'
    <2>1. /\ view'[w]["from"] = before'[Tx(w)'.from]
          /\ stage'[w] = "lower" => view'[w]["to"] = before'[Tx(w)'.to]
      BY <1>5, <1>7, <1>8, <1>11
    <2>2. stage'[w] \in {"lower", "read", "report"}
      BY <1>7, <1>11
    <2>3. QED BY <2>1, <2>2 DEF ViewOrdered, Writing, before
  <1>13. WrittenBy(w) = {}
    BY <1>1 DEF WrittenBy, Writing
  <1>14. WrittenBy(w)' = {}
    BY <1>1, <1>5, <1>7, <1>10, <1>11 DEF WrittenBy, Writing, before
  <1>15. found'[w] = {}
    BY <1>1 DEF AloneInv, InOrder
  <1>16. QED BY <1>1, <1>6, <1>12, <1>13, <1>14, <1>15, AloneQuiet

\* Nobody above the transaction under way has read what it writes.
LEMMA AloneCollect ==
    ASSUME ExecInv, NEW w \in Workers, AloneInv(w),
           CheckLower(w) \/ CollectStorageReaders(w)
    PROVE  AloneInv(w)'
  <1>1. /\ pc[w] = "execute" /\ stage[w] \in Writing
        /\ \E l \in Writing : stage' = [stage EXCEPT ![w] = l]
        /\ \/ UNCHANGED found
           \/ found' = [found EXCEPT ![w] = @ \cup StorageReadersAbove(Addr(w), Idx(w))]
        /\ UNCHANGED <<vars, mvVars, txs, side, seen, view>>
    BY DEF CheckLower, CollectStorageReaders, At, GotoStage, Writing
  <1>2. stage'[w] \in Writing /\ found \in [Workers -> SUBSET Txns] /\ found[w] = {}
    BY <1>1 DEF ExecInv, TraceInv, ExecTypes, AloneInv, InOrder
  <1>3. /\ pc'[w] = pc[w] /\ Popped' = Popped /\ Idx(w)' = Idx(w) /\ Tx(w)' = Tx(w)
        /\ LedgerAfter(txs, Idx(w))' = LedgerAfter(txs, Idx(w))
    BY <1>1, ExecuteFrame
  <1>4. StorageReadersAbove(Addr(w), Idx(w)) = {}
    <2>1. Addr(w) \in Addresses /\ Idx(w) = Popped - 1 /\ Popped \in Nat
      BY <1>1, ExecutingFacts, ReachedFacts
    <2>2. storage_readers[Addr(w)] \subseteq 0 .. Popped - 1
      BY <2>1 DEF AloneInv, NoneAhead
    <2>3. QED BY <2>1, <2>2 DEF StorageReadersAbove
  <1>5. found'[w] = {}
    BY <1>1, <1>2, <1>4
  <1>6. ViewOrdered(w)'
    BY <1>1, <1>2, <1>3 DEF AloneInv, ViewOrdered
  <1>7. WrittenBy(w)' = WrittenBy(w)
    BY <1>1, <1>2, <1>3 DEF WrittenBy, Writing
  <1>8. SameVersions /\ NoneAhead'
    BY <1>1, <1>3 DEF AloneInv, SameVersions, NoneAhead, mvVars
  <1>9. QED BY <1>1, <1>5, <1>6, <1>7, <1>8, AloneQuiet

\* What is written is what the ordered execution makes of the account.
LEMMA AloneNewState ==
    ASSUME ExecInv, NEW w \in Workers, AloneInv(w), pc[w] = "execute", stage[w] \in Writing
    PROVE  NewState(w) = LedgerAfter(txs, Idx(w) + 1)[Addr(w)]
  <1> DEFINE before == LedgerAfter(txs, Idx(w))
             tx == Tx(w)
  <1>1. /\ before \in [Addresses -> AccountStates]
        /\ LedgerAfter(txs, Idx(w) + 1) = Apply(tx, before)
    BY ReachedFacts
  <1>2. Succeeds(tx, before)
    BY SuccessKnown
  <1>3. /\ tx \in SignedTransactions /\ tx.from # tx.to /\ side[w] \in {"from", "to"}
        /\ Addr(w) = tx[side[w]]
    BY ExecutingFacts DEF Sides, Addr
  <1>4. /\ view[w]["from"] = before[tx.from]
        /\ view[w]["to"] = before[tx.to]
    BY DEF AloneInv, ViewOrdered
  <1>5. NewState(w) = IF side[w] = "from" THEN Debit(tx, before[tx.from])
                      ELSE Credit(tx, before[tx.to])
    BY <1>4 DEF NewState
  <1> HIDE DEF before, tx
  <1>6. /\ Apply(tx, before)[tx.from] = Debit(tx, before[tx.from])
        /\ Apply(tx, before)[tx.to] = Credit(tx, before[tx.to])
    BY <1>1, <1>2, <1>3, ApplyTyped
  <1>7. QED BY <1>1, <1>3, <1>5, <1>6

LEMMA AloneWrite ==
    ASSUME ExecInv, NEW w \in Workers, AloneInv(w), WriteVersion(w)
    PROVE  AloneInv(w)'
  <1> DEFINE a == Addr(w)
             t == Idx(w)
             before == LedgerAfter(txs, t)
             after == LedgerAfter(txs, t + 1)
  <1>1. /\ pc[w] = "execute" /\ stage[w] = "insert"
        /\ found' = [found EXCEPT ![w] = @ \cup PreviousReadersAbove(a, t)]
        /\ InsertVersion(a, t, Inc(w), NewState(w))
        /\ stage' = [stage EXCEPT ![w] = IF side[w] = "from" THEN "lower" ELSE "report"]
        /\ side' = [side EXCEPT ![w] = IF side[w] = "from" THEN "to" ELSE "from"]
        /\ UNCHANGED <<vars, txs, counters, seen, view>>
    BY DEF WriteVersion, At, GotoStage
  <1>2. stage[w] \in Writing
    BY <1>1 DEF Writing
  <1>3. /\ t \in Txns /\ a \in Addresses /\ Inc(w) \in Nat /\ side[w] \in {"from", "to"}
        /\ Tx(w).from \in Addresses /\ Tx(w).to \in Addresses /\ Tx(w).from # Tx(w).to
        /\ a = IF side[w] = "from" THEN Tx(w).from ELSE Tx(w).to
    BY <1>1, ExecutingFacts DEF Sides, Addr
  <1>4. /\ MVTypeOK(Txns) /\ stage \in [Workers -> Stages] /\ side \in [Workers -> Sides]
        /\ found \in [Workers -> SUBSET Txns]
    BY DEF ExecInv, TraceInv, ExecTypes
  <1>5. t = Popped - 1 /\ Popped \in Nat /\ Reached(w) = t /\ t \in Nat
    BY <1>1, ReachedFacts
  <1>6. NewState(w) \in AccountStates /\ NewState(w) = after[a]
    BY <1>1, <1>2, NewStateOK, AloneNewState
  <1>7. Succeeds(Tx(w), before)
    BY <1>1, <1>2, SuccessKnown
  <1>8. /\ pc'[w] = pc[w] /\ Idx(w)' = t /\ Tx(w)' = Tx(w) /\ Popped' = Popped
        /\ LedgerAfter(txs, Idx(w))' = before /\ LedgerAfter(txs, Idx(w) + 1)' = after
        /\ Succeeds(Tx(w), LedgerAfter(txs, Idx(w)))' = Succeeds(Tx(w), before)
    BY <1>1, ExecuteFrame
  <1>9. PreviousReadersAbove(a, t) = {}
    <2>1. \A u \in DOMAIN data[a] : data[a][u].readers \subseteq 0 .. Popped - 1
      BY <1>3 DEF AloneInv, NoneAhead
    <2>2. QED BY <1>5, <2>1 DEF PreviousReadersAbove, Previous
  <1>10. found'[w] = {}
    BY <1>1, <1>4, <1>9 DEF AloneInv, InOrder
  <1>11. InOrder(w)' /\ Reached(w)' = t
    BY <1>1, <1>5, <1>10, OrderFrame DEF AloneInv, vars, shared, local
  <1>12. /\ DOMAIN data'[a] = DOMAIN data[a] \cup {t}
         /\ data'[a][t].state = after[a] /\ data'[a][t].readers = {}
         /\ \A v \in DOMAIN data[a] \ {t} : data'[a][v] = data[a][v]
         /\ \A b \in Addresses \ {a} : data'[b] = data[b]
         /\ UNCHANGED storage_readers
    <2> DEFINE s == NewState(w)
    <2>1. InsertVersion(a, t, Inc(w), s) /\ s \in AccountStates /\ s = after[a]
      BY <1>1, <1>6
    <2> HIDE DEF a, t, s, after
    <2>2. /\ DOMAIN data'[a] = DOMAIN data[a] \cup {t}
          /\ data'[a][t] = [incarnation |-> Inc(w), state |-> s, readers |-> {}]
          /\ \A v \in DOMAIN data[a] \ {t} : data'[a][v] = data[a][v]
          /\ \A b \in Addresses \ {a} : data'[b] = data[b]
          /\ UNCHANGED storage_readers
      BY <1>3, <1>4, <2>1, InsertEffect
    <2>3. QED BY <2>1, <2>2
  <1>13. NoneAhead'
    <2> SUFFICES ASSUME NEW b \in Addresses
                 PROVE  /\ storage_readers'[b] \subseteq 0 .. Popped' - 1
                        /\ \A u \in DOMAIN data'[b] :
                              data'[b][u].readers \subseteq 0 .. Popped' - 1
      BY DEF NoneAhead
    <2>1. CASE b = a
      BY <1>3, <1>8, <1>12, <2>1 DEF AloneInv, NoneAhead
    <2>2. CASE b # a
      BY <1>8, <1>12, <2>2 DEF AloneInv, NoneAhead
    <2>3. QED BY <2>1, <2>2
  <1>14. /\ stage'[w] = IF side[w] = "from" THEN "lower" ELSE "report"
         /\ side'[w] = IF side[w] = "from" THEN "to" ELSE "from"
    BY <1>1, <1>4
  <1>15. ViewOrdered(w)'
    <2>1. view[w]["from"] = before[Tx(w).from] /\ view[w]["to"] = before[Tx(w).to]
      BY <1>1, <1>2 DEF AloneInv, ViewOrdered
    <2> HIDE DEF before
    <2>2. view'[w]["from"] = before[Tx(w)'.from] /\ view'[w]["to"] = before[Tx(w)'.to]
      BY <1>1, <1>8, <2>1
    <2>3. LedgerAfter(txs, Idx(w))' = before
      BY <1>8
    <2>4. QED BY <2>2, <2>3 DEF ViewOrdered
  <1>16. WrittenBy(w)' = WrittenBy(w) \cup {a}
    <2>1. CASE side[w] = "from"
      <3>1. WrittenBy(w) = {} /\ WrittenBy(w)' = {Tx(w).from}
        BY <1>1, <1>2, <1>8, <1>14, <2>1 DEF WrittenBy, Writing
      <3>2. QED BY <1>3, <2>1, <3>1
    <2>2. CASE side[w] = "to"
      <3>1. WrittenBy(w) = {Tx(w).from} /\ WrittenBy(w)' = {Tx(w).from, Tx(w).to}
        BY <1>1, <1>2, <1>7, <1>8, <1>14, <2>2 DEF WrittenBy, Writing
      <3>2. QED BY <1>3, <2>2, <3>1
    <2>3. QED BY <1>3, <2>1, <2>2
  <1> HIDE DEF a, t, before, after
  <1>17. MapExact(w)'
    <2> SUFFICES ASSUME NEW b \in Addresses
                 PROVE  /\ Latest(data'[b], Genesis[b], t, before[b])
                        /\ \A u \in DOMAIN data'[b] : u < t \/ (u = t /\ b \in WrittenBy(w)')
                        /\ b \in WrittenBy(w)' =>
                              t \in DOMAIN data'[b] /\ data'[b][t].state = after[b]
      <3>1. /\ LedgerAfter(txs, Reached(w))' = LedgerAfter(txs', t)
            /\ LedgerAfter(txs, Reached(w) + 1)' = LedgerAfter(txs', t + 1)
        BY <1>11 DEF LedgerAfter, Apply, Succeeds, Accepts, Debit, Credit, Genesis
      <3>2. LedgerAfter(txs, Reached(w))' = before /\ LedgerAfter(txs, Reached(w) + 1)' = after
        BY <1>1, <3>1 DEF before, after
      <3>3. QED BY <1>11, <3>2 DEF MapExact, Genesis
    <2>1. /\ Latest(data[b], Genesis[b], t, before[b])
          /\ \A u \in DOMAIN data[b] : u < t \/ (u = t /\ b \in WrittenBy(w))
          /\ b \in WrittenBy(w) => t \in DOMAIN data[b] /\ data[b][t].state = after[b]
      BY <1>5 DEF AloneInv, MapExact, before, after
    <2>2. CASE b = a
      <3>1. \A u \in DOMAIN data'[b] : u < t => u \in DOMAIN data[b] /\ data'[b][u] = data[b][u]
        BY <1>5, <1>12, <2>2
      <3>2. \A u \in DOMAIN data[b] : u \in DOMAIN data'[b]
        BY <1>12, <2>2
      <3>3. DOMAIN data'[b] \subseteq Nat
        <4>1. DOMAIN data[b] \subseteq Nat
          BY <1>4 DEF MVTypeOK, Txns
        <4>2. QED BY <1>5, <1>12, <2>2, <4>1
      <3>4. Latest(data'[b], Genesis[b], t, before[b])
        BY <1>5, <2>1, <3>1, <3>2, <3>3 DEF Latest
      <3>5. QED BY <1>12, <1>16, <2>1, <2>2, <3>4
    <2>3. CASE b # a
      BY <1>12, <1>16, <2>1, <2>3
    <2>4. QED BY <2>2, <2>3
  <1>18. QED BY <1>11, <1>13, <1>15, <1>17 DEF AloneInv

\* The execution is over: its versions have become the latest ones.
LEMMA AloneReport ==
    ASSUME ExecInv, NEW w \in Workers, AloneInv(w), Report(w)
    PROVE  AloneInv(w)'
  <1> DEFINE t == Idx(w)
             before == LedgerAfter(txs, t)
             after == LedgerAfter(txs, t + 1)
  <1>1. /\ pc[w] = "execute" /\ stage[w] = "report"
        /\ found' = [found EXCEPT ![w] = {}]
        /\ pc' = [pc EXCEPT ![w] = AbortNext(found[w])]
        /\ invalidated' = [invalidated EXCEPT ![w] = found[w]]
        /\ UNCHANGED <<mvVars, txs, ready_queue, task>>
    BY DEF Report, At, FinishExecution, Goto
  <1>2. /\ pc \in [Workers -> Labels] /\ invalidated \in [Workers -> SUBSET Txns]
        /\ found \in [Workers -> SUBSET Txns] /\ MVTypeOK(Txns)
    BY DEF ExecInv, IndInv, TypeOK, TraceInv, ExecTypes
  <1>3. pc'[w] = "try_commit" /\ invalidated'[w] = {} /\ found'[w] = {}
    BY <1>1, <1>2 DEF AloneInv, InOrder, AbortNext
  <1>4. /\ t = Popped - 1 /\ Popped \in 0 .. NumTxns /\ Reached(w) = t /\ t \in Nat
        /\ after = Apply(Tx(w), before) /\ before \in [Addresses -> AccountStates]
    BY <1>1, ReachedFacts
  <1>5. Popped' = Popped /\ Reached(w)' = t + 1
    BY <1>1, <1>3, <1>4 DEF Popped, Reached
  <1>6. InOrder(w)'
    BY <1>1, <1>3, <1>5 DEF AloneInv, InOrder
  <1>7. NoneAhead' /\ ViewOrdered(w)' /\ WrittenBy(w)' = {}
    BY <1>1, <1>3, <1>5 DEF AloneInv, NoneAhead, ViewOrdered, WrittenBy, mvVars
  <1>8. WrittenBy(w) = IF Succeeds(Tx(w), before) THEN {Tx(w).from, Tx(w).to} ELSE {}
    BY <1>1 DEF WrittenBy, Writing
  <1>9. Tx(w) \in SignedTransactions /\ Tx(w).from # Tx(w).to
    BY <1>1, ExecutingFacts
  <1> HIDE DEF t, before, after
  <1>10. \A b \in Addresses \ WrittenBy(w) : after[b] = before[b]
    <2>1. CASE Succeeds(Tx(w), before)
      BY <1>4, <1>8, <1>9, <2>1, ApplyTyped
    <2>2. CASE ~Succeeds(Tx(w), before)
      BY <1>4, <2>2 DEF Apply
    <2>3. QED BY <2>1, <2>2
  <1>11. MapExact(w)'
    <2> SUFFICES ASSUME NEW b \in Addresses
                 PROVE  /\ Latest(data[b], Genesis[b], t + 1, after[b])
                        /\ \A u \in DOMAIN data[b] : u < t + 1
      <3>1. LedgerAfter(txs, Reached(w))' = LedgerAfter(txs', t + 1)
        BY <1>5 DEF LedgerAfter, Apply, Succeeds, Accepts, Debit, Credit, Genesis
      <3>2. LedgerAfter(txs, Reached(w))' = after
        BY <1>1, <3>1 DEF after
      <3>3. QED BY <1>1, <1>5, <1>7, <3>2 DEF MapExact, mvVars, Genesis
    <2>1. /\ Latest(data[b], Genesis[b], t, before[b])
          /\ \A u \in DOMAIN data[b] : u < t \/ (u = t /\ b \in WrittenBy(w))
          /\ b \in WrittenBy(w) => t \in DOMAIN data[b] /\ data[b][t].state = after[b]
      BY <1>4 DEF AloneInv, MapExact, before, after
    <2>2. DOMAIN data[b] \subseteq Nat
      BY <1>2 DEF MVTypeOK, Txns
    <2>3. \A u \in DOMAIN data[b] : u < t + 1 /\ u <= t
      BY <1>4, <2>1, <2>2
    <2>4. CASE b \in WrittenBy(w)
      <3>1. t \in DOMAIN data[b] /\ t < t + 1 /\ after[b] = data[b][t].state
        BY <1>4, <2>1, <2>4
      <3>2. QED BY <2>3, <3>1 DEF Latest
    <2>5. CASE b \notin WrittenBy(w)
      <3>1. \A u \in DOMAIN data[b] : u < t
        BY <2>1, <2>5
      <3>2. after[b] = before[b]
        BY <1>10, <2>5
      <3>3. QED BY <1>4, <2>1, <2>2, <2>3, <3>1, <3>2 DEF Latest
    <2>6. QED BY <2>3, <2>4, <2>5
  <1>12. QED BY <1>6, <1>7, <1>11 DEF AloneInv

LEMMA AloneInit ==
    ASSUME NEW w \in Workers, ExecInit
    PROVE  AloneInv(w)
  <1>1. /\ ready_queue = [n \in 1 .. NumTxns |-> <<n - 1, 0>>]
        /\ pc[w] = "next_task" /\ invalidated[w] = {} /\ found[w] = {}
        /\ \A a \in Addresses : DOMAIN data[a] = {} /\ storage_readers[a] = {}
    BY DEF ExecInit, ExecStart, Init, MVInit
  <1>2. Len(ready_queue) = NumTxns /\ Popped = 0 /\ Reached(w) = 0
    BY <1>1, NumTxnsAssumption DEF Popped, Reached
  <1>3. InOrder(w)
    BY <1>1, <1>2, NumTxnsAssumption DEF InOrder
  <1>4. NoneAhead /\ ViewOrdered(w) /\ WrittenBy(w) = {}
    BY <1>1 DEF NoneAhead, ViewOrdered, WrittenBy
  <1>5. LedgerAfter(txs, Reached(w)) = Genesis
    BY <1>2, LedgerAfterZero
  <1>6. MapExact(w)
    BY <1>1, <1>4, <1>5 DEF MapExact, Latest
  <1>7. QED BY <1>3, <1>4, <1>6 DEF AloneInv

LEMMA AloneStep ==
    ASSUME NEW w, Workers = {w}, ExecInv, AloneInv(w), [ExecNext]_execVars
    PROVE  AloneInv(w)'
  <1>0. w \in Workers
    OBVIOUS
  <1>1. CASE UNCHANGED execVars
    <2>1. UNCHANGED <<txs, data, storage_readers, pc, task, ready_queue, invalidated,
                      stage, side, view, found>>
      BY <1>1 DEF execVars, vars, shared, local, mvVars, execLocal
    <2>2. InOrder(w)' /\ Reached(w)' = Reached(w) /\ Popped' = Popped /\ Idx(w)' = Idx(w)
      BY <1>0, <2>1, OrderFrame DEF AloneInv, InOrder
    <2>3. Tx(w)' = Tx(w) /\ LedgerAfter(txs, Idx(w))' = LedgerAfter(txs, Idx(w))
      BY <2>1, <2>2 DEF Tx, LedgerAfter, Apply, Succeeds, Accepts, Debit, Credit, Genesis
    <2>4. WrittenBy(w)' = WrittenBy(w)
      BY <2>1, <2>3 DEF WrittenBy, Succeeds, Accepts
    <2>5. NoneAhead' /\ ViewOrdered(w)' /\ SameVersions
      BY <2>1, <2>2, <2>3 DEF AloneInv, NoneAhead, ViewOrdered, SameVersions
    <2>6. MapExact(w)'
      BY <1>0, <2>1, <2>2, <2>4, <2>5, MapFrameAlone DEF AloneInv
    <2>7. QED BY <2>2, <2>5, <2>6 DEF AloneInv
  <1>2. CASE WorkerLoop(w)
    BY <1>0, <1>2, AloneScheduler, AloneVerify, AloneRead, AloneRecord, AloneCollect,
       AloneWrite, AloneReport
    DEF WorkerLoop, ExecuteStep
  <1>3. QED BY <1>1, <1>2 DEF ExecNext, ExecTerminated

\* When the worker has left, the whole block has been executed.
LEMMA AloneEnd ==
    ASSUME NEW w, Workers = {w}, ExecInv, AloneInv(w), Joined
    PROVE  Reached(w) = NumTxns
  <1>1. pc[w] = "exited" /\ committed_idx = NumTxns
    BY DEF Joined, ExecInv, IndInv, DoneSound
  <1>2. Len(ready_queue) = 0
    <2>1. Len(ready_queue) \in Nat /\ Popped \in 0 .. NumTxns
      BY DEF ExecInv, IndInv, TypeOK, AloneInv, InOrder
    <2>2. CASE Len(ready_queue) > 0
      <3>1. 1 \in 1 .. Len(ready_queue) /\ Popped \in Txns
        BY <2>1, <2>2, NumTxnsAssumption DEF Popped, Txns
      <3>2. ready_queue[1] = <<Popped + 1 - 1, 0>>
        BY <3>1 DEF AloneInv, InOrder
      <3>3. Fresh(Popped)
        BY <2>1, <3>1, <3>2 DEF Fresh
      <3>4. committed_idx <= Popped
        BY <3>1, <3>3 DEF ExecInv, IndInv, CommittedStarted
      <3>5. QED BY <1>1, <3>1, <3>4, NumTxnsAssumption DEF Txns
    <2>3. QED BY <2>1, <2>2
  <1>3. QED BY <1>1, <1>2, NumTxnsAssumption DEF Reached, Popped

\* With a single thread BlockStmExecutor is what its documentation says: whatever
\* the block holds, failing and badly signed transactions included, the final
\* states are those of executing it one transaction at a time, in index order.
THEOREM OneThreadIsSerial ==
    ASSUME NEW w, Workers = {w}
    PROVE  ExecSpec => []Serializable
  <1>1. ExecInv /\ AloneInv(w) => Serializable
    <2> SUFFICES ASSUME ExecInv, AloneInv(w), Joined
                 PROVE  FinalLedger = LedgerAfter(txs, NumTxns)
      BY DEF Serializable
    <2> DEFINE L == LedgerAfter(txs, NumTxns)
    <2>1. Reached(w) = NumTxns /\ w \in Workers
      BY AloneEnd
    <2>2. L \in [Addresses -> AccountStates] /\ WrittenBy(w) = {}
      BY <2>1, ReachedFacts DEF Joined, WrittenBy
    <2>3. MVTypeOK(Txns)
      BY DEF ExecInv, TraceInv, ExecTypes
    <2>4. \A a \in Addresses :
             /\ Latest(data[a], Genesis[a], NumTxns, L[a])
             /\ \A u \in DOMAIN data[a] : u < NumTxns
      BY <2>1, <2>2 DEF AloneInv, MapExact
    <2> HIDE DEF L
    <2>5. ASSUME NEW a \in Addresses
          PROVE  (IF a \in Written THEN FinalDb[a] ELSE Genesis[a]) = L[a]
      <3>1. DOMAIN data[a] \subseteq Nat
        BY <2>3 DEF MVTypeOK, Txns
      <3>2. CASE a \notin Written
        BY <2>4, <3>2 DEF Written, Latest
      <3>3. CASE a \in Written
        <4>1. PICK u \in DOMAIN data[a] :
                 L[a] = data[a][u].state /\ \A v \in DOMAIN data[a] : v <= u
          BY <2>4, <3>1, <3>3, NumTxnsAssumption DEF Written, Latest
        <4>2. (CHOOSE t \in DOMAIN data[a] : \A v \in DOMAIN data[a] : v <= t) = u
          <5> DEFINE m == CHOOSE t \in DOMAIN data[a] : \A v \in DOMAIN data[a] : v <= t
          <5>1. m \in DOMAIN data[a] /\ \A v \in DOMAIN data[a] : v <= m
            BY <4>1
          <5> HIDE DEF m
          <5>2. m <= u /\ u <= m
            BY <4>1, <5>1
          <5>3. m = u
            BY <3>1, <5>1, <5>2
          <5>4. QED BY <5>3 DEF m
        <4>3. FinalDb[a] = data[a][u].state
          BY <3>3, <4>2 DEF FinalDb, CommittedStates
        <4>4. QED BY <3>3, <4>1, <4>3
      <3>4. QED BY <3>2, <3>3
    <2>6. FinalLedger = [a \in Addresses |-> L[a]]
      BY <2>5 DEF FinalLedger
    <2>7. QED BY <2>2, <2>6 DEF L
  <1>2. ExecInit => AloneInv(w)
    BY AloneInit
  <1>3. ExecInv /\ AloneInv(w) /\ [ExecNext]_execVars => AloneInv(w)'
    BY AloneStep
  <1>4. QED BY <1>1, <1>2, <1>3, ExecInvariant, PTL DEF ExecSpec

-----------------------------------------------------------------------------
(* What the benchmark uses of the executor.                                   *)

\* What is certain of the database BlockStmExecutor returns.
StmExact ==
    Joined =>
        \A a \in Addresses :
            /\ ExactAt(a) => FinalLedger[a] = LedgerAfter(txs, NumTxns)[a]
            /\ a \in Written => \E t \in Txns : Touches(t, a)

\* With one thread every account, with several the uncontended ones, end as in the
\* ordered execution, and accounts outside the block are not in the database.
THEOREM StmIsExact ==
    ASSUME Workers # {}
    PROVE  ExecSpec => []StmExact
  <1>1. ExecInv /\ VersionsInv =>
           \A a \in Addresses : a \in Written => \E t \in Txns : Touches(t, a)
    BY UntouchedNotWritten
  <1>2. ExecInit => ExecInv /\ VersionsInv
    BY ExecInvInit, VersionsInit
  <1>3. ExecInv /\ VersionsInv /\ [ExecNext]_execVars => ExecInv' /\ VersionsInv'
    BY ExecInvStep, VersionsStep
  <1> DEFINE OnlyTouched ==
        \A a \in Addresses : a \in Written => \E t \in Txns : Touches(t, a)
  <1>4. ExecInv /\ VersionsInv => OnlyTouched
    BY <1>1
  <1> HIDE DEF OnlyTouched
  <1>5. ExecSpec => []OnlyTouched
    BY <1>2, <1>3, <1>4, PTL DEF ExecSpec
  <1>6. CASE \E w \in Workers : Workers = {w}
    <2>1. PICK w \in Workers : Workers = {w}
      BY <1>6
    <2>2. ExecSpec => []Serializable
      BY <2>1, OneThreadIsSerial
    <2>3. Serializable /\ OnlyTouched => StmExact
      BY DEF Serializable, StmExact, OnlyTouched
    <2>4. QED BY <1>5, <2>2, <2>3, PTL
  <1>7. CASE ~\E w \in Workers : Workers = {w}
    <2> DEFINE Goal == \A a \in Addresses :
          Joined /\ Uncontended(a) => FinalLedger[a] = LedgerAfter(txs, NumTxns)[a]
    <2>1. ExecSpec => []Goal
      BY UncontendedIsExact
    <2>2. Goal /\ OnlyTouched => StmExact
      BY <1>7 DEF StmExact, ExactAt, OnlyTouched
    <2> HIDE DEF Goal
    <2>3. QED BY <1>5, <2>1, <2>2, PTL
  <1>8. QED BY <1>6, <1>7
=============================================================================

---------------------------- MODULE Invalidation ----------------------------
(***************************************************************************)
(* What MVHashMap promises to a caller that makes one call at a time:      *)
(* push-based invalidation is complete.  A transaction that has read an    *)
(* address and has not been reported by a write since would read the same  *)
(* version again.                                                          *)
(*                                                                         *)
(* The caller reads as read_account does (read, then record), writes as    *)
(* execute_transaction does, and re-executes a reported transaction at the *)
(* next incarnation.  `reads` and `stale` are the caller's knowledge, not  *)
(* variables of the code.                                                  *)
(***************************************************************************)
EXTENDS MVHashMap

CONSTANTS
    NumReaders,       \* transactions are 0 .. NumReaders - 1
    MaxIncarnation    \* bound on re-executions

ASSUME NumReadersAssumption == NumReaders \in Nat
ASSUME MaxIncarnationAssumption == MaxIncarnation \in Nat

Readers == 0 .. NumReaders - 1

VARIABLES
    incarnation,   \* the current incarnation of every transaction
    reads,         \* <<address, version>> read by the current incarnation
    stale          \* transactions reported invalidated, not yet re-executed

callerVars == <<mvVars, incarnation, reads, stale>>

InvInit ==
    /\ MVInit
    /\ incarnation = [t \in Readers |-> 0]
    /\ reads = [t \in Readers |-> {}]
    /\ stale = {}

\* Mutant: a read of storage is not recorded.
RecordReadOnly(a, t) ==
    IF ReadVersion(a, t) = Storage THEN UNCHANGED mvVars
    ELSE RecordRead(a, t, ReadVersion(a, t))

\* The recording half of read_account.
RecordAccount(a, t) ==
    IF ReadVersion(a, t) = Storage THEN RecordStorageRead(a, t)
    ELSE RecordRead(a, t, ReadVersion(a, t))

\* read_account
ReadAccount(t, a) ==
    /\ t \notin stale
    /\ RecordAccount(a, t)
    /\ reads' = [reads EXCEPT ![t] = @ \cup {<<a, ReadVersion(a, t)>>}]
    /\ UNCHANGED <<incarnation, stale>>

\* A write, with what it reports.
WriteAccount(t, a) ==
    /\ t \notin stale
    /\ stale' = stale \cup InvalidatedReaders(a, t)
    /\ InsertVersion(a, t, incarnation[t], Genesis[a])
    /\ UNCHANGED <<incarnation, reads>>

\* abort_transaction, and the execution that follows it.
Reexecute(t) ==
    /\ t \in stale
    /\ incarnation[t] < MaxIncarnation
    /\ incarnation' = [incarnation EXCEPT ![t] = @ + 1]
    /\ reads' = [reads EXCEPT ![t] = {}]
    /\ stale' = stale \ {t}
    /\ UNCHANGED mvVars

\* Every transaction writes an address at most once: a re-execution writes only
\* what earlier executions had not come to write.
WriteOnceNext ==
    \E t \in Readers :
        \/ \E a \in Addresses : ReadAccount(t, a)
        \/ \E a \in Addresses : t \notin DOMAIN data[a] /\ WriteAccount(t, a)
        \/ Reexecute(t)

WriteOnceSpec == InvInit /\ [][WriteOnceNext]_callerVars

\* Re-executions that write the address again, at a new incarnation.
RewriteNext ==
    \/ WriteOnceNext
    \/ \E t \in Readers, a \in Addresses :
          /\ t \in DOMAIN data[a]
          /\ data[a][t].incarnation # incarnation[t]
          /\ WriteAccount(t, a)

RewriteSpec == InvInit /\ [][RewriteNext]_callerVars

-----------------------------------------------------------------------------

\* Every variable has its type.
InvTypeOK ==
    /\ MVTypeOK(Readers)
    /\ incarnation \in [Readers -> 0 .. MaxIncarnation]
    /\ reads \in [Readers -> SUBSET (Addresses \X ((Readers \X Nat) \cup {Storage}))]
    /\ stale \subseteq Readers

\* Push-based invalidation is complete: whoever read something that it would
\* now read differently has been reported by some write.
InvalidationComplete ==
    \A t \in Readers \ stale : \A r \in reads[t] : r[2] = ReadVersion(r[1], t)

\* The inductive form: a read that has not been reported is registered where
\* the next write below the reader will look for it.
Registered ==
    \A t \in Readers \ stale : \A r \in reads[t] :
        \/ /\ r[2] = Storage
           /\ Previous(r[1], t) = {}
           /\ t \in storage_readers[r[1]]
        \/ \E u \in Previous(r[1], t) :
              /\ r[2] = <<u, data[r[1]][u].incarnation>>
              /\ t \in data[r[1]][u].readers

\* What every step of the map preserves: its types and the registration of all
\* unreported reads.
InvInductive == InvTypeOK /\ Registered
=============================================================================

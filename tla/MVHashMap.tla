------------------------------ MODULE MVHashMap ------------------------------
(***************************************************************************)
(* block-stm-executor/src/mvhashmap.rs: for every address the versions     *)
(* transactions have written, each with the transactions that have read    *)
(* it, and the transactions that have read the address from storage.       *)
(*                                                                         *)
(* Each operator here is what runs under one DashMap shard lock, so it is  *)
(* atomic; `read` followed by `record_read`, and the three parts of        *)
(* `write`, are not, and the modules that use them take them as separate   *)
(* steps.  Reader lists are sets: their order and multiplicity are lost    *)
(* when the executor sorts and deduplicates what a write reports.          *)
(***************************************************************************)
EXTENDS Transfers

VARIABLES
    data,             \* [Addresses -> (transaction index -> VersionedEntry)]
    storage_readers   \* [Addresses -> set of transaction indices]

mvVars == <<data, storage_readers>>

VersionedEntries(T) ==
    [incarnation : Nat, state : AccountStates, readers : SUBSET T]

\* MVHashMap::new
MVInit ==
    /\ data = [a \in Addresses |-> [t \in {} |-> 0]]
    /\ storage_readers = [a \in Addresses |-> {}]

MVTypeOK(T) ==
    /\ DOMAIN data = Addresses
    /\ \A a \in Addresses :
          /\ DOMAIN data[a] \subseteq T
          /\ \A t \in DOMAIN data[a] : data[a][t] \in VersionedEntries(T)
    /\ storage_readers \in [Addresses -> SUBSET T]

\* Mutant: the range includes t itself.
PreviousInclusive(a, t) ==
    {u \in DOMAIN data[a] :
        u <= t /\ \A v \in DOMAIN data[a] : v <= t => v <= u}

\* versions.range(..t).next_back(): the latest writer below t, as a set of at
\* most one element.
Previous(a, t) ==
    {u \in DOMAIN data[a] :
        u < t /\ \A v \in DOMAIN data[a] : v < t => v <= u}

\* ReadResult: the version read, <<writer, incarnation>>, or Storage.
Storage == <<>>

ReadVersion(a, t) ==
    IF Previous(a, t) = {} THEN Storage
    ELSE LET u == CHOOSE u \in Previous(a, t) : TRUE
         IN  <<u, data[a][u].incarnation>>

\* The state read_account returns with that version.
StateOf(a, version) ==
    IF version = Storage THEN Genesis[a] ELSE data[a][version[1]].state

\* A read is recorded only if the version read is still there.
RecordRead(a, t, version) ==
    /\ data' = IF /\ version[1] \in DOMAIN data[a]
                  /\ data[a][version[1]].incarnation = version[2]
               THEN [data EXCEPT ![a][version[1]].readers = @ \cup {t}]
               ELSE data
    /\ UNCHANGED storage_readers

RecordStorageRead(a, t) ==
    /\ storage_readers' = [storage_readers EXCEPT ![a] = @ \cup {t}]
    /\ UNCHANGED data

\* The three parts of write.
HasLowerVersion(a, t) == Previous(a, t) # {}

\* Mutant: the writer is reported among the readers.
StorageReadersFrom(a, t) == {r \in storage_readers[a] : r >= t}

StorageReadersAbove(a, t) == {r \in storage_readers[a] : r > t}

PreviousReadersAbove(a, t) ==
    UNION {{r \in data[a][u].readers : r > t} : u \in Previous(a, t)}

\* write as a whole, when nobody else runs: what it reports as invalidated.
InvalidatedReaders(a, t) ==
    PreviousReadersAbove(a, t)
        \cup (IF HasLowerVersion(a, t) THEN {} ELSE StorageReadersAbove(a, t))

InsertVersion(a, t, i, s) ==
    /\ data' = [data EXCEPT ![a] =
                   [u \in DOMAIN data[a] \cup {t} |->
                       IF u = t
                       THEN [incarnation |-> i, state |-> s, readers |-> {}]
                       ELSE data[a][u]]]
    /\ UNCHANGED storage_readers

\* get_committed_states: the last version of every address written.
Written == {a \in Addresses : DOMAIN data[a] # {}}

CommittedStates ==
    [a \in Written |->
        data[a][CHOOSE t \in DOMAIN data[a] : \A u \in DOMAIN data[a] : u <= t].state]
=============================================================================

------------------------- MODULE InvalidationProofs -------------------------
(***************************************************************************)
(* Completeness of push-based invalidation, for any number of              *)
(* transactions and addresses, as long as no transaction overwrites its    *)
(* own version.                                                            *)
(***************************************************************************)
EXTENDS Invalidation, WellFoundedInduction, TLAPS

\* A non-empty set of naturals below a bound has a largest element.
LEMMA LatestExists ==
    ASSUME NEW S \in SUBSET Nat, NEW n \in Nat, NEW v \in S, v < n
    PROVE  \E u \in S : u < n /\ \A x \in S : x < n => x <= u
  <1> DEFINE R == {ss \in Nat \X Nat : ss[1] < ss[2]}
             Distances == {k \in Nat : \E x \in S : x < n /\ x + k = n}
  <1>1. IsWellFoundedOn(R, Nat)
    BY NatLessThanWellFounded, Zenon DEF OpToRel
  <1>2. n - v \in Distances
    OBVIOUS
  <1>3. PICK k \in Distances : \A j \in Distances : <<j, k>> \notin R
    <2> HIDE DEF R, Distances
    <2>1. Distances \subseteq Nat
      BY DEF Distances
    <2>2. QED BY <1>1, <1>2, <2>1, WFMin
  <1>4. ASSUME NEW j \in Distances PROVE k <= j
    <2>1. j \in Nat /\ k \in Nat /\ ~(<<j, k>> \in R)
      BY <1>3
    <2>2. ~(j < k)
      BY <2>1
    <2>3. QED BY <2>1, <2>2
  <1>5. PICK u \in S : u < n /\ u + k = n
    OBVIOUS
  <1>6. ASSUME NEW x \in S, x < n PROVE x <= u
    <2>1. n - x \in Distances
      BY <1>6
    <2>2. k <= n - x
      BY <1>4, <2>1
    <2>3. QED BY <1>5, <1>6, <2>2
  <1>7. QED BY <1>5, <1>6

\* read finds no version only when there is none below the reader.
LEMMA PreviousEmpty ==
    ASSUME InvTypeOK, NEW a \in Addresses, NEW t \in Readers, Previous(a, t) = {}
    PROVE  \A v \in DOMAIN data[a] : ~(v < t)
  <1> SUFFICES ASSUME NEW v \in DOMAIN data[a], v < t PROVE FALSE
    OBVIOUS
  <1>1. DOMAIN data[a] \in SUBSET Nat /\ t \in Nat
    BY NumReadersAssumption DEF InvTypeOK, MVTypeOK, Readers
  <1>2. \E u \in DOMAIN data[a] :
           u < t /\ \A x \in DOMAIN data[a] : x < t => x <= u
    BY <1>1, LatestExists
  <1>3. QED BY <1>2 DEF Previous

\* The latest version below a transaction is unique.
LEMMA PreviousUnique ==
    ASSUME InvTypeOK, NEW a \in Addresses, NEW t \in Readers,
           NEW u \in Previous(a, t), NEW v \in Previous(a, t)
    PROVE  u = v
  BY NumReadersAssumption DEF Previous, Readers, InvTypeOK, MVTypeOK

LEMMA ReadVersionIs ==
    ASSUME InvTypeOK, NEW a \in Addresses, NEW t \in Readers
    PROVE  /\ Previous(a, t) = {} => ReadVersion(a, t) = Storage
           /\ \A u \in Previous(a, t) :
                 ReadVersion(a, t) = <<u, data[a][u].incarnation>>
  <1>1. ASSUME NEW u \in Previous(a, t)
        PROVE  (CHOOSE v \in Previous(a, t) : TRUE) = u
    BY <1>1, PreviousUnique
  <1>2. QED BY <1>1 DEF ReadVersion

\* A read returns a version of the map, or storage when there is none.
LEMMA ReadVersionCases ==
    ASSUME InvTypeOK, NEW a \in Addresses, NEW t \in Readers
    PROVE  \/ Previous(a, t) = {} /\ ReadVersion(a, t) = Storage
           \/ \E u \in Previous(a, t) :
                 /\ u \in DOMAIN data[a] /\ u \in Readers
                 /\ data[a][u] \in VersionedEntries(Readers)
                 /\ ReadVersion(a, t) = <<u, data[a][u].incarnation>>
                 /\ ReadVersion(a, t) # Storage
                 /\ ReadVersion(a, t) \in Readers \X Nat
  <1>1. CASE Previous(a, t) = {}
    BY <1>1, ReadVersionIs
  <1>2. ASSUME NEW u \in Previous(a, t)
        PROVE  /\ u \in DOMAIN data[a] /\ u \in Readers
               /\ data[a][u] \in VersionedEntries(Readers)
               /\ ReadVersion(a, t) = <<u, data[a][u].incarnation>>
               /\ ReadVersion(a, t) # Storage
               /\ ReadVersion(a, t) \in Readers \X Nat
    <2>1. u \in DOMAIN data[a] /\ u \in Readers
      BY DEF Previous, InvTypeOK, MVTypeOK
    <2>2. data[a][u] \in VersionedEntries(Readers)
      BY <2>1 DEF InvTypeOK, MVTypeOK
    <2>3. data[a][u].incarnation \in Nat
      BY <2>2 DEF VersionedEntries
    <2>4. ReadVersion(a, t) = <<u, data[a][u].incarnation>>
      BY ReadVersionIs
    <2>5. QED BY <2>1, <2>2, <2>3, <2>4 DEF Storage
  <1>3. QED BY <1>1, <1>2

\* A registered read is one that would be repeated.
LEMMA RegisteredSuffices ==
    ASSUME InvTypeOK, Registered
    PROVE  InvalidationComplete
  <1> SUFFICES ASSUME NEW t \in Readers \ stale, NEW r \in reads[t]
               PROVE  r[2] = ReadVersion(r[1], t)
    BY DEF InvalidationComplete
  <1>1. r[1] \in Addresses
    BY DEF InvTypeOK
  <1>2. \/ Previous(r[1], t) = {} /\ r[2] = Storage
        \/ \E u \in Previous(r[1], t) : r[2] = <<u, data[r[1]][u].incarnation>>
    BY DEF Registered
  <1>3. QED
    BY <1>1, <1>2, ReadVersionIs

-----------------------------------------------------------------------------

\* What recording a read changes: one reader is added to one version.
LEMMA RecordReadEffect ==
    ASSUME InvTypeOK, NEW a \in Addresses, NEW t \in Readers,
           NEW u \in DOMAIN data[a],
           RecordRead(a, t, <<u, data[a][u].incarnation>>)
    PROVE  /\ DOMAIN data' = Addresses
           /\ \A b \in Addresses :
                 /\ DOMAIN data'[b] = DOMAIN data[b]
                 /\ \A v \in DOMAIN data[b] :
                       /\ data'[b][v] \in VersionedEntries(Readers)
                       /\ data'[b][v].incarnation = data[b][v].incarnation
                       /\ data[b][v].readers \subseteq data'[b][v].readers
           /\ t \in data'[a][u].readers
           /\ UNCHANGED storage_readers
  <1>1. /\ data' = [data EXCEPT ![a][u].readers = @ \cup {t}]
        /\ UNCHANGED storage_readers
    BY DEF RecordRead
  <1>2. DOMAIN data = Addresses /\ \A b \in Addresses : \A v \in DOMAIN data[b] :
             data[b][v] \in VersionedEntries(Readers)
    BY DEF InvTypeOK, MVTypeOK
  <1>3. QED BY <1>1, <1>2 DEF VersionedEntries

\* What a write changes: one version, in the address written.
LEMMA InsertEffect ==
    ASSUME InvTypeOK, NEW a \in Addresses, NEW t \in Readers, NEW i \in Nat,
           NEW s \in AccountStates, InsertVersion(a, t, i, s)
    PROVE  /\ DOMAIN data' = Addresses
           /\ \A b \in Addresses \ {a} : data'[b] = data[b]
           /\ DOMAIN data'[a] = DOMAIN data[a] \cup {t}
           /\ \A v \in DOMAIN data[a] \ {t} : data'[a][v] = data[a][v]
           /\ data'[a][t] \in VersionedEntries(Readers)
           /\ UNCHANGED storage_readers
  BY DEF InsertVersion, InvTypeOK, MVTypeOK, VersionedEntries

LEMMA InvInitOK == InvInit => InvTypeOK /\ Registered
  BY NumReadersAssumption, MaxIncarnationAssumption
  DEF InvInit, MVInit, InvTypeOK, MVTypeOK, Registered

LEMMA GenesisType == \A a \in Addresses : Genesis[a] \in AccountStates
  BY InitialBalanceAssumption DEF Genesis, AccountStates

-----------------------------------------------------------------------------

\* Nothing happens to a read that was registered if its address keeps its
\* versions, their incarnations and at least their readers.
LEMMA RegisteredFrame ==
    ASSUME NEW a \in Addresses, NEW t \in Readers, NEW version,
           DOMAIN data'[a] = DOMAIN data[a],
           \A v \in DOMAIN data[a] :
               /\ data'[a][v].incarnation = data[a][v].incarnation
               /\ data[a][v].readers \subseteq data'[a][v].readers,
           storage_readers[a] \subseteq storage_readers'[a],
           \/ version = Storage /\ Previous(a, t) = {} /\ t \in storage_readers[a]
           \/ \E u \in Previous(a, t) :
                 /\ version = <<u, data[a][u].incarnation>>
                 /\ t \in data[a][u].readers
    PROVE  \/ version = Storage /\ Previous(a, t)' = {} /\ t \in storage_readers'[a]
           \/ \E u \in Previous(a, t)' :
                 /\ version = <<u, data'[a][u].incarnation>>
                 /\ t \in data'[a][u].readers
  BY DEF Previous

LEMMA ReadStep ==
    ASSUME InvTypeOK, Registered, NEW t \in Readers, NEW a \in Addresses,
           ReadAccount(t, a)
    PROVE  InvTypeOK' /\ Registered'
  <1> DEFINE version == ReadVersion(a, t)
  <1>1. /\ t \notin stale /\ RecordAccount(a, t)
        /\ reads' = [reads EXCEPT ![t] = @ \cup {<<a, version>>}]
        /\ UNCHANGED <<incarnation, stale>>
    BY DEF ReadAccount
  <1>2. /\ version \in (Readers \X Nat) \cup {Storage}
        /\ DOMAIN data' = Addresses
        /\ storage_readers' \in [Addresses -> SUBSET Readers]
        /\ \A b \in Addresses :
              /\ DOMAIN data'[b] = DOMAIN data[b]
              /\ storage_readers[b] \subseteq storage_readers'[b]
              /\ \A v \in DOMAIN data[b] :
                    /\ data'[b][v] \in VersionedEntries(Readers)
                    /\ data'[b][v].incarnation = data[b][v].incarnation
                    /\ data[b][v].readers \subseteq data'[b][v].readers
        /\ \/ version = Storage /\ Previous(a, t) = {} /\ t \in storage_readers'[a]
           \/ \E u \in Previous(a, t) :
                 /\ version = <<u, data[a][u].incarnation>>
                 /\ u \in DOMAIN data[a]
                 /\ t \in data'[a][u].readers
    <2>1. CASE Previous(a, t) = {} /\ version = Storage
      BY <1>1, <2>1 DEF RecordAccount, RecordStorageRead, InvTypeOK, MVTypeOK
    <2>2. CASE \E u \in Previous(a, t) :
                 /\ u \in DOMAIN data[a] /\ u \in Readers
                 /\ data[a][u] \in VersionedEntries(Readers)
                 /\ version = <<u, data[a][u].incarnation>>
                 /\ version # Storage
                 /\ version \in Readers \X Nat
      <3>1. PICK u \in Previous(a, t) :
                 /\ u \in DOMAIN data[a]
                 /\ version = <<u, data[a][u].incarnation>>
                 /\ version # Storage
                 /\ version \in Readers \X Nat
        BY <2>2
      <3>2. RecordRead(a, t, <<u, data[a][u].incarnation>>)
        BY <1>1, <3>1 DEF RecordAccount
      <3>3. QED
        BY <3>1, <3>2, RecordReadEffect DEF InvTypeOK, MVTypeOK
    <2>3. QED BY <2>1, <2>2, ReadVersionCases
  <1> HIDE DEF version
  <1>3. InvTypeOK'
    BY <1>1, <1>2 DEF InvTypeOK, MVTypeOK
  <1>4. Registered'
    <2> SUFFICES ASSUME NEW x \in Readers \ stale, NEW r \in reads'[x]
                 PROVE  \/ /\ r[2] = Storage
                           /\ Previous(r[1], x)' = {}
                           /\ x \in storage_readers'[r[1]]
                        \/ \E u \in Previous(r[1], x)' :
                              /\ r[2] = <<u, data'[r[1]][u].incarnation>>
                              /\ x \in data'[r[1]][u].readers
      BY <1>1 DEF Registered
    <2>1. CASE r \in reads[x]
      <3>1. r[1] \in Addresses
        BY <2>1 DEF InvTypeOK
      <3>2. /\ DOMAIN data'[r[1]] = DOMAIN data[r[1]]
            /\ storage_readers[r[1]] \subseteq storage_readers'[r[1]]
            /\ \A v \in DOMAIN data[r[1]] :
                  /\ data'[r[1]][v].incarnation = data[r[1]][v].incarnation
                  /\ data[r[1]][v].readers \subseteq data'[r[1]][v].readers
        BY <1>2, <3>1
      <3>3. \/ r[2] = Storage /\ Previous(r[1], x) = {} /\ x \in storage_readers[r[1]]
            \/ \E u \in Previous(r[1], x) :
                  /\ r[2] = <<u, data[r[1]][u].incarnation>>
                  /\ x \in data[r[1]][u].readers
        BY <2>1 DEF Registered
      <3>4. Previous(r[1], x)' = Previous(r[1], x)
        BY <3>2 DEF Previous
      <3>5. CASE r[2] = Storage /\ Previous(r[1], x) = {} /\ x \in storage_readers[r[1]]
        BY <3>2, <3>4, <3>5
      <3>6. ASSUME NEW u \in Previous(r[1], x),
                   r[2] = <<u, data[r[1]][u].incarnation>>,
                   x \in data[r[1]][u].readers
            PROVE  /\ u \in Previous(r[1], x)'
                   /\ r[2] = <<u, data'[r[1]][u].incarnation>>
                   /\ x \in data'[r[1]][u].readers
        <4>1. u \in DOMAIN data[r[1]]
          BY DEF Previous
        <4>2. QED BY <3>2, <3>4, <3>6, <4>1
      <3>7. QED BY <3>3, <3>5, <3>6
    <2>2. CASE x = t /\ r = <<a, version>>
      <3>1. Previous(a, t)' = Previous(a, t)
        BY <1>2 DEF Previous
      <3>2. QED BY <1>2, <2>2, <3>1
    <2>3. QED BY <1>1, <2>1, <2>2 DEF InvTypeOK
  <1>5. QED BY <1>3, <1>4

LEMMA WriteStep ==
    ASSUME InvTypeOK, Registered, NEW t \in Readers, NEW a \in Addresses,
           t \notin DOMAIN data[a], WriteAccount(t, a)
    PROVE  InvTypeOK' /\ Registered'
  <1>1. /\ t \notin stale
        /\ stale' = stale \cup InvalidatedReaders(a, t)
        /\ UNCHANGED <<incarnation, reads>>
    BY DEF WriteAccount
  <1>2. /\ DOMAIN data' = Addresses
        /\ \A b \in Addresses \ {a} : data'[b] = data[b]
        /\ DOMAIN data'[a] = DOMAIN data[a] \cup {t}
        /\ \A v \in DOMAIN data[a] : data'[a][v] = data[a][v]
        /\ data'[a][t] \in VersionedEntries(Readers)
        /\ UNCHANGED storage_readers
    <2>1. incarnation[t] \in Nat /\ Genesis[a] \in AccountStates
      BY GenesisType, MaxIncarnationAssumption DEF InvTypeOK
    <2>2. InsertVersion(a, t, incarnation[t], Genesis[a])
      BY DEF WriteAccount
    <2>3. QED BY <2>1, <2>2, InsertEffect
  <1>3. InvTypeOK'
    <2>1. InvalidatedReaders(a, t) \subseteq Readers
      BY DEF InvalidatedReaders, PreviousReadersAbove, StorageReadersAbove,
             Previous, VersionedEntries, InvTypeOK, MVTypeOK
    <2>2. MVTypeOK(Readers)'
      BY <1>2 DEF InvTypeOK, MVTypeOK
    <2>3. QED BY <1>1, <2>1, <2>2 DEF InvTypeOK
  <1>4. Registered'
    <2> SUFFICES ASSUME NEW x \in Readers \ stale', NEW r \in reads[x]
                 PROVE  \/ /\ r[2] = Storage
                           /\ Previous(r[1], x)' = {}
                           /\ x \in storage_readers'[r[1]]
                        \/ \E u \in Previous(r[1], x)' :
                              /\ r[2] = <<u, data'[r[1]][u].incarnation>>
                              /\ x \in data'[r[1]][u].readers
      BY <1>1 DEF Registered
    <2>1. x \notin stale /\ x \notin InvalidatedReaders(a, t)
      BY <1>1
    <2>2. r[1] \in Addresses
      BY DEF InvTypeOK
    <2>3. \/ r[2] = Storage /\ Previous(r[1], x) = {} /\ x \in storage_readers[r[1]]
          \/ \E u \in Previous(r[1], x) :
                /\ r[2] = <<u, data[r[1]][u].incarnation>>
                /\ x \in data[r[1]][u].readers
      BY <2>1 DEF Registered
    <2>4. CASE r[1] # a
      <3>1. data'[r[1]] = data[r[1]] /\ UNCHANGED storage_readers
        BY <1>2, <2>2, <2>4
      <3>2. QED BY <2>2, <2>3, <3>1, RegisteredFrame
    <2>5. CASE r[1] = a
      <3> USE NumReadersAssumption DEF Readers
      <3>0. DOMAIN data[a] \subseteq Readers
        BY DEF InvTypeOK, MVTypeOK
      <3>1. CASE r[2] = Storage /\ Previous(a, x) = {} /\ x \in storage_readers[a]
        \* The write is the first below x only if x is not reported.
        <4>1. ~(t < x)
          <5>1. SUFFICES ASSUME t < x PROVE FALSE
            OBVIOUS
          <5>2. \A v \in DOMAIN data[a] : ~(v < x)
            BY <3>1, PreviousEmpty
          <5>3. Previous(a, t) = {}
            BY <3>0, <5>1, <5>2 DEF Previous
          <5>4. x \in InvalidatedReaders(a, t)
            BY <3>1, <5>1, <5>3
            DEF InvalidatedReaders, HasLowerVersion, StorageReadersAbove
          <5>5. QED BY <2>1, <5>4
        <4>2. Previous(a, x)' = {}
          BY <1>2, <3>0, <3>1, <4>1 DEF Previous
        <4>3. QED BY <1>2, <2>5, <3>1, <4>2
      <3>2. ASSUME NEW u \in Previous(a, x),
                   r[2] = <<u, data[a][u].incarnation>>, x \in data[a][u].readers
            PROVE  u \in Previous(a, x)'
        <4>1. u \in DOMAIN data[a] /\ u # t /\ u \in Readers
          BY <3>0 DEF Previous
        <4>2. ~(u < t /\ t < x)
          <5>1. SUFFICES ASSUME u < t, t < x PROVE FALSE
            OBVIOUS
          <5>2. u \in Previous(a, t)
            BY <3>0, <3>2, <4>1, <5>1 DEF Previous
          <5>3. x \in InvalidatedReaders(a, t)
            BY <3>2, <5>1, <5>2 DEF InvalidatedReaders, PreviousReadersAbove
          <5>4. QED BY <2>1, <5>3
        <4>3. QED
          BY <1>2, <3>0, <3>2, <4>1, <4>2 DEF Previous
      <3>3. QED
        BY <1>2, <2>3, <2>5, <3>1, <3>2 DEF Previous
    <2>6. QED BY <2>4, <2>5
  <1>5. QED BY <1>3, <1>4

LEMMA ReexecuteStep ==
    ASSUME InvTypeOK, Registered, NEW t \in Readers, Reexecute(t)
    PROVE  InvTypeOK' /\ Registered'
  <1>1. /\ incarnation' = [incarnation EXCEPT ![t] = @ + 1]
        /\ incarnation[t] < MaxIncarnation
        /\ reads' = [reads EXCEPT ![t] = {}]
        /\ stale' = stale \ {t}
        /\ UNCHANGED <<data, storage_readers>>
    BY DEF Reexecute, mvVars
  <1>2. InvTypeOK'
    BY <1>1, MaxIncarnationAssumption DEF InvTypeOK, MVTypeOK
  <1>3. Registered'
    BY <1>1 DEF Registered, Previous, InvTypeOK
  <1>4. QED BY <1>2, <1>3

\* The map's types, and that every unreported read is registered where the next
\* write below its reader looks, are kept by read_account, write
\* and re-execution.
THEOREM RegistrationInvariant == WriteOnceSpec => []InvInductive
  <1>1. InvInit => InvInductive
    BY InvInitOK DEF InvInductive
  <1>2. InvInductive /\ [WriteOnceNext]_callerVars => InvInductive'
    <2> SUFFICES ASSUME InvTypeOK, Registered, [WriteOnceNext]_callerVars
                 PROVE  InvTypeOK' /\ Registered'
      BY DEF InvInductive
    <2>1. CASE UNCHANGED callerVars
      BY <2>1 DEF callerVars, mvVars, InvTypeOK, MVTypeOK, Registered, Previous
    <2>2. CASE WriteOnceNext
      BY <2>2, ReadStep, WriteStep, ReexecuteStep DEF WriteOnceNext
    <2>3. QED BY <2>1, <2>2
  <1>3. QED BY <1>1, <1>2, PTL DEF WriteOnceSpec

\* Whatever the caller does, as long as no transaction writes an address it has
\* a version of, a read that no write has reported would be repeated: readers of
\* storage and readers of the previous version are all found by MVHashMap::write.
THEOREM InvalidationIsComplete == WriteOnceSpec => []InvalidationComplete
  <1>1. InvInductive => InvalidationComplete
    BY RegisteredSuffices DEF InvInductive
  <1>2. QED BY <1>1, RegistrationInvariant, PTL

=============================================================================

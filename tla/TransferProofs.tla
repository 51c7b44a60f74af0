--------------------------- MODULE TransferProofs ---------------------------
(***************************************************************************)
(* Facts about workloads and ledgers that the executors' proofs share.     *)
(***************************************************************************)
EXTENDS Transfers, FiniteSetTheorems, WellFoundedInduction, TLAPS

LEMMA IndicesFinite ==
    ASSUME NEW n \in Nat, NEW S \in SUBSET (0 .. n - 1)
    PROVE  IsFiniteSet(S) /\ Cardinality(S) \in Nat
  <1>1. IsFiniteSet(0 .. n - 1)
    BY FS_Interval
  <1>2. IsFiniteSet(S)
    BY <1>1, FS_Subset
  <1>3. QED BY <1>2, FS_CardinalityType

LEMMA GenesisOK == Genesis \in [Addresses -> AccountStates]
  BY InitialBalanceAssumption DEF Genesis, AccountStates

\* generate: the nonces of a sender increase along the workload, and nobody
\* sends to itself.
LEMMA WorkloadsWellFormed ==
    ASSUME NEW n \in Nat, NEW outcomes \in SUBSET BOOLEAN,
           NEW x \in Workloads(n, outcomes)
    PROVE  WellFormed(x, n)
  <1> DEFINE Indices == 0 .. n - 1
  <1>1. PICK pairs \in [Indices -> Pairs], sigs \in [Indices -> outcomes] :
            x = Workload(pairs, sigs)
    BY DEF Workloads
  <1> DEFINE Before(t) == {u \in Indices : u < t /\ pairs[u][1] = pairs[t][1]}
  <1>2. \A t \in Indices : NextNonce(pairs, t) = Cardinality(Before(t))
    BY <1>1 DEF NextNonce
  <1>3. \A t \in Indices : IsFiniteSet(Before(t)) /\ Cardinality(Before(t)) \in Nat
    BY IndicesFinite
  <1>4. \A t \in Indices : /\ pairs[t][1] \in Addresses /\ pairs[t][2] \in Addresses
                           /\ pairs[t][1] # pairs[t][2]
    BY <1>1 DEF Pairs
  <1>5. \A t \in Indices : sigs[t] \in BOOLEAN
    BY <1>1
  <1>6. x = [t \in Indices |->
                [from |-> pairs[t][1], to |-> pairs[t][2], value |-> 1,
                 nonce |-> Cardinality(Before(t)), signed |-> sigs[t]]]
    BY <1>1, <1>2 DEF Workload
  <1>7. ASSUME NEW u \in Indices, NEW t \in Indices,
               u < t, pairs[u][1] = pairs[t][1]
        PROVE  Cardinality(Before(u)) < Cardinality(Before(t))
    <2>1. Before(u) \cup {u} \subseteq Before(t)
      BY <1>7
    <2>2. u \notin Before(u)
      OBVIOUS
    <2> HIDE DEF Before
    <2>3. /\ IsFiniteSet(Before(u) \cup {u})
          /\ Cardinality(Before(u) \cup {u}) = Cardinality(Before(u)) + 1
      BY <1>3, <2>2, FS_AddElement
    <2>4. Cardinality(Before(u) \cup {u}) <= Cardinality(Before(t))
      BY <1>3, <2>1, FS_Subset
    <2>5. Cardinality(Before(u)) \in Nat /\ Cardinality(Before(t)) \in Nat
      BY <1>3
    <2>6. QED BY <2>3, <2>4, <2>5
  <1> HIDE DEF Before
  <1>8. x \in [Indices -> SignedTransactions]
    BY <1>3, <1>4, <1>5, <1>6 DEF SignedTransactions
  <1>9. \A t \in Indices : x[t].from # x[t].to /\ x[t].value = 1
    BY <1>4, <1>6
  <1>10. QED
    BY <1>6, <1>7, <1>8, <1>9 DEF WellFormed

-----------------------------------------------------------------------------
(* Induction over the transactions of a workload, in its least-counterexample *)
(* form: a set of naturals that is not empty has a least element.              *)

LEMMA LeastNatural ==
    ASSUME NEW S \in SUBSET Nat, S # {}
    PROVE  \E m \in S : \A k \in S : m <= k
  <1> DEFINE R == {ss \in Nat \X Nat : ss[1] < ss[2]}
  <1>1. IsWellFoundedOn(R, Nat)
    BY NatLessThanWellFounded DEF OpToRel
  <1>2. ASSUME NEW y \in Nat, NEW x \in Nat, y < x PROVE <<y, x>> \in R
    BY <1>2
  <1> HIDE DEF R
  <1>3. PICK x \in S : \A y \in S : ~ (<<y, x>> \in R)
    BY <1>1, WFMin
  <1>4. ASSUME NEW y \in S PROVE x <= y
    <2>1. ~(y < x)
      BY <1>2, <1>3
    <2>2. QED BY <2>1
  <1>5. QED BY <1>4

\* r is the run of the first k transactions of x: a ledger before each of them
\* and one at the end.
IsRun(x, k, r) ==
    r = [n \in 0 .. k |-> IF n = 0 THEN Genesis ELSE Apply(x[n - 1], r[n - 1])]

\* The equation that defines the ledger after k transactions has a solution.
LEMMA RunExists ==
    ASSUME NEW x, NEW k \in Nat
    PROVE  \E r : IsRun(x, k, r)
  <1> DEFINE Bad == {n \in Nat : ~\E r : IsRun(x, n, r)}
  <1> SUFFICES ASSUME Bad # {} PROVE FALSE
    OBVIOUS
  <1>1. PICK m \in Bad : \A n \in Bad : m <= n
    BY LeastNatural
  <1>2. IsRun(x, 0, [n \in 0 .. 0 |-> Genesis])
    BY DEF IsRun
  <1>3. m # 0 /\ m \in Nat
    BY <1>1, <1>2
  <1>4. m - 1 \in Nat /\ m - 1 \notin Bad
    BY <1>1, <1>3
  <1>5. PICK r : IsRun(x, m - 1, r)
    BY <1>4
  <1> DEFINE q == [n \in 0 .. m |-> IF n = m THEN Apply(x[m - 1], r[m - 1]) ELSE r[n]]
  <1>6. \A n \in 0 .. m - 1 : r[n] = IF n = 0 THEN Genesis ELSE Apply(x[n - 1], r[n - 1])
    BY <1>5 DEF IsRun
  <1>7. ASSUME NEW n \in 0 .. m
        PROVE  q[n] = IF n = 0 THEN Genesis ELSE Apply(x[n - 1], q[n - 1])
    <2>1. CASE n = m
      <3>1. q[n] = Apply(x[n - 1], r[n - 1])
        BY <2>1
      <3>2. n # 0 /\ q[n - 1] = r[n - 1]
        BY <1>3, <2>1
      <3>3. QED BY <3>1, <3>2
    <2>2. CASE n # m
      <3>1. n \in 0 .. m - 1 /\ q[n] = r[n]
        BY <1>3, <2>2
      <3>2. n # 0 => q[n - 1] = r[n - 1]
        BY <1>3, <3>1
      <3>3. QED BY <1>6, <3>1, <3>2
    <2>3. QED BY <2>1, <2>2
  <1>8. IsRun(x, m, q)
    <2>1. q = [n \in 0 .. m |-> q[n]]
      OBVIOUS
    <2> HIDE DEF q
    <2>2. QED BY <1>7, <2>1 DEF IsRun
  <1>9. QED BY <1>1, <1>8

\* Two runs agree as far as both go.
LEMMA RunsAgree ==
    ASSUME NEW x, NEW j \in Nat, NEW k \in Nat, j <= k,
           NEW q, IsRun(x, j, q), NEW r, IsRun(x, k, r)
    PROVE  \A n \in 0 .. j : q[n] = r[n]
  <1> DEFINE Bad == {n \in 0 .. j : q[n] # r[n]}
  <1> SUFFICES ASSUME Bad # {} PROVE FALSE
    OBVIOUS
  <1>1. PICK m \in Bad : \A n \in Bad : m <= n
    <2>1. Bad \in SUBSET Nat
      OBVIOUS
    <2> HIDE DEF Bad
    <2>2. QED BY <2>1, LeastNatural
  <1>2. /\ q[m] = IF m = 0 THEN Genesis ELSE Apply(x[m - 1], q[m - 1])
        /\ r[m] = IF m = 0 THEN Genesis ELSE Apply(x[m - 1], r[m - 1])
    <2>1. /\ \A n \in 0 .. j : q[n] = IF n = 0 THEN Genesis ELSE Apply(x[n - 1], q[n - 1])
          /\ \A n \in 0 .. k : r[n] = IF n = 0 THEN Genesis ELSE Apply(x[n - 1], r[n - 1])
      BY DEF IsRun
    <2>2. m \in 0 .. j /\ m \in 0 .. k
      OBVIOUS
    <2>3. QED BY <2>1, <2>2
  <1>3. m # 0
    BY <1>2
  <1>4. m - 1 \in 0 .. j /\ m - 1 \notin Bad
    BY <1>1, <1>3
  <1>5. QED BY <1>2, <1>3, <1>4

LEMMA LedgerAfterIs ==
    ASSUME NEW x, NEW k \in Nat, NEW r, IsRun(x, k, r)
    PROVE  LedgerAfter(x, k) = r[k]
  <1> DEFINE q == CHOOSE p : IsRun(x, k, p)
  <1>1. IsRun(x, k, q)
    BY RunExists
  <1>2. LedgerAfter(x, k) = q[k]
    BY DEF LedgerAfter, IsRun
  <1> HIDE DEF q
  <1>3. q[k] = r[k]
    BY <1>1, RunsAgree
  <1>4. QED BY <1>2, <1>3

\* What the recursion computes: nothing, and one more transaction.
LEMMA LedgerAfterZero ==
    ASSUME NEW x
    PROVE  LedgerAfter(x, 0) = Genesis
  <1>1. IsRun(x, 0, [n \in 0 .. 0 |-> Genesis])
    BY DEF IsRun
  <1>2. QED BY <1>1, LedgerAfterIs

LEMMA LedgerAfterNext ==
    ASSUME NEW x, NEW k \in Nat
    PROVE  LedgerAfter(x, k + 1) = Apply(x[k], LedgerAfter(x, k))
  <1>1. PICK r : IsRun(x, k + 1, r)
    BY RunExists
  <1>2. PICK q : IsRun(x, k, q)
    BY RunExists
  <1>3. q[k] = r[k]
    BY <1>1, <1>2, RunsAgree
  <1>4. r[k + 1] = Apply(x[k], r[k])
    BY <1>1 DEF IsRun
  <1>5. QED BY <1>1, <1>2, <1>3, <1>4, LedgerAfterIs

-----------------------------------------------------------------------------
(* What executing a workload in order does to the ledger.                      *)

\* One iteration keeps the ledger well typed and touches two accounts at most.
LEMMA ApplyTyped ==
    ASSUME NEW tx \in SignedTransactions, tx.from # tx.to,
           NEW ledger \in [Addresses -> AccountStates]
    PROVE  /\ Apply(tx, ledger) \in [Addresses -> AccountStates]
           /\ \A a \in Addresses \ {tx.from, tx.to} : Apply(tx, ledger)[a] = ledger[a]
           /\ Succeeds(tx, ledger) =>
                 /\ Apply(tx, ledger)[tx.from] = Debit(tx, ledger[tx.from])
                 /\ Apply(tx, ledger)[tx.to] = Credit(tx, ledger[tx.to])
  <1>1. /\ tx.from \in Addresses /\ tx.to \in Addresses
        /\ tx.value \in Nat /\ tx.nonce \in Nat
    BY DEF SignedTransactions
  <1>2. CASE ~Succeeds(tx, ledger)
    BY <1>2 DEF Apply
  <1>3. CASE Succeeds(tx, ledger)
    <2>1. Debit(tx, ledger[tx.from]) \in AccountStates
      BY <1>1, <1>3 DEF Succeeds, Accepts, Debit, AccountStates
    <2>2. Credit(tx, ledger[tx.to]) \in AccountStates
      BY <1>1 DEF Credit, AccountStates
    <2>3. Apply(tx, ledger) = [ledger EXCEPT ![tx.from] = Debit(tx, ledger[tx.from]),
                                             ![tx.to] = Credit(tx, ledger[tx.to])]
      BY <1>1, <1>3 DEF Apply
    <2>4. QED BY <1>1, <2>1, <2>2, <2>3
  <1>4. QED BY <1>2, <1>3

\* No balance goes negative on the way: every ledger of the ordered execution is
\* one of account states.
LEMMA LedgerTyped ==
    ASSUME NEW n \in Nat, NEW x, WellFormed(x, n), NEW k \in 0 .. n
    PROVE  LedgerAfter(x, k) \in [Addresses -> AccountStates]
  <1> DEFINE Bad == {j \in 0 .. n : LedgerAfter(x, j) \notin [Addresses -> AccountStates]}
  <1> SUFFICES ASSUME Bad # {} PROVE FALSE
    OBVIOUS
  <1>1. PICK m \in Bad : \A j \in Bad : m <= j
    <2>1. Bad \in SUBSET Nat
      OBVIOUS
    <2> HIDE DEF Bad
    <2>2. QED BY <2>1, LeastNatural
  <1>2. m \in 0 .. n /\ LedgerAfter(x, m) \notin [Addresses -> AccountStates]
    BY <1>1
  <1>3. m # 0
    BY <1>2, LedgerAfterZero, GenesisOK
  <1>4. m - 1 \in 0 .. n - 1 /\ m - 1 \in 0 .. n /\ m - 1 \in Nat /\ (m - 1) + 1 = m
    BY <1>2, <1>3
  <1>5. LedgerAfter(x, m - 1) \in [Addresses -> AccountStates]
    BY <1>1, <1>4
  <1>6. x[m - 1] \in SignedTransactions /\ x[m - 1].from # x[m - 1].to
    BY <1>4 DEF WellFormed
  <1>7. LedgerAfter(x, m) = Apply(x[m - 1], LedgerAfter(x, m - 1))
    BY <1>4, LedgerAfterNext
  <1>8. QED BY <1>2, <1>5, <1>6, <1>7, ApplyTyped

\* An account is left alone by the transactions that do not touch it.
LEMMA LedgerStable ==
    ASSUME NEW n \in Nat, NEW x, WellFormed(x, n), NEW k \in 0 .. n, NEW lo \in 0 .. k,
           NEW a \in Addresses, \A u \in lo .. k - 1 : a \notin {x[u].from, x[u].to}
    PROVE  LedgerAfter(x, k)[a] = LedgerAfter(x, lo)[a]
  <1> DEFINE Bad == {j \in lo .. k : LedgerAfter(x, j)[a] # LedgerAfter(x, lo)[a]}
  <1> SUFFICES ASSUME Bad # {} PROVE FALSE
    OBVIOUS
  <1>1. PICK m \in Bad : \A j \in Bad : m <= j
    <2>1. Bad \in SUBSET Nat
      OBVIOUS
    <2> HIDE DEF Bad
    <2>2. QED BY <2>1, LeastNatural
  <1>2. m \in lo .. k /\ LedgerAfter(x, m)[a] # LedgerAfter(x, lo)[a]
    BY <1>1
  <1>3. m # lo
    BY <1>2
  <1>4. /\ m - 1 \in 0 .. n - 1 /\ m - 1 \in lo .. k - 1 /\ m - 1 \in lo .. k
        /\ m - 1 \in 0 .. n /\ m - 1 \in Nat /\ (m - 1) + 1 = m
    BY <1>2, <1>3
  <1>5. LedgerAfter(x, m - 1)[a] = LedgerAfter(x, lo)[a]
    BY <1>1, <1>4
  <1>6. x[m - 1] \in SignedTransactions /\ x[m - 1].from # x[m - 1].to
    BY <1>4 DEF WellFormed
  <1>7. LedgerAfter(x, m) = Apply(x[m - 1], LedgerAfter(x, m - 1))
    BY <1>4, LedgerAfterNext
  <1>8. LedgerAfter(x, m - 1) \in [Addresses -> AccountStates]
    BY <1>4, LedgerTyped
  <1>9. a \notin {x[m - 1].from, x[m - 1].to}
    BY <1>4
  <1>10. LedgerAfter(x, m)[a] = LedgerAfter(x, m - 1)[a]
    BY <1>6, <1>7, <1>8, <1>9, ApplyTyped
  <1>11. QED BY <1>2, <1>5, <1>10

\* An account no transaction has touched yet is as create_db left it.
LEMMA LedgerUntouched ==
    ASSUME NEW n \in Nat, NEW x, WellFormed(x, n), NEW k \in 0 .. n,
           NEW a \in Addresses, \A u \in 0 .. k - 1 : a \notin {x[u].from, x[u].to}
    PROVE  LedgerAfter(x, k)[a] = Genesis[a]
  <1>1. 0 \in 0 .. k
    OBVIOUS
  <1>2. LedgerAfter(x, k)[a] = LedgerAfter(x, 0)[a]
    BY <1>1, LedgerStable
  <1>3. QED BY <1>2, LedgerAfterZero

-----------------------------------------------------------------------------
(* Counting what an ordered execution applies.                                 *)

\* An ordered execution applies transactions of the workload.
LEMMA AppliedIndices ==
    ASSUME NEW n \in Nat, NEW x, WellFormed(x, n)
    PROVE  AppliedInOrder(x) \in SUBSET (0 .. n - 1)
  BY DEF AppliedInOrder, WellFormed

\* One more transaction counts once if it is applied, and not at all if not.
LEMMA AppliedCount ==
    ASSUME NEW n \in Nat, NEW x, WellFormed(x, n), NEW k \in 0 .. n - 1, NEW lo \in 0 .. k
    PROVE  /\ Cardinality(AppliedInOrder(x) \cap (lo .. k - 1)) \in Nat
           /\ Succeeds(x[k], LedgerAfter(x, k)) =>
                 Cardinality(AppliedInOrder(x) \cap (lo .. k))
                    = Cardinality(AppliedInOrder(x) \cap (lo .. k - 1)) + 1
           /\ ~Succeeds(x[k], LedgerAfter(x, k)) =>
                 Cardinality(AppliedInOrder(x) \cap (lo .. k))
                    = Cardinality(AppliedInOrder(x) \cap (lo .. k - 1))
  <1> DEFINE A == AppliedInOrder(x)
             before == A \cap (lo .. k - 1)
             upto == A \cap (lo .. k)
  <1>1. A \in SUBSET (0 .. n - 1)
    BY AppliedIndices
  <1>2. k \in A <=> Succeeds(x[k], LedgerAfter(x, k))
    BY DEF AppliedInOrder, WellFormed
  <1> HIDE DEF A
  <1>3. before \in SUBSET (0 .. n - 1) /\ k \notin before
    BY <1>1
  <1>4. upto = IF k \in A THEN before \cup {k} ELSE before
    BY <1>1
  <1> HIDE DEF before, upto
  <1>5. IsFiniteSet(before) /\ Cardinality(before) \in Nat
    BY <1>3, IndicesFinite
  <1>6. Cardinality(before \cup {k}) = Cardinality(before) + 1
    BY <1>3, <1>5, FS_AddElement
  <1>7. QED BY <1>2, <1>4, <1>5, <1>6 DEF before, upto, A

\* Of the transactions lo .. k - 1, at most k - lo are applied.
LEMMA AppliedAtMost ==
    ASSUME NEW n \in Nat, NEW x, WellFormed(x, n), NEW k \in 0 .. n, NEW lo \in 0 .. k
    PROVE  /\ Cardinality(AppliedInOrder(x) \cap (lo .. k - 1)) \in 0 .. k - lo
           /\ Cardinality(lo .. k - 1) = k - lo
  <1> DEFINE S == AppliedInOrder(x) \cap (lo .. k - 1)
  <1>1. IsFiniteSet(lo .. k - 1) /\ Cardinality(lo .. k - 1) = k - lo
    <2>1. lo \in Int /\ k - 1 \in Int
      OBVIOUS
    <2>2. /\ IsFiniteSet(lo .. k - 1)
          /\ Cardinality(lo .. k - 1) = IF lo > k - 1 THEN 0 ELSE (k - 1) - lo + 1
      BY <2>1, FS_Interval
    <2>3. QED BY <2>2
  <1>2. S \subseteq lo .. k - 1
    OBVIOUS
  <1> HIDE DEF S
  <1>3. /\ IsFiniteSet(S) /\ Cardinality(S) <= Cardinality(lo .. k - 1)
    BY <1>1, <1>2, FS_Subset
  <1>4. Cardinality(S) \in Nat
    BY <1>3, FS_CardinalityType
  <1>5. QED BY <1>1, <1>3, <1>4 DEF S

-----------------------------------------------------------------------------
(* What the generator promises of the workloads it makes.                      *)

SentBefore(x, k, a) == {u \in DOMAIN x : u < k /\ x[u].from = a}

\* generate: a nonce is the number of earlier transactions of the same sender.
LEMMA GeneratedNonce ==
    ASSUME NEW n \in Nat, NEW outcomes, NEW x \in Workloads(n, outcomes), NEW k \in 0 .. n - 1
    PROVE  x[k].nonce = Cardinality(SentBefore(x, k, x[k].from))
  <1> DEFINE Indices == 0 .. n - 1
  <1>1. PICK pairs \in [Indices -> Pairs], sigs \in [Indices -> outcomes] :
            x = Workload(pairs, sigs)
    BY DEF Workloads
  <1>2. x = [t \in Indices |->
                [from |-> pairs[t][1], to |-> pairs[t][2], value |-> 1,
                 nonce |-> NextNonce(pairs, t), signed |-> sigs[t]]]
    BY <1>1 DEF Workload
  <1>3. x[k].nonce = NextNonce(pairs, k)
    BY <1>2
  <1>4. DOMAIN x = Indices /\ \A t \in Indices : x[t].from = pairs[t][1]
    BY <1>2
  <1>5. SentBefore(x, k, x[k].from) = {u \in DOMAIN pairs : u < k /\ pairs[u][1] = pairs[k][1]}
    BY <1>1, <1>4 DEF SentBefore
  <1>6. QED BY <1>3, <1>5 DEF NextNonce

\* As long as everything so far was applied, an account is what it has sent and
\* received makes of it.
ReceivedBefore(x, k, a) == {u \in DOMAIN x : u < k /\ x[u].to = a}

EverythingSent(x, k) ==
    \A a \in Addresses :
        /\ LedgerAfter(x, k)[a].nonce = Cardinality(SentBefore(x, k, a))
        /\ LedgerAfter(x, k)[a].balance + Cardinality(SentBefore(x, k, a))
              = InitialBalance + Cardinality(ReceivedBefore(x, k, a))

\* No sender sends more than it starts with.
Funded(x) ==
    \A a \in Addresses : Cardinality({t \in DOMAIN x : x[t].from = a}) <= InitialBalance

\* In particular, nobody who starts with at least 1 for every transaction.
LEMMA RichAreFunded ==
    ASSUME NEW n \in Nat, NEW x, WellFormed(x, n), InitialBalance >= n
    PROVE  Funded(x)
  <1> SUFFICES ASSUME NEW a \in Addresses
               PROVE  Cardinality({t \in DOMAIN x : x[t].from = a}) <= InitialBalance
    BY DEF Funded
  <1> DEFINE all == {t \in DOMAIN x : x[t].from = a}
  <1>1. all \subseteq 0 .. n - 1
    BY DEF WellFormed
  <1>2. IsFiniteSet(0 .. n - 1) /\ Cardinality(0 .. n - 1) = n
    <2>1. 0 \in Int /\ n - 1 \in Int
      OBVIOUS
    <2>2. /\ IsFiniteSet(0 .. n - 1)
          /\ Cardinality(0 .. n - 1) = IF 0 > n - 1 THEN 0 ELSE (n - 1) - 0 + 1
      BY <2>1, FS_Interval
    <2>3. QED BY <2>2
  <1> HIDE DEF all
  <1>3. IsFiniteSet(all) /\ Cardinality(all) <= Cardinality(0 .. n - 1)
    BY <1>1, <1>2, FS_Subset
  <1>4. Cardinality(all) \in Nat
    BY <1>3, FS_CardinalityType
  <1>5. Cardinality(all) <= InitialBalance
    BY <1>2, <1>3, <1>4, InitialBalanceAssumption
  <1>6. QED BY <1>5 DEF all

LEMMA SentNext ==
    ASSUME NEW n \in Nat, NEW x, WellFormed(x, n), NEW k \in 0 .. n - 1, NEW a
    PROVE  /\ Cardinality(SentBefore(x, k, a)) \in Nat
           /\ Cardinality(ReceivedBefore(x, k, a)) \in Nat
           /\ Cardinality(SentBefore(x, k + 1, a))
                 = Cardinality(SentBefore(x, k, a)) + IF x[k].from = a THEN 1 ELSE 0
           /\ Cardinality(ReceivedBefore(x, k + 1, a))
                 = Cardinality(ReceivedBefore(x, k, a)) + IF x[k].to = a THEN 1 ELSE 0
  <1> DEFINE S == SentBefore(x, k, a)
             R == ReceivedBefore(x, k, a)
  <1>1. S \in SUBSET (0 .. n - 1) /\ R \in SUBSET (0 .. n - 1) /\ k \notin S /\ k \notin R
    BY DEF SentBefore, ReceivedBefore, WellFormed
  <1>2. /\ SentBefore(x, k + 1, a) = IF x[k].from = a THEN S \cup {k} ELSE S
        /\ ReceivedBefore(x, k + 1, a) = IF x[k].to = a THEN R \cup {k} ELSE R
    BY DEF SentBefore, ReceivedBefore, WellFormed
  <1> HIDE DEF S, R
  <1>3. /\ IsFiniteSet(S) /\ Cardinality(S) \in Nat
        /\ IsFiniteSet(R) /\ Cardinality(R) \in Nat
    BY <1>1, IndicesFinite
  <1>4. /\ Cardinality(S \cup {k}) = Cardinality(S) + 1
        /\ Cardinality(R \cup {k}) = Cardinality(R) + 1
    BY <1>1, <1>3, FS_AddElement
  <1>5. QED BY <1>2, <1>3, <1>4 DEF S, R

\* A transaction of a generated, signed workload succeeds after all before it:
\* what its sender has sent so far, and this one, are among what it sends in all.
LEMMA SentSucceeds ==
    ASSUME NEW n \in Nat, NEW outcomes \in SUBSET BOOLEAN, NEW x \in Workloads(n, outcomes),
           NEW k \in 0 .. n - 1, x[k].signed, Funded(x), EverythingSent(x, k)
    PROVE  Succeeds(x[k], LedgerAfter(x, k))
  <1> DEFINE a == x[k].from
             all == {t \in DOMAIN x : x[t].from = a}
  <1>1. WellFormed(x, n)
    BY WorkloadsWellFormed
  <1>2. x[k] \in SignedTransactions /\ x[k].value = 1
    BY <1>1 DEF WellFormed
  <1>3. a \in Addresses
    BY <1>2 DEF SignedTransactions
  <1>4. LedgerAfter(x, k) \in [Addresses -> AccountStates]
    <2>1. k \in 0 .. n
      OBVIOUS
    <2>2. QED BY <1>1, <2>1, LedgerTyped
  <1>5. LedgerAfter(x, k)[a].nonce = x[k].nonce
    BY <1>3, GeneratedNonce DEF EverythingSent
  <1>6. Cardinality(SentBefore(x, k + 1, a)) <= Cardinality(all)
    <2>1. SentBefore(x, k + 1, a) \subseteq all /\ all \in SUBSET (0 .. n - 1)
      BY <1>1 DEF SentBefore, WellFormed
    <2> HIDE DEF all
    <2>2. IsFiniteSet(all)
      BY <2>1, IndicesFinite
    <2>3. QED BY <2>1, <2>2, FS_Subset
  <1>7. Cardinality(all) <= InitialBalance /\ Cardinality(all) \in Nat
    <2>1. all \in SUBSET (0 .. n - 1)
      BY <1>1 DEF WellFormed
    <2>2. Cardinality(all) <= InitialBalance
      BY <1>3 DEF Funded
    <2> HIDE DEF all
    <2>3. QED BY <2>1, <2>2, IndicesFinite
  <1>8. LedgerAfter(x, k)[a].balance >= 1
    <2> DEFINE s == Cardinality(SentBefore(x, k, a))
               r == Cardinality(ReceivedBefore(x, k, a))
    <2>1. LedgerAfter(x, k)[a].balance \in Nat
      BY <1>3, <1>4 DEF AccountStates
    <2>2. LedgerAfter(x, k)[a].balance + s = InitialBalance + r
      BY <1>3 DEF EverythingSent
    <2>3. s \in Nat /\ r \in Nat /\ Cardinality(SentBefore(x, k + 1, a)) = s + 1
      BY <1>1, SentNext
    <2> HIDE DEF s, r, a, all
    <2>4. QED BY <1>6, <1>7, <2>1, <2>2, <2>3, InitialBalanceAssumption
  <1>9. QED BY <1>2, <1>5, <1>8 DEF Succeeds, Accepts

LEMMA SentInductive ==
    ASSUME NEW n \in Nat, NEW outcomes \in SUBSET BOOLEAN, NEW x \in Workloads(n, outcomes),
           NEW k \in 0 .. n - 1, x[k].signed, Funded(x), EverythingSent(x, k)
    PROVE  EverythingSent(x, k + 1)
  <1> DEFINE tx == x[k]
             before == LedgerAfter(x, k)
             after == LedgerAfter(x, k + 1)
  <1>1. WellFormed(x, n)
    BY WorkloadsWellFormed
  <1>2. tx \in SignedTransactions /\ tx.from # tx.to /\ tx.value = 1
    BY <1>1 DEF WellFormed
  <1>3. tx.from \in Addresses /\ tx.to \in Addresses
    BY <1>2 DEF SignedTransactions
  <1>4. before \in [Addresses -> AccountStates]
    <2>1. k \in 0 .. n
      OBVIOUS
    <2>2. QED BY <1>1, <2>1, LedgerTyped
  <1>5. after = Apply(tx, before)
    BY LedgerAfterNext
  <1>6. Succeeds(tx, before)
    BY SentSucceeds
  <1> HIDE DEF tx, before, after
  <1>7. /\ \A a \in Addresses \ {tx.from, tx.to} : after[a] = before[a]
        /\ after[tx.from] = Debit(tx, before[tx.from])
        /\ after[tx.to] = Credit(tx, before[tx.to])
    BY <1>2, <1>4, <1>5, <1>6, ApplyTyped
  <1>8. ASSUME NEW a \in Addresses
        PROVE  /\ after[a].nonce = before[a].nonce + IF tx.from = a THEN 1 ELSE 0
               /\ after[a].balance + (IF tx.from = a THEN 1 ELSE 0)
                     = before[a].balance + (IF tx.to = a THEN 1 ELSE 0)
    <2>1. before[a].nonce \in Nat /\ before[a].balance \in Nat
      BY <1>4 DEF AccountStates
    <2>2. CASE a = tx.from
      BY <1>2, <1>7, <2>1, <2>2 DEF Debit
    <2>3. CASE a = tx.to
      BY <1>2, <1>7, <2>1, <2>3 DEF Credit
    <2>4. CASE a \notin {tx.from, tx.to}
      BY <1>7, <2>1, <2>4
    <2>5. QED BY <2>2, <2>3, <2>4
  <1>9. ASSUME NEW a \in Addresses
        PROVE  /\ after[a].nonce = Cardinality(SentBefore(x, k + 1, a))
               /\ after[a].balance + Cardinality(SentBefore(x, k + 1, a))
                     = InitialBalance + Cardinality(ReceivedBefore(x, k + 1, a))
    <2> DEFINE s == Cardinality(SentBefore(x, k, a))
               r == Cardinality(ReceivedBefore(x, k, a))
    <2>1. before[a].nonce = s /\ before[a].balance + s = InitialBalance + r
      BY DEF EverythingSent, before
    <2>2. /\ s \in Nat /\ r \in Nat
          /\ Cardinality(SentBefore(x, k + 1, a)) = s + IF tx.from = a THEN 1 ELSE 0
          /\ Cardinality(ReceivedBefore(x, k + 1, a)) = r + IF tx.to = a THEN 1 ELSE 0
      BY <1>1, SentNext DEF tx
    <2>3. before[a].balance \in Nat /\ after[a].balance \in Int
      <3>1. before[a].balance \in Nat
        BY <1>4 DEF AccountStates
      <3>2. after \in [Addresses -> AccountStates]
        BY <1>2, <1>4, <1>5, ApplyTyped
      <3>3. QED BY <3>1, <3>2 DEF AccountStates
    <2> HIDE DEF s, r
    <2>4. QED BY <1>8, <2>1, <2>2, <2>3, InitialBalanceAssumption
  <1>10. QED BY <1>9 DEF EverythingSent, after

\* The generator and the checks agree: when every signature verifies and nobody
\* can run out of funds, an ordered execution applies every transaction, and
\* leaves every account with all it has sent and received.
LEMMA GeneratedApplied ==
    ASSUME NEW n \in Nat, NEW outcomes \in SUBSET BOOLEAN, NEW x \in Workloads(n, outcomes),
           \A t \in 0 .. n - 1 : x[t].signed, Funded(x)
    PROVE  AppliedInOrder(x) = 0 .. n - 1 /\ EverythingSent(x, n)
  <1> DEFINE Bad == {j \in 0 .. n : ~EverythingSent(x, j)}
  <1>1. WellFormed(x, n)
    BY WorkloadsWellFormed
  <1>2. EverythingSent(x, 0)
    <2>1. \A a \in Addresses : SentBefore(x, 0, a) = {} /\ ReceivedBefore(x, 0, a) = {}
      BY <1>1 DEF SentBefore, ReceivedBefore, WellFormed
    <2>2. LedgerAfter(x, 0) = Genesis
      BY LedgerAfterZero
    <2>3. \A a \in Addresses : Genesis[a].nonce = 0 /\ Genesis[a].balance = InitialBalance
      BY DEF Genesis
    <2>4. Cardinality({}) = 0
      BY FS_EmptySet
    <2>5. QED
      BY <2>1, <2>2, <2>3, <2>4, InitialBalanceAssumption DEF EverythingSent
  <1>3. Bad = {}
    <2> SUFFICES ASSUME Bad # {} PROVE FALSE
      OBVIOUS
    <2>1. PICK m \in Bad : \A j \in Bad : m <= j
      <3>1. Bad \in SUBSET Nat
        OBVIOUS
      <3> HIDE DEF Bad
      <3>2. QED BY <3>1, LeastNatural
    <2>2. m \in 0 .. n /\ ~EverythingSent(x, m)
      BY <2>1
    <2>3. m # 0
      BY <1>2, <2>2
    <2>4. m - 1 \in 0 .. n - 1 /\ m - 1 \in 0 .. n /\ (m - 1) + 1 = m
      BY <2>2, <2>3
    <2>5. EverythingSent(x, m - 1)
      BY <2>1, <2>4
    <2>6. EverythingSent(x, (m - 1) + 1)
      BY <2>4, <2>5, SentInductive
    <2>7. QED BY <2>2, <2>4, <2>6
  <1>4. ASSUME NEW t \in 0 .. n - 1 PROVE t \in AppliedInOrder(x)
    <2>1. EverythingSent(x, t)
      BY <1>3
    <2>2. Succeeds(x[t], LedgerAfter(x, t))
      BY <2>1, SentSucceeds
    <2>3. QED BY <1>1, <2>2 DEF AppliedInOrder, WellFormed
  <1>5. EverythingSent(x, n)
    BY <1>3
  <1>6. QED BY <1>1, <1>4, <1>5, AppliedIndices
=============================================================================

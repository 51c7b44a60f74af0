------------------------------ MODULE Transfers ------------------------------
(***************************************************************************)
(* The data every executor works on: accounts, signed transfers, the       *)
(* workloads src/lib.rs generates, and what executing a workload strictly  *)
(* in order does (the loop all sequential executors share).                *)
(*                                                                         *)
(* An address is a model value.  Keys, hashes and signatures are reduced   *)
(* to what verification tells apart: whether the recovered signer is the   *)
(* claimed sender.                                                         *)
(***************************************************************************)
EXTENDS Naturals, FiniteSets

CONSTANTS
    Addresses,       \* the accounts of the workload
    InitialBalance   \* the balance every account starts with

ASSUME InitialBalanceAssumption == InitialBalance \in Nat

\* Account and AccountState: what a transfer reads and writes.
AccountStates == [nonce : Nat, balance : Nat]

\* create_db, init_accounts and initial_states: everybody is pre-funded.
Genesis == [a \in Addresses |-> [nonce |-> 0, balance |-> InitialBalance]]

SignedTransactions ==
    [from : Addresses, to : Addresses, value : Nat, nonce : Nat, signed : BOOLEAN]

\* Mutant: the receiver is drawn once.
PairsAny == Addresses \X Addresses

\* Sender and receiver of a transfer are drawn until they differ.
Pairs == {p \in Addresses \X Addresses : p[1] # p[2]}

\* Mutant: the nonce is incremented before it is used.
NextNonceFromOne(pairs, t) ==
    Cardinality({u \in DOMAIN pairs : u <= t /\ pairs[u][1] = pairs[t][1]})

\* The nonce generate gives transaction t: how often its sender has sent before.
NextNonce(pairs, t) ==
    Cardinality({u \in DOMAIN pairs : u < t /\ pairs[u][1] = pairs[t][1]})

\* Workload::generate for n transactions over every choice of its random
\* generator; `sigs` gives the transactions whose signature verifies.  (All
\* generated ones do; a caller of the executors may pass others.)
Workload(pairs, sigs) ==
    [t \in DOMAIN pairs |->
        [from |-> pairs[t][1], to |-> pairs[t][2], value |-> 1,
         nonce |-> NextNonce(pairs, t), signed |-> sigs[t]]]

Workloads(n, outcomes) ==
    {Workload(pairs, sigs) :
        pairs \in [0 .. n - 1 -> Pairs], sigs \in [0 .. n - 1 -> outcomes]}

\* What generate guarantees of every workload.
WellFormed(x, n) ==
    /\ x \in [0 .. n - 1 -> SignedTransactions]
    /\ \A t \in 0 .. n - 1 : x[t].from # x[t].to /\ x[t].value = 1
    /\ \A u, t \in 0 .. n - 1 :
          u < t /\ x[u].from = x[t].from => x[u].nonce < x[t].nonce

\* Mutant: the balance check is missing.
AcceptsOverdraft(tx, sender) == sender.nonce = tx.nonce

\* Mutant: a nonce from the future passes.
AcceptsLater(tx, sender) == sender.nonce <= tx.nonce /\ sender.balance >= tx.value

\* The nonce and balance checks.
Accepts(tx, sender) == sender.nonce = tx.nonce /\ sender.balance >= tx.value

Debit(tx, sender) ==
    [nonce |-> sender.nonce + 1, balance |-> sender.balance - tx.value]
Credit(tx, receiver) ==
    [nonce |-> receiver.nonce, balance |-> receiver.balance + tx.value]

Succeeds(tx, ledger) == tx.signed /\ Accepts(tx, ledger[tx.from])

\* One iteration of the sequential loop.
Apply(tx, ledger) ==
    IF Succeeds(tx, ledger)
    THEN [ledger EXCEPT ![tx.from] = Debit(tx, @), ![tx.to] = Credit(tx, @)]
    ELSE ledger

\* The ledger after the first k transactions, executed strictly in order.
LedgerAfter(txs, k) ==
    LET run[n \in 0 .. k] == IF n = 0 THEN Genesis
                             ELSE Apply(txs[n - 1], run[n - 1])
    IN  run[k]

\* The transactions a strictly ordered execution applies.
AppliedInOrder(txs) ==
    {t \in DOMAIN txs : Succeeds(txs[t], LedgerAfter(txs, t))}
=============================================================================

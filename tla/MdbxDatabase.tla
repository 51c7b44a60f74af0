---------------------------- MODULE MdbxDatabase ----------------------------
(***************************************************************************)
(* executor/mdbx.rs, MdbxDatabase: the hashed-accounts table both MDBX     *)
(* executors keep.  An MDBX write transaction (external) is atomic and     *)
(* durable at its commit, so a definition here is one commit.  A key is    *)
(* the address itself: keccak256 is taken to be injective.                 *)
(***************************************************************************)
EXTENDS Transfers

\* A table maps the stored addresses to AccountStates.  MdbxDatabase::create
\* makes an empty one.
Empty == [a \in {} |-> 0]

Stored(table, a) == a \in DOMAIN table

\* What an account read as absent is taken to hold when it receives.
Unfunded == [nonce |-> 0, balance |-> 0]

\* get_account(..).unwrap_or(..)
GetOrNew(table, a) == IF Stored(table, a) THEN table[a] ELSE Unfunded

\* The table after a write transaction that puts the accounts of `puts`.
Put(table, puts) ==
    [a \in DOMAIN table \cup DOMAIN puts |->
        IF a \in DOMAIN puts THEN puts[a] ELSE table[a]]

SetAccount(table, a, account) == Put(table, [x \in {a} |-> account])

\* Mutant: accounts that are already stored are kept.
InitMissing(table) ==
    [a \in Addresses |-> IF Stored(table, a) THEN table[a] ELSE Genesis[a]]

\* All accounts of the workload, in one transaction, over whatever is stored.
InitAccounts(table) == Put(table, Genesis)

MdbxTypeOK(table) ==
    /\ DOMAIN table \subseteq Addresses
    /\ \A a \in DOMAIN table : table[a] \in AccountStates
=============================================================================

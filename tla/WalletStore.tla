---------------------------- MODULE WalletStore ----------------------------
(***************************************************************************)
(* The rows that hold money - wallets and ledger_entries - and the         *)
(* statements that wallet.repository.ts and ledger.repository.ts run on    *)
(* them inside withTransaction (db.ts), under PostgreSQL READ COMMITTED:   *)
(* a statement sees what is committed when it runs plus the transaction's  *)
(* own writes, the writes become visible at COMMIT, and row locks are kept *)
(* until COMMIT or ROLLBACK.                                               *)
(*                                                                         *)
(* Every operator that changes state says what happens to all of storeVars *)
(* and is one SQL statement; the modules that EXTEND this one put them in  *)
(* the order the services run them.                                        *)
(***************************************************************************)
EXTENDS Integers

CONSTANTS
    Wallet,      \* ids of the rows of wallets
    Txn,         \* whoever opens database transactions, one at a time each
    Funds,       \* the balance seed.ts leaves in each wallet
    MaxBalance   \* the largest BIGINT

ASSUME StoreAssumption ==
    /\ MaxBalance \in Nat
    /\ Funds \in [Wallet -> 0..MaxBalance]

VARIABLES
    balance,     \* wallets.balance, committed
    version,     \* wallets.version, committed
    net,         \* committed ledger of a wallet: sum of credits - sum of debits
    locks,       \* <<txn, wallet, mode>> row locks held
    dBalance,    \* what each open transaction has added to balances,
    dVersion,    \*   to versions
    dNet         \*   and to the ledger, not committed yet

committedVars == <<balance, version, net>>
pendingVars == <<dBalance, dVersion, dNet>>
storeVars == <<balance, version, net, locks, dBalance, dVersion, dNet>>

----------------------------------------------------------------------------
(* Row locks.  A ledger insert checks its foreign key with FOR KEY SHARE,  *)
(* an UPDATE that changes no key takes FOR NO KEY UPDATE, and              *)
(* findByIdForUpdate asks for FOR UPDATE.                                  *)

LockMode == {"keyShare", "noKeyUpdate", "update"}

Compatible(m, n) == "keyShare" \in {m, n} /\ "update" \notin {m, n}

Blockers(t, w, m) ==
    {u \in Txn \ {t} : \E n \in LockMode :
                           <<u, w, n>> \in locks /\ ~Compatible(m, n)}

Grantable(t, w, m) == Blockers(t, w, m) = {}

Lock(t, w, m) == /\ Grantable(t, w, m)
                 /\ locks' = locks \cup {<<t, w, m>>}

----------------------------------------------------------------------------
Nothing == [w \in Wallet |-> 0]

StoreInit ==
    /\ balance = Funds
    /\ version = Nothing
    /\ net = Funds
    /\ locks = {}
    /\ dBalance = [t \in Txn |-> Nothing]
    /\ dVersion = [t \in Txn |-> Nothing]
    /\ dNet = [t \in Txn |-> Nothing]

(* The row findById returns to transaction t. *)
Row(t, w) == [balance |-> balance[w] + dBalance[t][w],
              version |-> version[w] + dVersion[t][w]]

(* findByIdForUpdate: the row, locked. *)
LockForUpdate(t, w) ==
    /\ Lock(t, w, "update")
    /\ UNCHANGED <<committedVars, pendingVars>>

(* addEntry: a line of a ledger transaction, amount > 0 for a credit. *)
AddEntry(t, w, amount) ==
    /\ Lock(t, w, "keyShare")
    /\ dNet' = [dNet EXCEPT ![t][w] = @ + amount]
    /\ UNCHANGED <<committedVars, dBalance, dVersion>>

(* What CHECK (balance >= 0) and the width of BIGINT let a balance become. *)
InRange(t, w, delta) == balance[w] + dBalance[t][w] + delta \in 0..MaxBalance

(* applyDelta: adds to whatever the balance is, and leaves the version. *)
ApplyDelta(t, w, delta) ==
    /\ Lock(t, w, "noKeyUpdate")
    /\ InRange(t, w, delta)
    /\ dBalance' = [dBalance EXCEPT ![t][w] = @ + delta]
    /\ UNCHANGED <<committedVars, dVersion, dNet>>

(* findByIdForUpdate, addEntry and applyDelta of one amount on one row:    *)
(* while the row is held FOR UPDATE nobody can see or do anything between. *)
LockAndPost(t, w, amount) ==
    /\ Lock(t, w, "update")
    /\ InRange(t, w, amount)
    /\ dBalance' = [dBalance EXCEPT ![t][w] = @ + amount]
    /\ dNet' = [dNet EXCEPT ![t][w] = @ + amount]
    /\ UNCHANGED <<committedVars, dVersion>>

AnyVersionMatches(t, w, expected) == TRUE       \* mutant

VersionMatches(t, w, expected) == Row(t, w).version = expected

(* The row applyDeltaIfVersion wants to update is locked by somebody. *)
UpdateWaits(t, w, expected) ==
    VersionMatches(t, w, expected) /\ ~Grantable(t, w, "noKeyUpdate")

UpdateMatchedUnbumped(t, w, delta, expected) == \* mutant
    /\ VersionMatches(t, w, expected)
    /\ ApplyDelta(t, w, delta)

(* The UPDATE of applyDeltaIfVersion once it may run: rowCount is 1.       *)
UpdateMatched(t, w, delta, expected) ==
    /\ VersionMatches(t, w, expected)
    /\ Lock(t, w, "noKeyUpdate")
    /\ InRange(t, w, delta)
    /\ dBalance' = [dBalance EXCEPT ![t][w] = @ + delta]
    /\ dVersion' = [dVersion EXCEPT ![t][w] = @ + 1]
    /\ UNCHANGED <<committedVars, dNet>>

(* rowCount is 0.  A statement that first had to wait for the row keeps    *)
(* the lock it was given even though the version it then finds is another. *)
UpdateMissed(t, w, expected) ==
    /\ ~VersionMatches(t, w, expected)
    /\ Lock(t, w, "noKeyUpdate") \/ UNCHANGED locks
    /\ UNCHANGED <<committedVars, pendingVars>>

(* applyDeltaIfVersion returns updated: did the version still match?       *)
ApplyDeltaIfVersion(t, w, delta, expected, updated) ==
    \/ updated /\ UpdateMatched(t, w, delta, expected)
    \/ ~updated /\ UpdateMissed(t, w, expected)

(* The UPDATE matches a row and its new balance breaks the CHECK or the    *)
(* BIGINT: the statement raises and nothing but ROLLBACK can follow.       *)
UpdateRejected(t, w, delta, expected) ==
    /\ VersionMatches(t, w, expected)
    /\ Grantable(t, w, "noKeyUpdate")
    /\ ~InRange(t, w, delta)

Closed(t) ==
    /\ locks' = {l \in locks : l[1] # t}
    /\ dBalance' = [dBalance EXCEPT ![t] = Nothing]
    /\ dVersion' = [dVersion EXCEPT ![t] = Nothing]
    /\ dNet' = [dNet EXCEPT ![t] = Nothing]

CommitTxn(t) ==
    /\ balance' = [w \in Wallet |-> balance[w] + dBalance[t][w]]
    /\ version' = [w \in Wallet |-> version[w] + dVersion[t][w]]
    /\ net' = [w \in Wallet |-> net[w] + dNet[t][w]]
    /\ Closed(t)

RollbackTxn(t) == UNCHANGED committedVars /\ Closed(t)

----------------------------------------------------------------------------
StoreTypeOK ==
    /\ balance \in [Wallet -> 0..MaxBalance]
    /\ version \in [Wallet -> Nat]
    /\ net \in [Wallet -> Int]
    /\ locks \subseteq Txn \X Wallet \X LockMode
    /\ dBalance \in [Txn -> [Wallet -> Int]]
    /\ dVersion \in [Txn -> [Wallet -> Nat]]
    /\ dNet \in [Txn -> [Wallet -> Int]]

(* The invariant seed.ts states of its own data and every service keeps:   *)
(* the balance of a wallet is the sum of its ledger entries.  Transfers,   *)
(* charges, sweeps and reversals write the two in different statements of  *)
(* one transaction, so it breaks if a step is retried, skipped or          *)
(* committed without the other.                                            *)
BooksBalance == balance = net
=============================================================================

----------------------------- MODULE Transfers -----------------------------
(***************************************************************************)
(* POST /transfers: transfer.service.ts over the statements of             *)
(* WalletStore.  Each request is an async function of one of the API       *)
(* processes; whatever it awaits, other requests run, so every statement   *)
(* is an action of its own.                                                *)
(***************************************************************************)
EXTENDS WalletStore, FiniteSetsExt

CONSTANTS
    Transfer,     \* the requests, each with at most one transaction open
    Merchant,
    Owner,        \* wallets.merchant_id
    Currency,     \* wallets.currency, of each wallet
    NoWallet,     \* an id that is in no row of wallets
    Dto,          \* the bodies, with the merchant that authenticated
    MaxRetries,   \* MAX_RETRIES
    Faults        \* what the environment may do: see Fault

Fault == {"dbError",   \* a statement fails: connection lost, timeout, ...
          "ackLost",   \* COMMIT is executed and its answer is lost
          "crash"}     \* the API process dies

WalletId == Wallet \cup {NoWallet}

ASSUME TransferAssumption ==
    /\ Transfer \subseteq Txn
    /\ NoWallet \notin Wallet
    /\ Owner \in [Wallet -> Merchant]
    /\ MaxRetries \in Nat \ {0}
    /\ Faults \subseteq Fault
    \* createTransferSchema: a positive integer between two distinct wallets
    /\ Dto \subseteq [caller: Merchant, from: WalletId, to: WalletId,
                      amount: Nat \ {0}]
    /\ \A d \in Dto : d.from # d.to

VARIABLES
    pc,        \* the statement request t runs next
    dto,       \* its body
    attempt,   \* the attempt it is in
    seen,      \* the rows it read: source and destination
    okFrom,    \* what the first conditional update returned
    posted,    \* how many ledger transactions were committed for it
    reply      \* the HTTP status it was answered with

transferVars == <<pc, dto, attempt, seen, okFrom, posted, reply>>
vars == <<storeVars, transferVars>>

InTransaction == {"readFrom", "readTo", "validate", "ledgerDebit",
                  "ledgerCredit", "debit", "credit", "conflict", "commit"}
Pc == InTransaction \cup {"idle", "done"}

NoRow == [balance |-> 0, version |-> 0]

TransferInit ==
    /\ pc = [t \in Transfer |-> "idle"]
    /\ dto \in [Transfer -> Dto]
    /\ attempt = [t \in Transfer |-> 0]
    /\ seen = [t \in Transfer |-> [from |-> NoRow, to |-> NoRow]]
    /\ okFrom = [t \in Transfer |-> FALSE]
    /\ posted = [t \in Transfer |-> 0]
    /\ reply = [t \in Transfer |-> "none"]

----------------------------------------------------------------------------
Goto(t, label) == pc' = [pc EXCEPT ![t] = label]

(* The answer leaves the API; the transaction is over one way or another. *)
Answer(t, status) ==
    /\ Goto(t, "done")
    /\ reply' = [reply EXCEPT ![t] = status]

(* The request arrives and the loop enters its first attempt. *)
Arrive(t) ==
    /\ pc[t] = "idle"
    /\ Goto(t, "readFrom")
    /\ attempt' = [attempt EXCEPT ![t] = 1]
    /\ UNCHANGED <<storeVars, dto, seen, okFrom, posted, reply>>

(* The two plain reads, each a snapshot of its own. *)
RowOf(t, w) == IF w \in Wallet THEN Row(t, w) ELSE NoRow

ReadFrom(t) ==
    /\ pc[t] = "readFrom"
    /\ seen' = [seen EXCEPT ![t].from = RowOf(t, dto[t].from)]
    /\ Goto(t, "readTo")
    /\ UNCHANGED <<storeVars, dto, attempt, okFrom, posted, reply>>

ReadTo(t) ==
    /\ pc[t] = "readTo"
    /\ seen' = [seen EXCEPT ![t].to = RowOf(t, dto[t].to)]
    /\ Goto(t, "validate")
    /\ UNCHANGED <<storeVars, dto, attempt, okFrom, posted, reply>>

(* validate(): the first check that fails, or "ok".  It judges the rows    *)
(* that were read, not the rows as they are now.                           *)
Validate(t) ==
    LET d == dto[t] IN
    IF {d.from, d.to} \cap {NoWallet} # {} THEN "404"
    ELSE IF Owner[d.from] # d.caller THEN "403"
    ELSE IF Currency[d.from] # Currency[d.to] THEN "400"
    ELSE IF seen[t].from.balance < d.amount THEN "422"
    ELSE "ok"

Accept(t) ==
    /\ pc[t] = "validate"
    /\ Validate(t) = "ok"
    /\ Goto(t, "ledgerDebit")
    /\ UNCHANGED <<storeVars, dto, attempt, seen, okFrom, posted, reply>>

(* A domain error other than the conflict is thrown past the loop. *)
Refuse(t) ==
    /\ pc[t] = "validate"
    /\ Validate(t) # "ok"
    /\ RollbackTxn(t)
    /\ Answer(t, Validate(t))
    /\ UNCHANGED <<dto, attempt, seen, okFrom, posted>>

(* recordLedger: the transactions row and its debit, then its credit. *)
LedgerDebit(t) ==
    /\ pc[t] = "ledgerDebit"
    /\ AddEntry(t, dto[t].from, -dto[t].amount)
    /\ Goto(t, "ledgerCredit")
    /\ UNCHANGED <<dto, attempt, seen, okFrom, posted, reply>>

LedgerCredit(t) ==
    /\ pc[t] = "ledgerCredit"
    /\ AddEntry(t, dto[t].to, dto[t].amount)
    /\ Goto(t, "debit")
    /\ UNCHANGED <<dto, attempt, seen, okFrom, posted, reply>>

Debit(t) ==
    /\ pc[t] = "debit"
    /\ \E updated \in BOOLEAN :
          /\ ApplyDeltaIfVersion(t, dto[t].from, -dto[t].amount,
                                 seen[t].from.version, updated)
          /\ okFrom' = [okFrom EXCEPT ![t] = updated]
    /\ Goto(t, "credit")
    /\ UNCHANGED <<dto, attempt, seen, posted, reply>>

(* The credit is tried whether or not the debit found its version; only    *)
(* then are the two results looked at.                                     *)
EitherUpdated(okF, okT) == okF \/ okT     \* mutant: && for ||

BothUpdated(okF, okT) == okF /\ okT

Credit(t) ==
    /\ pc[t] = "credit"
    /\ \E updated \in BOOLEAN :
          /\ ApplyDeltaIfVersion(t, dto[t].to, dto[t].amount,
                                 seen[t].to.version, updated)
          /\ Goto(t, IF BothUpdated(okFrom[t], updated) THEN "commit"
                                                        ELSE "conflict")
    /\ UNCHANGED <<dto, attempt, seen, okFrom, posted, reply>>

CommitForgotten(t) ==                     \* mutant: only client.release()
    /\ pc[t] = "commit"
    /\ RollbackTxn(t)
    /\ Answer(t, "201")
    /\ UNCHANGED <<dto, attempt, seen, okFrom, posted>>

Commit(t) ==
    /\ pc[t] = "commit"
    /\ CommitTxn(t)
    /\ posted' = [posted EXCEPT ![t] = @ + 1]
    /\ Answer(t, "201")
    /\ UNCHANGED <<dto, attempt, seen, okFrom>>

RetryWithoutRollback(t) ==                \* mutant
    /\ pc[t] = "conflict" /\ attempt[t] < MaxRetries
    /\ attempt' = [attempt EXCEPT ![t] = @ + 1]
    /\ Goto(t, "readFrom")
    /\ UNCHANGED <<storeVars, dto, seen, okFrom, posted, reply>>

RetryWithOldRows(t) ==                    \* mutant
    /\ pc[t] = "conflict" /\ attempt[t] < MaxRetries
    /\ attempt' = [attempt EXCEPT ![t] = @ + 1]
    /\ RollbackTxn(t)
    /\ Goto(t, "validate")
    /\ UNCHANGED <<dto, seen, okFrom, posted, reply>>

(* ConcurrencyConflictError: withTransaction rolls back and the loop goes  *)
(* around, unless this was the last attempt.                               *)
Retry(t) ==
    /\ pc[t] = "conflict" /\ attempt[t] < MaxRetries
    /\ attempt' = [attempt EXCEPT ![t] = @ + 1]
    /\ RollbackTxn(t)
    /\ Goto(t, "readFrom")
    /\ UNCHANGED <<dto, seen, okFrom, posted, reply>>

GiveUpAfterCommit(t) ==                   \* mutant: conflict tested too late
    /\ pc[t] = "conflict" /\ attempt[t] = MaxRetries
    /\ CommitTxn(t)
    /\ posted' = [posted EXCEPT ![t] = @ + 1]
    /\ Answer(t, "409")
    /\ UNCHANGED <<dto, attempt, seen, okFrom>>

GiveUp(t) ==
    /\ pc[t] = "conflict" /\ attempt[t] = MaxRetries
    /\ RollbackTxn(t)
    /\ Answer(t, "409")
    /\ UNCHANGED <<dto, attempt, seen, okFrom, posted>>

(* Any other error of a statement is rethrown after ROLLBACK and becomes   *)
(* a 500 in the error handler.                                             *)
Fails(t) ==
    /\ RollbackTxn(t)
    /\ Answer(t, "500")
    /\ UNCHANGED <<dto, attempt, seen, okFrom, posted>>

DebitRejected(t) ==
    /\ pc[t] = "debit"
    /\ UpdateRejected(t, dto[t].from, -dto[t].amount, seen[t].from.version)

CreditRejected(t) ==
    /\ pc[t] = "credit"
    /\ UpdateRejected(t, dto[t].to, dto[t].amount, seen[t].to.version)

RejectedIsRetried(t) ==                   \* mutant
    /\ DebitRejected(t) \/ CreditRejected(t)
    /\ RollbackTxn(t)
    /\ Goto(t, "readFrom")
    /\ UNCHANGED <<dto, attempt, seen, okFrom, posted, reply>>

(* The debit breaks the CHECK or the credit overflows BIGINT. *)
Rejected(t) == (DebitRejected(t) \/ CreditRejected(t)) /\ Fails(t)

----------------------------------------------------------------------------
(* Deadlock.  The two updates lock the rows in the order of the request,   *)
(* so transfers in opposite directions can wait for each other; PostgreSQL *)
(* breaks the cycle by failing one of the statements.                      *)

WaitsFor(t) ==
    CASE pc[t] = "debit"
           /\ UpdateWaits(t, dto[t].from, seen[t].from.version)
           -> Blockers(t, dto[t].from, "noKeyUpdate")
      [] pc[t] = "credit"
           /\ UpdateWaits(t, dto[t].to, seen[t].to.version)
           -> Blockers(t, dto[t].to, "noKeyUpdate")
      [] OTHER -> {}

Waiting == {t \in Transfer : WaitsFor(t) # {}}

Deadlocked(t) ==
    \E C \in SUBSET Waiting :
        /\ t \in C
        /\ \A c \in C : /\ WaitsFor(c) \cap C # {}
                        /\ \E d \in C : c \in WaitsFor(d)

DeadlockVictim(t) == Deadlocked(t) /\ Fails(t)

(* Faults of the environment. *)
DbError(t) ==
    /\ "dbError" \in Faults
    /\ pc[t] \in InTransaction
    /\ Fails(t)

(* COMMIT is executed, its answer is lost: withTransaction throws all the  *)
(* same, and the client is told 500.                                       *)
AckLost(t) ==
    /\ "ackLost" \in Faults
    /\ pc[t] = "commit"
    /\ CommitTxn(t)
    /\ posted' = [posted EXCEPT ![t] = @ + 1]
    /\ Answer(t, "500")
    /\ UNCHANGED <<dto, attempt, seen, okFrom>>

(* The process dies: the server rolls its transaction back, nobody is      *)
(* answered.                                                               *)
Crash(t) ==
    /\ "crash" \in Faults
    /\ pc[t] \in InTransaction
    /\ RollbackTxn(t)
    /\ Answer(t, "noAnswer")
    /\ UNCHANGED <<dto, attempt, seen, okFrom, posted>>

----------------------------------------------------------------------------
Read(t) == ReadFrom(t) \/ ReadTo(t)

Record(t) == LedgerDebit(t) \/ LedgerCredit(t)

Finish(t) == Commit(t) \/ Retry(t) \/ GiveUp(t) \/ Rejected(t)

(* What a request does by itself once it is there. *)
Step(t) == \/ Read(t) \/ Accept(t) \/ Refuse(t) \/ Record(t)
           \/ Debit(t) \/ Credit(t) \/ Finish(t)

Disturbance(t) == DeadlockVictim(t) \/ DbError(t) \/ AckLost(t) \/ Crash(t)

AllDone == \A t \in Transfer : pc[t] = "done"

Terminated == AllDone /\ UNCHANGED vars

Next == \/ \E t \in Transfer : Arrive(t) \/ Step(t) \/ Disturbance(t)
        \/ Terminated

Init == StoreInit /\ TransferInit

Spec == Init /\ [][Next]_vars

----------------------------------------------------------------------------
TypeOK ==
    /\ StoreTypeOK
    /\ pc \in [Transfer -> Pc]
    /\ dto \in [Transfer -> Dto]
    /\ attempt \in [Transfer -> 0..MaxRetries]
    /\ seen \in [Transfer -> [from: [balance: Int, version: Nat],
                              to: [balance: Int, version: Nat]]]
    /\ okFrom \in [Transfer -> BOOLEAN]
    /\ posted \in [Transfer -> 0..1]
    /\ reply \in [Transfer -> {"none", "noAnswer", "201", "400", "403", "404",
                               "409", "422", "500"}]

(* A version names one state of the wallet: as long as the committed       *)
(* version is the one a transfer read, so is the balance.  This is what    *)
(* lets validate() judge funds without a lock, and it holds while every    *)
(* writer bumps the version with the balance.                              *)
SameVersionSameBalance ==
    \A t \in Transfer :
        pc[t] \in InTransaction \ {"readFrom"} /\ dto[t].from \in Wallet =>
            /\ seen[t].from.version <= version[dto[t].from]
            /\ seen[t].from.version = version[dto[t].from]
                  => seen[t].from.balance = balance[dto[t].from]

(* CHECK (balance >= 0) never has to save a transfer: a debit whose        *)
(* version still matches has the funds validate() saw.  If it did, the     *)
(* caller would get a 500 for what is a 422 or a conflict.                 *)
CheckNeverFires == \A t \in Transfer : ~DebitRejected(t)

(* Money moves only through answered transfers, each exactly once: every   *)
(* balance is the seeded one plus what the committed transfers moved, over *)
(* any retries, failures and crashes.                                      *)
Moved(t, w) == posted[t] * (IF dto[t].to = w THEN dto[t].amount
                            ELSE IF dto[t].from = w THEN -dto[t].amount ELSE 0)

TransfersExplainBalances ==
    \A w \in Wallet :
        balance[w] = Funds[w] + SumFunctionOnSet([t \in Transfer |-> Moved(t, w)],
                                                 Transfer)

(* What the caller is told is what happened: 201 for a transfer that was   *)
(* committed once, a 4xx for one that was not.  A 500 says nothing.        *)
RepliesAreHonest ==
    \A t \in Transfer :
        /\ reply[t] = "201" => posted[t] = 1
        /\ reply[t] \in {"400", "403", "404", "409", "422", "none"} => posted[t] = 0

(* Lock-freedom: an attempt fails its version check only because somebody  *)
(* else committed to one of the two wallets meanwhile, a different         *)
(* transfer for every attempt, so a caller told 409 made room for          *)
(* MaxRetries others.                                                      *)
Others(t) == {u \in Transfer \ {t} :
                posted[u] = 1
                  /\ {dto[u].from, dto[u].to} \cap {dto[t].from, dto[t].to} # {}}

ConflictsHaveWinners ==
    \A t \in Transfer :
        attempt[t] + (IF reply[t] = "409" THEN 1 ELSE 0)
            <= 1 + Cardinality(Others(t))

(* Seen from outside, the transfers are whole movements between accounts   *)
(* that can bear them, one at a time, however their statements interleave. *)
Abstract == INSTANCE Books WITH
                Account <- Wallet, Opening <- Funds, Limit <- MaxBalance,
                book <- balance

ImplementsBooks == Abstract!Spec
=============================================================================

------------------------------ MODULE Payouts ------------------------------
(***************************************************************************)
(* Settlement: payout.service.ts, its repositories and settlement-worker.ts*)
(* over WalletStore.  A settler is the settlement worker's loop or a       *)
(* merchant's POST /payouts/run; each sweeps wallets into pending payouts, *)
(* then claims due payouts under a lease and sends them to the bank one    *)
(* after another.  Several run at once.                                    *)
(***************************************************************************)
EXTENDS WalletStore, FiniteSetsExt

CONSTANTS
    Settler,      \* each with at most one transaction open
    Scope,        \* the wallets a settler is for: all, or one merchant's
    Payout,       \* ids of the rows of payouts, a bound on their number
    MinPayout,    \* MIN_PAYOUT_AMOUNT
    MaxAttempts,  \* MAX_ATTEMPTS
    Limit,        \* how many payouts claimDue takes
    MaxCharged,   \* bound: what payments bring into a wallet
    MaxFaults,    \* bound: how often the environment misbehaves
    Faults        \* what it may do: see Fault

Fault == {"abort",           \* a statement fails, or the process dies, while no
                             \* bank transfer is unrecorded
          "crashAfterBank",  \* the process dies before markPaid is committed
          "markPaidFails",   \* the transaction of markPaid fails
          "slowSettler"}     \* a lease runs out while its holder is at work

ASSUME PayoutsAssumption ==
    /\ Settler \subseteq Txn
    /\ Scope \in [Settler -> SUBSET Wallet]
    /\ MinPayout \in Nat \ {0}
    /\ MaxAttempts \in Nat \ {0}
    /\ Limit \in Nat \ {0}
    /\ MaxCharged \in Nat
    /\ MaxFaults \in Nat
    /\ Faults \subseteq Fault

VARIABLES
    account,     \* payout_accounts: of a wallet, good or bad (ending in 0000)
    payouts,     \* the rows of payouts
    bank,        \* how many transfers of a payout the bank accepted
    unrecorded,  \* how many of them the platform failed to record
    told,        \* committed payout.paid and payout.failed events of a payout
    charged,     \* what payments have brought into each wallet
    settler,     \* what each settler is doing
    faults       \* how often the environment has misbehaved

payoutVars == <<account, payouts, bank, unrecorded, told, charged, settler, faults>>
vars == <<storeVars, payoutVars>>

NoPayout == [status |-> "absent", wallet |-> "none", amount |-> 0,
             attempts |-> 0, due |-> FALSE]

(* at: the statement that is next; todo: the wallets listed and not swept; *)
(* batch: the claimed payouts not begun; current: the one being processed; *)
(* known: the attempts of each, as the rows claimDue returned said.        *)
Resting == [at |-> "idle", todo |-> {}, batch |-> {}, current |-> "none",
            known |-> [p \in Payout |-> 0]]

Init ==
    /\ StoreInit
    /\ account = [w \in Wallet |-> "none"]
    /\ payouts = [p \in Payout |-> NoPayout]
    /\ bank = [p \in Payout |-> 0]
    /\ unrecorded = [p \in Payout |-> 0]
    /\ told = [p \in Payout |-> [paid |-> 0, failed |-> 0]]
    /\ charged = Nothing
    /\ settler = [k \in Settler |-> Resting]
    /\ faults = 0

----------------------------------------------------------------------------
At(k, label) == settler[k].at = label
Goto(k, label) == settler' = [settler EXCEPT ![k].at = label]

Status(p) == payouts[p].status
Current(k) == settler[k].current

(* registerAccount: one account per wallet, never deactivated. *)
RegisterAccount(w) ==
    /\ account[w] = "none"
    /\ \E kind \in {"good", "bad"} : account' = [account EXCEPT ![w] = kind]
    /\ UNCHANGED <<storeVars, payouts, bank, unrecorded, told, charged, settler, faults>>

(* A payment intent is confirmed: of its transaction, the ledger entry and *)
(* applyDelta, which wait for whoever is writing to the wallet.            *)
Charge(w, amount) ==
    /\ charged[w] + amount <= MaxCharged            \* bound
    /\ balance[w] + amount <= MaxBalance
    /\ \A k \in Txn : {<<k, w, "update">>, <<k, w, "noKeyUpdate">>} \cap locks = {}
    /\ balance' = [balance EXCEPT ![w] = @ + amount]
    /\ net' = [net EXCEPT ![w] = @ + amount]
    /\ charged' = [charged EXCEPT ![w] = @ + amount]
    /\ UNCHANGED <<version, locks, pendingVars>>
    /\ UNCHANGED <<account, payouts, bank, unrecorded, told, settler, faults>>

----------------------------------------------------------------------------
(* sweep(). *)

(* listSettleableWallets *)
SweepList(k) ==
    /\ At(k, "idle")
    /\ settler' = [settler EXCEPT ![k].at = "sweep",
          ![k].todo = {w \in Scope[k] : balance[w] >= MinPayout /\ account[w] # "none"}]
    /\ UNCHANGED <<storeVars, account, payouts, bank, unrecorded, told, charged, faults>>

(* Bound: a row is left for another payout. *)
RowsLeft == Cardinality({p \in Payout : Status(p) = "absent"})
              > Cardinality({j \in Settler : At(j, "sweepCommit")})

(* One wallet's transaction: locked and read again, then debited by all it *)
(* has; or, somebody else having swept it (or, bound, no row being left),  *)
(* skipped.                                                                *)
SweepDebit(k, w) ==
    /\ At(k, "sweep") /\ w \in settler[k].todo
    /\ balance[w] >= MinPayout /\ RowsLeft
    /\ LockAndPost(k, w, -balance[w])
    /\ settler' = [settler EXCEPT ![k].at = "sweepCommit", ![k].todo = @ \ {w}]
    /\ UNCHANGED <<account, payouts, bank, unrecorded, told, charged, faults>>

SweepSkip(k, w) ==
    /\ At(k, "sweep") /\ w \in settler[k].todo
    /\ balance[w] < MinPayout \/ ~RowsLeft
    /\ Grantable(k, w, "update")
    /\ settler' = [settler EXCEPT ![k].todo = @ \ {w}]
    /\ UNCHANGED <<storeVars, account, payouts, bank, unrecorded, told, charged, faults>>

(* createPending and COMMIT: the debit and the payout appear together.     *)
SweepCommit(k) ==
    /\ At(k, "sweepCommit")
    /\ \E p \in Payout, w \in Wallet :
          /\ Status(p) = "absent"
          /\ dBalance[k][w] < 0
          /\ payouts' = [payouts EXCEPT ![p] =
                [status |-> "pending", wallet |-> w, amount |-> -dBalance[k][w],
                 attempts |-> 0, due |-> TRUE]]
    /\ CommitTxn(k)
    /\ Goto(k, "sweep")
    /\ UNCHANGED <<account, bank, unrecorded, told, charged, faults>>

SweepDone(k) ==
    /\ At(k, "sweep") /\ settler[k].todo = {}
    /\ Goto(k, "claim")
    /\ UNCHANGED <<storeVars, account, payouts, bank, unrecorded, told, charged, faults>>

----------------------------------------------------------------------------
(* processDuePayouts(). *)

Due(k) == {p \in Payout : /\ Status(p) = "pending"
                          /\ payouts[p].due
                          /\ payouts[p].wallet \in Scope[k]}

(* What claimDue does with the rows it chose: their next attempt moves     *)
(* into the future, and the settler gets copies of them.                   *)
ClaimRows(k, rows) ==
    /\ payouts' = [p \in Payout |-> IF p \in rows
                                    THEN [payouts[p] EXCEPT !.due = FALSE]
                                    ELSE payouts[p]]
    /\ settler' = [settler EXCEPT ![k].at = "next", ![k].batch = rows,
          ![k].known = [p \in Payout |-> IF p \in rows THEN payouts[p].attempts ELSE 0]]
    /\ UNCHANGED <<storeVars, account, bank, unrecorded, told, charged, faults>>

ClaimAnyStatus(k) ==                      \* mutant: no status = 'pending'
    /\ At(k, "claim")
    /\ ClaimRows(k, {p \in Payout : payouts[p].due /\ payouts[p].wallet \in Scope[k]})

ClaimWithoutLease(k) ==                   \* mutant: next_attempt_at not moved
    /\ At(k, "claim")
    /\ settler' = [settler EXCEPT ![k].at = "next", ![k].batch = Due(k),
          ![k].known = [p \in Payout |-> payouts[p].attempts]]
    /\ UNCHANGED <<storeVars, account, payouts, bank, unrecorded, told, charged, faults>>

ClaimDue(k) ==
    /\ At(k, "claim")
    /\ \E rows \in SUBSET Due(k) :
          /\ Cardinality(rows) = IF Limit < Cardinality(Due(k)) THEN Limit
                                                                 ELSE Cardinality(Due(k))
          /\ ClaimRows(k, rows)

(* processOne of the next payout of the batch, or the end of the tick. *)
Take(k) ==
    /\ At(k, "next")
    /\ \E p \in settler[k].batch :
          settler' = [settler EXCEPT ![k].at = "bank", ![k].current = p,
                                     ![k].batch = @ \ {p}]
    /\ UNCHANGED <<storeVars, account, payouts, bank, unrecorded, told, charged, faults>>

TickDone(k) ==
    /\ At(k, "next") /\ settler[k].batch = {}
    /\ settler' = [settler EXCEPT ![k] = Resting]
    /\ UNCHANGED <<storeVars, account, payouts, bank, unrecorded, told, charged, faults>>

SendWithTimeout(k) ==                     \* mutant: a late answer is a refusal
    LET p == Current(k) IN
    /\ At(k, "bank")
    /\ IF account[payouts[p].wallet] = "good"
       THEN /\ bank' = [bank EXCEPT ![p] = @ + 1]
            /\ Goto(k, "markPaid") \/ Goto(k, "caught")
       ELSE UNCHANGED bank /\ Goto(k, "caught")
    /\ UNCHANGED <<storeVars, account, payouts, unrecorded, told, charged, faults>>

(* simulateBankTransfer to the account the payout was bound to. *)
SendToBank(k) ==
    LET p == Current(k) IN
    /\ At(k, "bank")
    /\ IF account[payouts[p].wallet] = "good"
       THEN bank' = [bank EXCEPT ![p] = @ + 1] /\ Goto(k, "markPaid")
       ELSE UNCHANGED bank /\ Goto(k, "caught")
    /\ UNCHANGED <<storeVars, account, payouts, unrecorded, told, charged, faults>>

(* webhookService.emit, here for one endpoint: see Payments. *)
Tell(p, event) == told' = [told EXCEPT ![p][event] = @ + 1]

(* markPaid and the payout.paid event, in one transaction. *)
Paid(p) == payouts' = [payouts EXCEPT ![p].status = "paid"] /\ Tell(p, "paid")

MarkPaid(k) ==
    /\ At(k, "markPaid")
    /\ Paid(Current(k))
    /\ Goto(k, "next")
    /\ UNCHANGED <<storeVars, account, bank, unrecorded, charged, faults>>

(* The catch block, which has the attempts of the claimed copy.            *)
Attempts(k) == settler[k].known[Current(k)] + 1

SameAttempts(k) == settler[k].known[Current(k)]   \* mutant: attempts not counted

MarkRetryOf(k, attempts) ==
    /\ payouts' = [payouts EXCEPT ![Current(k)].attempts = attempts,
                                  ![Current(k)].due = FALSE]
    /\ Goto(k, "next")
    /\ UNCHANGED <<storeVars, account, bank, unrecorded, told, charged, faults>>

MarkRetryUncounted(k) ==                  \* mutant
    /\ At(k, "caught") /\ Attempts(k) < MaxAttempts
    /\ MarkRetryOf(k, SameAttempts(k))

MarkRetry(k) ==
    /\ At(k, "caught") /\ Attempts(k) < MaxAttempts
    /\ MarkRetryOf(k, Attempts(k))

(* Attempts are exhausted: the reversal, up to its COMMIT. *)
Reverse(k) ==
    LET p == Current(k) IN
    /\ At(k, "caught") /\ Attempts(k) >= MaxAttempts
    /\ LockAndPost(k, payouts[p].wallet, payouts[p].amount)
    /\ Goto(k, "reverseCommit")
    /\ UNCHANGED <<account, payouts, bank, unrecorded, told, charged, faults>>

ReverseUnmarked(k) ==                     \* mutant: markFailed on its own
    /\ At(k, "reverseCommit")
    /\ CommitTxn(k)
    /\ Goto(k, "next")
    /\ UNCHANGED <<account, payouts, bank, unrecorded, told, charged, faults>>

(* markFailed, the payout.failed event and the credit are committed.       *)
ReverseCommit(k) ==
    LET p == Current(k) IN
    /\ At(k, "reverseCommit")
    /\ CommitTxn(k)
    /\ payouts' = [payouts EXCEPT ![p].status = "failed", ![p].attempts = Attempts(k)]
    /\ Tell(p, "failed")
    /\ Goto(k, "next")
    /\ UNCHANGED <<account, bank, unrecorded, charged, faults>>

(* The credit would overflow BIGINT: processOne throws, the rest of the    *)
(* batch is abandoned to its leases.                                       *)
Abandon(k) == settler' = [settler EXCEPT ![k] = Resting]

ReverseRejected(k) ==
    LET p == Current(k) IN
    /\ At(k, "caught") /\ Attempts(k) >= MaxAttempts
    /\ Grantable(k, payouts[p].wallet, "update")
    /\ ~InRange(k, payouts[p].wallet, payouts[p].amount)
    /\ Abandon(k)
    /\ UNCHANGED <<storeVars, account, payouts, bank, unrecorded, told, charged, faults>>

----------------------------------------------------------------------------
(* next_attempt_at comes to pass: a backoff is over, or a lease ran out -  *)
(* whose holder, unless settlers can be that slow, is not at work on it.   *)
HeldBy(k) == settler[k].batch \cup
             (IF settler[k].at \in {"bank", "markPaid", "caught", "reverseCommit"}
              THEN {Current(k)} ELSE {})

BecomesDue(p) ==
    /\ Status(p) # "absent" /\ ~payouts[p].due
    /\ "slowSettler" \in Faults \/ \A k \in Settler : p \notin HeldBy(k)
    /\ payouts' = [payouts EXCEPT ![p].due = TRUE]
    /\ UNCHANGED <<storeVars, account, bank, unrecorded, told, charged, settler, faults>>

Misbehave(fault) == /\ fault \in Faults
                    /\ faults < MaxFaults
                    /\ faults' = faults + 1

(* An error of a statement is logged and the tick is over; a process that  *)
(* dies is restarted: either way nothing is left but what was committed.   *)
Abort(k) ==
    /\ Misbehave("abort")
    /\ settler[k].at \notin {"idle", "markPaid"}
    /\ Abandon(k)
    /\ RollbackTxn(k)
    /\ UNCHANGED <<account, payouts, bank, unrecorded, told, charged>>

Unrecorded(p) == unrecorded' = [unrecorded EXCEPT ![p] = @ + 1]

CrashAfterBank(k) ==
    /\ Misbehave("crashAfterBank")
    /\ At(k, "markPaid")
    /\ Unrecorded(Current(k))
    /\ Abandon(k)
    /\ UNCHANGED <<storeVars, account, payouts, bank, told, charged>>

EventOutside(p) ==                        \* mutant: emit through the pool
    UNCHANGED payouts /\ Tell(p, "paid")

RolledBack(p) == UNCHANGED <<payouts, told>>

(* The transaction of markPaid fails, or only its answer is lost; the same *)
(* catch block gets the error as when the bank refused.                    *)
MarkPaidFails(k) ==
    /\ Misbehave("markPaidFails")
    /\ At(k, "markPaid")
    /\ RolledBack(Current(k)) \/ Paid(Current(k))
    /\ Unrecorded(Current(k))
    /\ Goto(k, "caught")
    /\ UNCHANGED <<storeVars, account, bank, charged>>

----------------------------------------------------------------------------
Sweep(k) == \/ SweepList(k) \/ SweepCommit(k) \/ SweepDone(k)
            \/ \E w \in Wallet : SweepDebit(k, w) \/ SweepSkip(k, w)

Process(k) == \/ ClaimDue(k) \/ Take(k) \/ TickDone(k) \/ SendToBank(k)
              \/ MarkPaid(k) \/ MarkRetry(k)
              \/ Reverse(k) \/ ReverseCommit(k) \/ ReverseRejected(k)

SettlerStep(k) == Sweep(k) \/ Process(k)

Disturbance(k) == Abort(k) \/ CrashAfterBank(k) \/ MarkPaidFails(k)

Next == \/ \E k \in Settler : SettlerStep(k) \/ Disturbance(k)
        \/ \E p \in Payout : BecomesDue(p)
        \/ \E w \in Wallet : RegisterAccount(w) \/ \E amount \in 1..MaxCharged : Charge(w, amount)

Spec == Init /\ [][Next]_vars

(* The worker's loop runs for ever and time passes.                        *)
Fairness == /\ \A k \in Settler : WF_vars(SettlerStep(k))
            /\ \A p \in Payout : WF_vars(BecomesDue(p))

FairSpec == Spec /\ Fairness

----------------------------------------------------------------------------
TypeOK ==
    /\ StoreTypeOK
    /\ account \in [Wallet -> {"none", "good", "bad"}]
    /\ payouts \in [Payout -> [status: {"absent", "pending", "paid", "failed"},
                               wallet: Wallet \cup {"none"}, amount: 0..MaxBalance,
                               attempts: 0..MaxAttempts, due: BOOLEAN]]
    /\ bank \in [Payout -> Nat]
    /\ unrecorded \in [Payout -> Nat]
    /\ told \in [Payout -> [paid: Nat, failed: Nat]]
    /\ charged \in [Wallet -> 0..MaxCharged]
    /\ settler \in [Settler ->
          [at: {"idle", "sweep", "sweepCommit", "claim", "next", "bank", "markPaid",
                "caught", "reverseCommit"},
           todo: SUBSET Wallet, batch: SUBSET Payout, current: Payout \cup {"none"},
           known: [Payout -> 0..MaxAttempts]]]
    /\ faults \in 0..MaxFaults

(* Money is in the wallet or in one payout of it: swept once, and credited *)
(* back once ("we debited it at sweep time"), however settlers overlap,    *)
(* abort and crash.                                                        *)
InPayouts(w) == MapThenSumSet(LAMBDA p : payouts[p].amount,
                              {p \in Payout : /\ payouts[p].wallet = w
                                              /\ Status(p) \in {"pending", "paid"}})

MoneyIsConserved ==
    \A w \in Wallet : balance[w] + InPayouts(w) = Funds[w] + charged[w]

(* A payout reaches the bank once, and once more only for every time that  *)
(* the platform could not record what the bank had done.                   *)
SentAtMostOnce == \A p \in Payout : bank[p] <= 1 + unrecorded[p]

(* What a merchant reads is what the bank did: a payout called paid has    *)
(* left the platform, and one that is refunded as failed has not, as far   *)
(* as the platform could record it.                                        *)
StatusTellsTheBank ==
    \A p \in Payout :
        /\ Status(p) = "paid" => bank[p] >= 1
        /\ Status(p) = "failed" => bank[p] <= unrecorded[p]

(* "mark paid AND emit the webhook in one transaction": a merchant hears   *)
(* once what became of a payout, hears what its row says, and hears        *)
(* nothing before, but for once more for every transfer the platform       *)
(* failed to record.                                                       *)
MerchantsAreTold ==
    \A p \in Payout :
        /\ Status(p) \in {"absent", "pending"} => told[p].paid + told[p].failed = 0
        /\ Status(p) = "paid" => told[p].paid >= 1 /\ told[p].failed = 0
        /\ Status(p) = "failed" => told[p].failed >= 1
        /\ told[p].paid + told[p].failed <= 1 + unrecorded[p]

(* "terminal 'paid'", "terminal 'failed'": no settler, with whatever old   *)
(* copy of the row, writes its status or attempts to a payout that is done *)
(* with.                                                                   *)
TerminalIsFinal ==
    [][\A p \in Payout : Status(p) \in {"paid", "failed"} /\ unrecorded[p] = 0
           => /\ payouts'[p].status = payouts[p].status
              /\ payouts'[p].attempts = payouts[p].attempts]_vars

(* Every payout becomes paid or failed, through retries, backoffs, aborted *)
(* ticks and crashes, unless its wallet has no room for the refund.        *)
NoRoom(p) == balance[payouts[p].wallet] + payouts[p].amount > MaxBalance

EveryPayoutSettles ==
    \A p \in Payout :
        (Status(p) = "pending")
            ~> (Status(p) \in {"paid", "failed"} \/ (Status(p) = "pending" /\ NoRoom(p)))
=============================================================================

------------------------------ MODULE Payments ------------------------------
(***************************************************************************)
(* Payment intents: payment.service.ts over WalletStore.  A confirmation   *)
(* or a cancellation locks its intent FOR UPDATE, looks at the status, and *)
(* does the rest in the same transaction; confirmations of other intents   *)
(* of the merchant write to the same wallet meanwhile.                     *)
(***************************************************************************)
EXTENDS WalletStore

CONSTANTS
    Request,     \* confirmations and cancellations, each with one transaction
    Intent,      \* ids of the rows of payment_intents
    Merchant,
    Owner,       \* merchant_id of an intent
    PaysInto,    \* its merchant's wallet in its currency
    Amount,      \* its amount
    Ask,         \* what a request may be: who asks what of which intent
    Endpoint,    \* ids of the rows of webhook_endpoints
    ListensTo,   \* merchant_id of an endpoint
    Faults       \* what the environment may do: see Fault

Fault == {"dbError",   \* a statement fails
          "ackLost",   \* COMMIT is executed and its answer is lost
          "crash"}     \* the API process dies

ASSUME PaymentsAssumption ==
    /\ Request \subseteq Txn
    /\ "none" \notin Request
    /\ Owner \in [Intent -> Merchant]
    /\ PaysInto \in [Intent -> Wallet]
    /\ Amount \in [Intent -> Nat \ {0}]
    /\ Ask \in [Request -> SUBSET [caller: Merchant, action: {"confirm", "cancel"},
                                  intent: Intent]]
    /\ ListensTo \in [Endpoint -> Merchant]
    /\ Faults \subseteq Fault

VARIABLES
    status,      \* payment_intents.status, committed
    charges,     \* committed charges of an intent
    registered,  \* the rows of webhook_endpoints, all of them active
    events,      \* committed payment.succeeded events of an intent, per endpoint
    holder,      \* whose FOR UPDATE lock is on an intent
    pc,          \* the statement a request runs next
    ask,         \* what it asks
    listed,      \* the endpoints that emit() read and has not served yet
    draft,       \* what it has written and not committed
    reply,       \* what it was answered
    audience     \* history: who listened when an intent was created

paymentVars == <<status, charges, registered, events, holder, pc, ask, listed,
                 draft, reply, audience>>
outcomeVars == <<status, charges, registered, events, audience>>
vars == <<storeVars, paymentVars>>

InTransaction == {"lock", "guard", "ledger", "credit", "advance", "emit",
                  "enqueue", "commit"}

NoAsk == [action |-> "none"]
NoDraft == [status |-> "none", charges |-> 0, events |-> {}]

Init ==
    /\ StoreInit
    /\ status = [i \in Intent |-> "absent"]
    /\ charges = [i \in Intent |-> 0]
    /\ registered = {}
    /\ events = [i \in Intent |-> [e \in Endpoint |-> 0]]
    /\ holder = [i \in Intent |-> "none"]
    /\ pc = [r \in Request |-> "idle"]
    /\ ask = [r \in Request |-> NoAsk]
    /\ listed = [r \in Request |-> {}]
    /\ draft = [r \in Request |-> NoDraft]
    /\ reply = [r \in Request |-> "none"]
    /\ audience = [i \in Intent |-> {}]

----------------------------------------------------------------------------
Goto(r, label) == pc' = [pc EXCEPT ![r] = label]
OfIntent(r) == ask[r].intent
Target(r) == IF ask[r].action = "confirm" THEN "succeeded" ELSE "canceled"

(* POST /webhooks/endpoints *)
RegisterEndpoint(e) ==
    /\ e \notin registered
    /\ registered' = registered \cup {e}
    /\ UNCHANGED <<storeVars, status, charges, events, holder, pc, ask, listed,
                   draft, reply, audience>>

(* The merchant's endpoints that are active. *)
ActiveOf(m) == {e \in registered : ListensTo[e] = m}

(* create(): the merchant has a wallet in the currency, now and for ever. *)
Create(i) ==
    /\ status[i] = "absent"
    /\ status' = [status EXCEPT ![i] = "requires_confirmation"]
    /\ audience' = [audience EXCEPT ![i] = ActiveOf(Owner[i])]
    /\ UNCHANGED <<storeVars, charges, registered, events, holder, pc, ask, listed,
                   draft, reply>>

Arrive(r) ==
    /\ pc[r] = "idle"
    /\ \E a \in Ask[r] : ask' = [ask EXCEPT ![r] = a]
    /\ Goto(r, "lock")
    /\ UNCHANGED <<storeVars, outcomeVars, holder, listed, draft, reply>>

(* Is there a row for this id and this merchant? *)
Visible(r) == status[OfIntent(r)] # "absent" /\ Owner[OfIntent(r)] = ask[r].caller

ReadIntent(r) ==                          \* mutant: findById, no lock
    /\ pc[r] = "lock" /\ Visible(r)
    /\ Goto(r, "guard")
    /\ UNCHANGED <<storeVars, outcomeVars, holder, ask, listed, draft, reply>>

(* findByIdForUpdate *)
LockIntent(r) ==
    /\ pc[r] = "lock" /\ Visible(r)
    /\ holder[OfIntent(r)] = "none"
    /\ holder' = [holder EXCEPT ![OfIntent(r)] = r]
    /\ Goto(r, "guard")
    /\ UNCHANGED <<storeVars, outcomeVars, ask, listed, draft, reply>>

(* COMMIT or ROLLBACK lets go of the intent, and the request is answered.  *)
Unlocked(r) == holder' = [i \in Intent |-> IF holder[i] = r THEN "none" ELSE holder[i]]

Answer(r, code) ==
    /\ Unlocked(r)
    /\ Goto(r, "done")
    /\ reply' = [reply EXCEPT ![r] = code]
    /\ listed' = [listed EXCEPT ![r] = {}]
    /\ draft' = [draft EXCEPT ![r] = NoDraft]

FailsWithoutRollback(r, code) ==          \* mutant: only client.release()
    /\ Goto(r, "done")
    /\ reply' = [reply EXCEPT ![r] = code]
    /\ UNCHANGED <<storeVars, outcomeVars, holder, ask, listed, draft>>

Fails(r, code) ==
    /\ RollbackTxn(r)
    /\ Answer(r, code)
    /\ UNCHANGED <<outcomeVars, ask>>

NotFound(r) == pc[r] = "lock" /\ ~Visible(r) /\ Fails(r, "404")

AllowedUnlessSame(from, to) == from # to          \* mutant

(* TRANSITIONS *)
Allowed(from, to) == from = "requires_confirmation" /\ to \in {"succeeded", "canceled"}

Accept(r) ==
    /\ pc[r] = "guard"
    /\ Allowed(status[OfIntent(r)], Target(r))
    /\ Goto(r, IF ask[r].action = "confirm" THEN "ledger" ELSE "advance")
    /\ UNCHANGED <<storeVars, outcomeVars, holder, ask, listed, draft, reply>>

Refuse(r) ==
    /\ pc[r] = "guard"
    /\ ~Allowed(status[OfIntent(r)], Target(r))
    /\ Fails(r, "409")

LedgerOutside(r) ==                       \* mutant: through the pool
    LET i == OfIntent(r) IN
    /\ pc[r] = "ledger"
    /\ net' = [net EXCEPT ![PaysInto[i]] = @ + Amount[i]]
    /\ Goto(r, "credit")
    /\ UNCHANGED <<balance, version, locks, pendingVars, outcomeVars, holder, ask,
                   listed, draft, reply>>

(* The wallet, the 'charge' transaction and its one entry. *)
Ledger(r) ==
    /\ pc[r] = "ledger"
    /\ AddEntry(r, PaysInto[OfIntent(r)], Amount[OfIntent(r)])
    /\ Goto(r, "credit")
    /\ UNCHANGED <<outcomeVars, holder, ask, listed, draft, reply>>

Credit(r) ==
    /\ pc[r] = "credit"
    /\ ApplyDelta(r, PaysInto[OfIntent(r)], Amount[OfIntent(r)])
    /\ Goto(r, "advance")
    /\ UNCHANGED <<outcomeVars, holder, ask, listed, draft, reply>>

(* The balance would not fit a BIGINT. *)
CreditRejected(r) ==
    /\ pc[r] = "credit"
    /\ Grantable(r, PaysInto[OfIntent(r)], "noKeyUpdate")
    /\ ~InRange(r, PaysInto[OfIntent(r)], Amount[OfIntent(r)])
    /\ Fails(r, "500")

(* The charge of a confirmation, and updateStatus. *)
Advance(r) ==
    LET confirming == ask[r].action = "confirm" IN
    /\ pc[r] = "advance"
    /\ draft' = [draft EXCEPT ![r].status = Target(r),
                              ![r].charges = IF confirming THEN 1 ELSE 0]
    /\ Goto(r, IF confirming THEN "emit" ELSE "commit")
    /\ UNCHANGED <<storeVars, outcomeVars, holder, ask, listed, reply>>

(* webhookService.emit: reads the merchant's active endpoints ...          *)
Emit(r) ==
    /\ pc[r] = "emit"
    /\ listed' = [listed EXCEPT ![r] = ActiveOf(ask[r].caller)]
    /\ Goto(r, IF listed'[r] = {} THEN "commit" ELSE "enqueue")
    /\ UNCHANGED <<storeVars, outcomeVars, holder, ask, draft, reply>>

(* ... and writes a row for one after the other.                           *)
Served(r, e) ==
    /\ pc[r] = "enqueue" /\ e \in listed[r]
    /\ listed' = [listed EXCEPT ![r] = @ \ {e}]
    /\ Goto(r, IF listed'[r] = {} THEN "commit" ELSE "enqueue")

EnqueueOutside(r) ==                      \* mutant: through the pool
    \E e \in Endpoint :
        /\ Served(r, e)
        /\ events' = [events EXCEPT ![OfIntent(r)][e] = @ + 1]
        /\ UNCHANGED <<storeVars, status, charges, registered, audience, holder, ask,
                       draft, reply>>

(* Into the outbox and this transaction. *)
Enqueue(r) ==
    \E e \in Endpoint :
        /\ Served(r, e)
        /\ draft' = [draft EXCEPT ![r].events = @ \cup {e}]
        /\ UNCHANGED <<storeVars, outcomeVars, holder, ask, reply>>

Written(r) ==
    LET i == OfIntent(r) IN
    /\ CommitTxn(r)
    /\ status' = [status EXCEPT ![i] = draft[r].status]
    /\ charges' = [charges EXCEPT ![i] = @ + draft[r].charges]
    /\ events' = [events EXCEPT ![i] = [e \in Endpoint |->
                      IF e \in draft[r].events THEN @[e] + 1 ELSE @[e]]]
    /\ UNCHANGED <<registered, audience>>

Commit(r) ==
    /\ pc[r] = "commit"
    /\ Written(r)
    /\ Answer(r, "200")
    /\ UNCHANGED ask

----------------------------------------------------------------------------
(* Faults of the environment. *)
DbError(r) == "dbError" \in Faults /\ pc[r] \in InTransaction /\ Fails(r, "500")

Crash(r) == "crash" \in Faults /\ pc[r] \in InTransaction /\ Fails(r, "noAnswer")

AckLost(r) ==
    /\ "ackLost" \in Faults
    /\ pc[r] = "commit"
    /\ Written(r)
    /\ Answer(r, "500")
    /\ UNCHANGED ask

Confirm(r) == Ledger(r) \/ Credit(r) \/ CreditRejected(r) \/ Emit(r) \/ Enqueue(r)

Step(r) == \/ LockIntent(r) \/ NotFound(r) \/ Accept(r) \/ Refuse(r)
           \/ Confirm(r) \/ Advance(r) \/ Commit(r)

Disturbance(r) == DbError(r) \/ Crash(r) \/ AckLost(r)

Terminated == (\A r \in Request : pc[r] = "done") /\ UNCHANGED vars

Next == \/ \E r \in Request : Arrive(r) \/ Step(r) \/ Disturbance(r)
        \/ \E i \in Intent : Create(i)
        \/ \E e \in Endpoint : RegisterEndpoint(e)
        \/ Terminated

Spec == Init /\ [][Next]_vars

(* As long as some continuation can run, or some free lock be granted, one *)
(* is; whose is next is left open.                                         *)
FairSpec == Spec /\ WF_vars(\E r \in Request : Step(r))

----------------------------------------------------------------------------
TypeOK ==
    /\ StoreTypeOK
    /\ status \in [Intent -> {"absent", "requires_confirmation", "succeeded", "canceled"}]
    /\ charges \in [Intent -> 0..1]
    /\ registered \subseteq Endpoint
    /\ events \in [Intent -> [Endpoint -> 0..1]]
    /\ holder \in [Intent -> Request \cup {"none"}]
    /\ pc \in [Request -> InTransaction \cup {"idle", "done"}]
    /\ DOMAIN ask = Request
    /\ \A r \in Request : IF pc[r] = "idle" THEN ask[r] = NoAsk ELSE ask[r] \in Ask[r]
    /\ draft \in [Request -> [status: {"none", "succeeded", "canceled"},
                              charges: 0..1, events: SUBSET Endpoint]]
    /\ listed \in [Request -> SUBSET Endpoint]
    /\ audience \in [Intent -> SUBSET registered]
    /\ reply \in [Request -> {"none", "noAnswer", "200", "404", "409", "500"}]

(* An intent that was answered is what the answer said, for ever: one      *)
(* confirmation or one cancellation got 200, and a 409 was only told of an *)
(* intent somebody else had finished.                                      *)
AnswersStayTrue ==
    \A r \in Request :
        /\ reply[r] = "200" =>
              /\ status[OfIntent(r)] = Target(r)
              /\ \A s \in Request \ {r} :
                    ~(reply[s] = "200" /\ OfIntent(s) = OfIntent(r))
        /\ reply[r] = "409" => status[OfIntent(r)] \in {"succeeded", "canceled"}

(* payment.service.ts: "All in one transaction".  Seen from outside, a     *)
(* confirmation moves the status, the money, the charge and the events in  *)
(* one instant, and at most once per intent.  The events go to every       *)
(* endpoint that the merchant had when the intent was created, whatever is *)
(* registered while emit() is between its statements.                      *)
Promise == INSTANCE PaymentPromise WITH
               Account <- Wallet, Opening <- Funds, Limit <- MaxBalance, held <- balance

KeepsPromise == Promise!Spec

(* Every confirmation and cancellation is answered: those who wait for an  *)
(* intent or a wallet get it, even from requests that fail or die.         *)
EveryRequestEnds == []<>(\A r \in Request : pc[r] \in {"idle", "done"})
=============================================================================

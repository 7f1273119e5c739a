--------------------------- MODULE PaymentsProofs ---------------------------
(***************************************************************************)
(* Theorems about Payments, for any intents, requests, endpoints, amounts  *)
(* and faults.  IInv says what a request has written at each statement of  *)
(* confirm() and cancel(), and that from the guard to COMMIT the intent is *)
(* its own: that is what makes the status it looked at still the status    *)
(* it replaces.                                                            *)
(***************************************************************************)
EXTENDS Payments, WalletStoreProofs

Into(r) == PaysInto[OfIntent(r)]
Sum(r) == Amount[OfIntent(r)]
Confirming(r) == ask[r].action = "confirm"

Early == {"idle", "lock", "guard", "ledger", "done"}
Late == {"advance", "emit", "enqueue", "commit"}
Holding == InTransaction \ {"lock"}

(* What request r has written to the wallet and the ledger ... *)
Paid(r) ==
    /\ pc[r] \in Early => dBalance[r] = Nothing /\ dNet[r] = Nothing
    /\ pc[r] = "credit" => dBalance[r] = Nothing /\ dNet[r] = Only(Into(r), Sum(r))
    /\ pc[r] \in Late =>
          /\ dBalance[r] = IF Confirming(r) THEN Only(Into(r), Sum(r)) ELSE Nothing
          /\ dNet[r] = dBalance[r]

(* ... and to the intent. *)
Drafted(r) ==
    /\ pc[r] \in Early \cup {"credit", "advance"} => draft[r] = NoDraft
    /\ pc[r] \in {"emit", "enqueue", "commit"} =>
          /\ draft[r].status = Target(r)
          /\ draft[r].charges = IF Confirming(r) THEN 1 ELSE 0
          /\ pc[r] = "emit" \/ ~Confirming(r) => draft[r].events = {}

(* Whoever listened when the intent was created is told or about to be.    *)
Telling(r) ==
    /\ pc[r] # "enqueue" => listed[r] = {}
    /\ pc[r] \in {"enqueue", "commit"} =>
          /\ draft[r].events \cup listed[r] \subseteq ActiveOf(Owner[OfIntent(r)])
          /\ Confirming(r) => audience[OfIntent(r)] \subseteq draft[r].events \cup listed[r]

(* The intent is r's, and what the guard saw of it still holds.            *)
Holds(r) ==
    /\ pc[r] \in {"ledger", "credit", "emit", "enqueue"} => Confirming(r)
    /\ pc[r] \in Holding => holder[OfIntent(r)] = r /\ Visible(r)
    /\ pc[r] \in Holding \ {"guard"} => status[OfIntent(r)] = "requires_confirmation"

Unanswered(r) == pc[r] # "done" => reply[r] = "none"

PerRequest(r) ==
    Paid(r) /\ Drafted(r) /\ Telling(r) /\ Holds(r) /\ Unanswered(r)

(* Without a confirmation there is no charge and no event, and who         *)
(* listened at the creation still does.                                    *)
PerIntent(i) ==
    /\ status[i] # "succeeded" => charges[i] = 0 /\ \A e \in Endpoint : events[i][e] = 0
    /\ audience[i] \subseteq ActiveOf(Owner[i])

IInv == /\ StoreInv
        /\ TypeOK
        /\ BooksBalance
        /\ \A r \in Request : PerRequest(r)
        /\ \A i \in Intent : PerIntent(i)
        /\ AnswersStayTrue

----------------------------------------------------------------------------
(* The facts about one request that the steps below use.                   *)
LEMMA Facts ==
    ASSUME IInv, NEW r \in Request
    PROVE  /\ r \in Txn /\ r # "none"
           /\ StoreInv /\ TypeOK /\ PerRequest(r)
           /\ pc[r] # "idle" =>
                 /\ OfIntent(r) \in Intent
                 /\ ask[r].action \in {"confirm", "cancel"}
                 /\ Owner[OfIntent(r)] \in Merchant
                 /\ Into(r) \in Wallet
                 /\ Sum(r) \in Nat \ {0}
                 /\ PerIntent(OfIntent(r))
<1>1. r \in Txn /\ r # "none" /\ StoreInv /\ TypeOK /\ PerRequest(r)
  BY PaymentsAssumption DEF IInv
<1>2. ASSUME pc[r] # "idle"
      PROVE  ask[r] \in [caller: Merchant, action: {"confirm", "cancel"}, intent: Intent]
  BY <1>1, <1>2, PaymentsAssumption DEF TypeOK
<1> QED
  BY <1>1, <1>2, PaymentsAssumption DEF OfIntent, Into, Sum, IInv

Untouched(u) == /\ pc'[u] = pc[u] /\ ask'[u] = ask[u] /\ listed'[u] = listed[u]
                /\ draft'[u] = draft[u] /\ reply'[u] = reply[u]

(* A step of somebody else leaves the intent that u holds to u. *)
LeavesTo(u) == pc[u] \in Holding => /\ holder'[OfIntent(u)] = holder[OfIntent(u)]
                                    /\ status'[OfIntent(u)] = status[OfIntent(u)]
                                    /\ audience'[OfIntent(u)] = audience[OfIntent(u)]

(* Whoever neither moves nor has its intent or its pending writes touched  *)
(* keeps what is known of it.                                              *)
LEMMA Bystander ==
    ASSUME IInv, NEW u \in Request, Untouched(u), LeavesTo(u),
           registered \subseteq registered',
           dBalance'[u] = dBalance[u], dNet'[u] = dNet[u]
    PROVE  PerRequest(u)'
<1> USE DEF Untouched, LeavesTo
<1>1. PerRequest(u)
  BY Facts
<1>2. OfIntent(u)' = OfIntent(u) /\ Target(u)' = Target(u) /\ Confirming(u)' = Confirming(u)
  BY DEF OfIntent, Target, Confirming
<1>3. Paid(u)' /\ Unanswered(u)' /\ Drafted(u)'
  BY <1>1, <1>2 DEF PerRequest, Paid, Unanswered, Drafted, Into, Sum
<1>4. Holds(u)'
  BY <1>1, <1>2 DEF PerRequest, Holds, Visible, Holding, InTransaction
<1>5. Telling(u)'
  <2>1. \A m : ActiveOf(m) \subseteq ActiveOf(m)'
    BY DEF ActiveOf
  <2> QED
    BY <1>1, <1>2, <2>1 DEF PerRequest, Telling, Holding, InTransaction
<1> QED
  BY <1>3, <1>4, <1>5 DEF PerRequest

(* A request is told 200 only when it commits, and 409 of a finished intent. *)
ToldNothingNew(r) ==
    \/ reply'[r] = reply[r] /\ pc[r] # "done"
    \/ reply'[r] \in {"none", "noAnswer", "404", "500"}
    \/ /\ reply'[r] = "409" /\ pc[r] # "idle"
       /\ status[OfIntent(r)] \in {"succeeded", "canceled"}

(* A step of r that commits nothing is judged by what it does to r.        *)
LEMMA StepOfOne ==
    ASSUME IInv, NEW r \in Request, StoreInv', TypeOK',
           UNCHANGED <<balance, net, outcomeVars>>,
           \A u \in Request \ {r} : Untouched(u), OthersPending(r),
           pc[r] # "idle" => ask'[r] = ask[r],
           \A i \in Intent : holder[i] \notin {r, "none"} => holder'[i] = holder[i],
           ToldNothingNew(r), PerRequest(r)'
    PROVE  IInv'
<1> USE DEF outcomeVars
<1>1. ASSUME NEW u \in Request PROVE PerRequest(u)'
  <2>1. CASE u = r
    BY <2>1
  <2>2. CASE u # r
    <3>1. LeavesTo(u)
      BY <2>2, Facts DEF LeavesTo, PerRequest, Holds, Holding, InTransaction
    <3>2. dBalance'[u] = dBalance[u] /\ dNet'[u] = dNet[u]
      BY <2>2, Facts DEF OthersPending
    <3> QED
      BY <2>2, <3>1, <3>2, Bystander
  <2> QED
    BY <2>1, <2>2
<1>2. \A i \in Intent : PerIntent(i)'
  BY DEF IInv, PerIntent, ActiveOf
<1>3. AnswersStayTrue'
  <2>1. \A u \in Request :
           /\ reply'[u] = "200" => reply[u] = "200" /\ ask'[u] = ask[u]
           /\ reply'[u] = "409" =>
                 /\ ask'[u] = ask[u]
                 /\ status[OfIntent(u)] \in {"succeeded", "canceled"}
    <3> SUFFICES ASSUME NEW u \in Request
                 PROVE  /\ reply'[u] = "200" => reply[u] = "200" /\ ask'[u] = ask[u]
                        /\ reply'[u] = "409" =>
                              /\ ask'[u] = ask[u]
                              /\ status[OfIntent(u)] \in {"succeeded", "canceled"}
      OBVIOUS
    <3>1. CASE u # r
      BY <3>1 DEF Untouched, IInv, AnswersStayTrue
    <3>2. CASE u = r
      <4>1. reply[r] = "none" \/ pc[r] = "done"
        BY Facts DEF PerRequest, Unanswered
      <4> QED
        BY <3>2, <4>1 DEF ToldNothingNew
    <3> QED
      BY <3>1, <3>2
  <2>2. status' = status
    OBVIOUS
  <2>3. ASSUME NEW u \in Request, reply'[u] = "200"
        PROVE  /\ status'[OfIntent(u)'] = Target(u)'
               /\ \A v \in Request \ {u} :
                     ~(reply'[v] = "200" /\ OfIntent(v)' = OfIntent(u)')
    BY <2>1, <2>2, <2>3 DEF IInv, AnswersStayTrue, OfIntent, Target
  <2>4. ASSUME NEW u \in Request, reply'[u] = "409"
        PROVE  status'[OfIntent(u)'] \in {"succeeded", "canceled"}
    BY <2>1, <2>2, <2>4 DEF OfIntent
  <2> QED
    BY <2>3, <2>4 DEF AnswersStayTrue
<1>4. BooksBalance'
  BY DEF IInv, BooksBalance
<1> QED
  BY <1>1, <1>2, <1>3, <1>4 DEF IInv

----------------------------------------------------------------------------
(* Steps that only talk to the intents and the endpoints.                  *)
LEMMA Silent ==
    ASSUME IInv, UNCHANGED storeVars
    PROVE  /\ StoreInv' /\ StoreTypeOK' /\ BooksBalance'
           /\ UNCHANGED <<balance, net>>
           /\ \A r \in Txn : OthersPending(r)
  BY StoreUnchanged DEF IInv, StoreInv, storeVars, BooksBalance, OthersPending

LEMMA ArriveKeeps == ASSUME IInv, NEW r \in Request, Arrive(r) PROVE IInv'
<1> USE DEF Arrive, Goto
<1>1. PICK a \in Ask[r] : ask' = [ask EXCEPT ![r] = a]
  OBVIOUS
<1>2. /\ pc[r] = "idle" /\ pc'[r] = "lock" /\ UNCHANGED <<storeVars, outcomeVars, holder>>
      /\ listed' = listed /\ draft' = draft /\ reply' = reply
      /\ \A u \in Request \ {r} : Untouched(u)
  BY <1>1, Facts DEF TypeOK, Untouched
<1>3. TypeOK'
  <2>1. pc' \in [Request -> InTransaction \cup {"idle", "done"}]
    BY Facts DEF TypeOK, InTransaction
  <2>2. DOMAIN ask' = Request /\ ask'[r] \in Ask[r]
    BY <1>1, Facts DEF TypeOK
  <2>3. \A u \in Request : IF pc'[u] = "idle" THEN ask'[u] = NoAsk ELSE ask'[u] \in Ask[u]
    BY <1>2, <2>2, Facts DEF TypeOK, Untouched
  <2> QED
    BY <1>2, <2>1, <2>2, <2>3, Facts, Silent DEF TypeOK, outcomeVars
<1>4. dBalance'[r] = dBalance[r] /\ dNet'[r] = dNet[r]
  BY <1>2 DEF storeVars
<1>5. PerRequest(r)'
  BY <1>2, <1>4, Facts DEF PerRequest, Paid, Drafted, Telling, Holds, Unanswered,
     Early, Late, Holding, InTransaction, Nothing, NoDraft
<1> QED
  BY <1>2, <1>3, <1>5, Facts, Silent, StepOfOne DEF ToldNothingNew

(* The lock is what gives a request its intent.                            *)
LEMMA LockIntentKeeps == ASSUME IInv, NEW r \in Request, LockIntent(r) PROVE IInv'
<1> USE DEF LockIntent, Goto
<1>1. /\ pc[r] = "lock" /\ pc'[r] = "guard" /\ Visible(r)
      /\ UNCHANGED <<storeVars, outcomeVars, ask, listed, draft, reply>>
      /\ holder[OfIntent(r)] = "none" /\ holder' = [holder EXCEPT ![OfIntent(r)] = r]
      /\ \A u \in Request \ {r} : Untouched(u)
  BY Facts DEF TypeOK, Untouched
<1>2. TypeOK'
  BY <1>1, Facts, Silent DEF TypeOK, InTransaction, outcomeVars
<1>3. dBalance'[r] = dBalance[r] /\ dNet'[r] = dNet[r]
  BY <1>1 DEF storeVars
<1>4. holder'[OfIntent(r)] = r
  BY <1>1, Facts DEF TypeOK
<1>5. OfIntent(r)' = OfIntent(r) /\ Visible(r)'
  BY <1>1 DEF OfIntent, Visible, outcomeVars
<1>6. PerRequest(r)'
  BY <1>1, <1>3, <1>4, <1>5, Facts DEF PerRequest, Paid, Drafted, Telling, Holds, Unanswered,
     Early, Late, Holding, InTransaction, Nothing, NoDraft
<1>7. \A i \in Intent : holder[i] \notin {r, "none"} => holder'[i] = holder[i]
  BY <1>1, Facts DEF TypeOK
<1> QED
  BY <1>1, <1>2, <1>6, <1>7, Facts, Silent, StepOfOne DEF ToldNothingNew

(* What the guard sees stays true because nobody else can lock the intent. *)
LEMMA AcceptKeeps == ASSUME IInv, NEW r \in Request, Accept(r) PROVE IInv'
<1> USE DEF Accept, Goto
<1>1. /\ pc[r] = "guard" /\ status[OfIntent(r)] = "requires_confirmation"
      /\ pc'[r] = IF Confirming(r) THEN "ledger" ELSE "advance"
      /\ UNCHANGED <<storeVars, outcomeVars, holder, ask, listed, draft, reply>>
      /\ \A u \in Request \ {r} : Untouched(u)
  BY Facts DEF TypeOK, Untouched, Allowed, Confirming
<1>2. TypeOK'
  BY <1>1, Facts, Silent DEF TypeOK, InTransaction, outcomeVars
<1>3. dBalance'[r] = dBalance[r] /\ dNet'[r] = dNet[r]
  BY <1>1 DEF storeVars
<1>4. /\ OfIntent(r)' = OfIntent(r) /\ Confirming(r)' = Confirming(r)
      /\ Visible(r)' = Visible(r) /\ status' = status
  BY <1>1 DEF OfIntent, Confirming, Visible, outcomeVars
<1>5. PerRequest(r)'
  BY <1>1, <1>3, <1>4, Facts DEF PerRequest, Paid, Drafted, Telling, Holds, Unanswered,
     Early, Late, Holding, InTransaction, Nothing, NoDraft
<1> QED
  BY <1>1, <1>2, <1>5, Facts, Silent, StepOfOne DEF ToldNothingNew

LEMMA AdvanceKeeps == ASSUME IInv, NEW r \in Request, Advance(r) PROVE IInv'
<1>1. /\ pc[r] = "advance" /\ pc'[r] = IF Confirming(r) THEN "emit" ELSE "commit"
      /\ pc' = [pc EXCEPT ![r] = pc'[r]]
      /\ UNCHANGED <<storeVars, outcomeVars, holder, ask, listed, reply>>
      /\ \A u \in Request \ {r} : Untouched(u)
  BY Facts DEF Advance, Goto, TypeOK, Untouched, Confirming
<1> DEFINE one == IF Confirming(r) THEN 1 ELSE 0
           D == [status: {"none", "succeeded", "canceled"}, charges: 0..1,
                 events: SUBSET Endpoint]
<1>2. /\ draft' \in [Request -> D]
      /\ draft'[r].status = Target(r) /\ draft'[r].charges = one
      /\ draft'[r].events = {}
      /\ \A u \in Request \ {r} : draft'[u] = draft[u]
  <2>1. /\ draft \in [Request -> D] /\ draft[r].events = {}
        /\ draft' = [draft EXCEPT ![r].status = Target(r), ![r].charges = one]
    BY <1>1, Facts DEF Advance, TypeOK, PerRequest, Drafted, NoDraft, Confirming
  <2>2. Target(r) \in {"none", "succeeded", "canceled"} /\ one \in 0..1
    BY DEF Target
  <2> HIDE DEF one
  <2> QED
    BY <2>1, <2>2
<1> HIDE DEF one, D
<1>3. TypeOK'
  <2>1. pc' \in [Request -> InTransaction \cup {"idle", "done"}]
    BY <1>1, Facts DEF TypeOK, InTransaction
  <2>2. \A u \in Request : pc'[u] = "idle" <=> pc[u] = "idle"
    BY <1>1, Facts DEF TypeOK
  <2> QED
    BY <1>1, <1>2, <2>1, <2>2, Facts, Silent DEF TypeOK, outcomeVars, D
<1>4. dBalance'[r] = dBalance[r] /\ dNet'[r] = dNet[r]
  BY <1>1 DEF storeVars
<1>5. /\ OfIntent(r)' = OfIntent(r) /\ Confirming(r)' = Confirming(r)
      /\ Visible(r)' = Visible(r) /\ Target(r)' = Target(r)
      /\ Into(r)' = Into(r) /\ Sum(r)' = Sum(r)
      /\ status' = status /\ audience' = audience
      /\ draft'[r].status = Target(r) /\ draft'[r].charges = one
      /\ draft'[r].events = {} /\ listed'[r] = listed[r] /\ reply'[r] = reply[r]
      /\ pc'[r] = IF Confirming(r) THEN "emit" ELSE "commit"
  BY <1>1, <1>2, Facts DEF OfIntent, Confirming, Visible, Target, Into, Sum, outcomeVars
<1>6. Paid(r)' /\ Drafted(r)' /\ Holds(r)' /\ Unanswered(r)'
  BY <1>1, <1>4, <1>5, Facts DEF PerRequest, Paid, Drafted, Holds, Unanswered,
     Early, Late, Holding, InTransaction, one
<1>7. Telling(r)'
  BY <1>1, <1>5, Facts DEF PerRequest, Telling
<1> QED
  BY <1>1, <1>3, <1>6, <1>7, Facts, Silent, StepOfOne DEF ToldNothingNew, PerRequest

(* emit() reads everybody who listened at the creation, and maybe more.    *)
LEMMA EmitKeeps == ASSUME IInv, NEW r \in Request, Emit(r) PROVE IInv'
<1>1. /\ pc[r] = "emit" /\ pc'[r] \in {"enqueue", "commit"}
      /\ pc'[r] = "commit" => listed'[r] = {}
      /\ pc' = [pc EXCEPT ![r] = pc'[r]]
      /\ listed' = [listed EXCEPT ![r] = ActiveOf(ask[r].caller)]
      /\ UNCHANGED <<storeVars, outcomeVars, holder, ask, draft, reply>>
      /\ \A u \in Request \ {r} : Untouched(u)
  BY Facts DEF Emit, Goto, TypeOK, Untouched
<1>2. ActiveOf(ask[r].caller) \in SUBSET Endpoint
  BY Facts DEF ActiveOf, TypeOK
<1>3. TypeOK'
  <2>1. pc' \in [Request -> InTransaction \cup {"idle", "done"}]
    BY <1>1, Facts DEF TypeOK, InTransaction
  <2>2. \A u \in Request : pc'[u] = "idle" <=> pc[u] = "idle"
    BY <1>1, Facts DEF TypeOK
  <2>3. listed' \in [Request -> SUBSET Endpoint]
    BY <1>1, <1>2, Facts DEF TypeOK
  <2> QED
    BY <1>1, <2>1, <2>2, <2>3, Facts, Silent DEF TypeOK, outcomeVars
<1>4. dBalance'[r] = dBalance[r] /\ dNet'[r] = dNet[r]
  BY <1>1 DEF storeVars
<1>5. /\ OfIntent(r)' = OfIntent(r) /\ Confirming(r)' = Confirming(r)
      /\ Visible(r)' = Visible(r) /\ Target(r)' = Target(r)
      /\ Into(r)' = Into(r) /\ Sum(r)' = Sum(r)
      /\ status' = status /\ audience' = audience /\ reply'[r] = reply[r]
      /\ draft'[r] = draft[r] /\ \A m : ActiveOf(m)' = ActiveOf(m)
  BY <1>1 DEF OfIntent, Confirming, Visible, Target, Into, Sum, outcomeVars, ActiveOf
<1>6. Paid(r)' /\ Drafted(r)' /\ Holds(r)' /\ Unanswered(r)'
  BY <1>1, <1>4, <1>5, Facts DEF PerRequest, Paid, Drafted, Holds, Unanswered,
     Early, Late, Holding, InTransaction
<1>7. listed'[r] = ActiveOf(Owner[OfIntent(r)])
  BY <1>1, Facts DEF TypeOK, PerRequest, Holds, Holding, InTransaction, Visible
<1>8. audience[OfIntent(r)] \subseteq ActiveOf(Owner[OfIntent(r)]) /\ draft[r].events = {}
  BY <1>1, Facts DEF PerIntent, PerRequest, Drafted
<1>9. Telling(r)'
  BY <1>1, <1>5, <1>7, <1>8 DEF Telling
<1> QED
  BY <1>1, <1>3, <1>6, <1>9, Facts, Silent, StepOfOne DEF ToldNothingNew, PerRequest

(* Each row of the outbox moves an endpoint from the list to the draft.    *)
LEMMA EnqueueKeeps == ASSUME IInv, NEW r \in Request, Enqueue(r) PROVE IInv'
<1> DEFINE D == [status: {"none", "succeeded", "canceled"}, charges: 0..1,
                 events: SUBSET Endpoint]
<1>1. PICK e \in Endpoint : Served(r, e) /\ draft' = [draft EXCEPT ![r].events = @ \cup {e}]
  BY DEF Enqueue
<1>2. /\ pc[r] = "enqueue" /\ pc'[r] \in {"enqueue", "commit"} /\ e \in listed[r]
      /\ pc'[r] = "commit" => listed'[r] = {}
      /\ pc' = [pc EXCEPT ![r] = pc'[r]]
      /\ listed' = [listed EXCEPT ![r] = @ \ {e}]
      /\ UNCHANGED <<storeVars, outcomeVars, holder, ask, reply>>
  BY <1>1, Facts DEF Served, Enqueue, Goto, TypeOK
<1>3. /\ draft' \in [Request -> D]
      /\ draft'[r].status = draft[r].status /\ draft'[r].charges = draft[r].charges
      /\ draft'[r].events = draft[r].events \cup {e}
      /\ \A u \in Request \ {r} : draft'[u] = draft[u]
  <2>1. /\ draft \in [Request -> D]
        /\ draft' = [draft EXCEPT ![r].events = @ \cup {e}]
    BY <1>1, Facts DEF TypeOK
  <2>2. draft[r].events \cup {e} \in SUBSET Endpoint
    BY <2>1
  <2> QED
    BY <2>1, <2>2
<1> HIDE DEF D
<1>4. \A u \in Request \ {r} : Untouched(u)
  BY <1>2, <1>3, Facts DEF TypeOK, Untouched
<1>5. listed' \in [Request -> SUBSET Endpoint] /\ listed'[r] = listed[r] \ {e}
  BY <1>2, Facts DEF TypeOK
<1>6. TypeOK'
  <2>1. pc' \in [Request -> InTransaction \cup {"idle", "done"}]
    BY <1>2, Facts DEF TypeOK, InTransaction
  <2>2. \A u \in Request : pc'[u] = "idle" <=> pc[u] = "idle"
    BY <1>2, Facts DEF TypeOK
  <2> QED
    BY <1>2, <1>3, <1>5, <2>1, <2>2, Facts, Silent DEF TypeOK, outcomeVars, D
<1>7. dBalance'[r] = dBalance[r] /\ dNet'[r] = dNet[r]
  BY <1>2 DEF storeVars
<1>8. /\ OfIntent(r)' = OfIntent(r) /\ Confirming(r)' = Confirming(r)
      /\ Visible(r)' = Visible(r) /\ Target(r)' = Target(r)
      /\ Into(r)' = Into(r) /\ Sum(r)' = Sum(r)
      /\ status' = status /\ audience' = audience /\ reply'[r] = reply[r]
      /\ \A m : ActiveOf(m)' = ActiveOf(m)
  BY <1>2 DEF OfIntent, Confirming, Visible, Target, Into, Sum, outcomeVars, ActiveOf
<1>9. Paid(r)' /\ Holds(r)' /\ Unanswered(r)'
  BY <1>2, <1>7, <1>8, Facts DEF PerRequest, Paid, Holds, Unanswered,
     Early, Late, Holding, InTransaction
<1>10. Drafted(r)'
  BY <1>2, <1>3, <1>8, Facts DEF PerRequest, Drafted, Holds, Early
<1>11. Telling(r)'
  BY <1>2, <1>3, <1>5, <1>8, Facts DEF PerRequest, Telling
<1> QED
  BY <1>2, <1>4, <1>6, <1>9, <1>10, <1>11, Facts, Silent, StepOfOne
     DEF ToldNothingNew, PerRequest
----------------------------------------------------------------------------
(* The charge's ledger entry and the credit of the wallet.                 *)
LEMMA PostKeeps ==
    ASSUME IInv, NEW r \in Request, Ledger(r) \/ Credit(r)
    PROVE  IInv'
<1>1. /\ pc[r] \in {"ledger", "credit"}
      /\ pc'[r] = IF pc[r] = "ledger" THEN "credit" ELSE "advance"
      /\ pc' = [pc EXCEPT ![r] = pc'[r]]
      /\ UNCHANGED <<outcomeVars, holder, ask, listed, draft, reply>>
      /\ \A u \in Request \ {r} : Untouched(u)
  BY Facts DEF Ledger, Credit, Goto, TypeOK, Untouched
<1>2. /\ Into(r) \in Wallet /\ Sum(r) \in Int /\ r \in Txn /\ Confirming(r)
  BY <1>1, Facts DEF PerRequest, Holds
<1>3. /\ StoreInv' /\ OthersPending(r) /\ UNCHANGED <<balance, net>>
      /\ pc[r] = "ledger" => /\ dBalance'[r] = dBalance[r]
                             /\ dNet'[r] = Only(Into(r), Sum(r))
      /\ pc[r] = "credit" => /\ dBalance'[r] = Only(Into(r), Sum(r))
                             /\ dNet'[r] = dNet[r]
  <2>1. CASE Ledger(r)
    <3>1. AddEntry(r, Into(r), Sum(r)) /\ pc[r] = "ledger"
      BY <2>1 DEF Ledger, Into, Sum
    <3>2. /\ StoreInv' /\ OthersPending(r)
          /\ dNet'[r] = [dNet[r] EXCEPT ![Into(r)] = @ + Sum(r)]
          /\ UNCHANGED <<committedVars, dBalance>>
      BY <1>2, <3>1, Facts, AddEntryKeeps
    <3>3. dNet[r] = Nothing
      BY <3>1, Facts DEF PerRequest, Paid, Early
    <3>4. dNet'[r] = Only(Into(r), Sum(r))
      BY <1>2, <3>2, <3>3 DEF Nothing, Only
    <3> QED
      BY <3>1, <3>2, <3>4 DEF committedVars
  <2>2. CASE Credit(r)
    <3>1. ApplyDelta(r, Into(r), Sum(r)) /\ pc[r] = "credit"
      BY <2>2 DEF Credit, Into, Sum
    <3>2. /\ StoreInv' /\ OthersPending(r)
          /\ dBalance'[r] = [dBalance[r] EXCEPT ![Into(r)] = @ + Sum(r)]
          /\ UNCHANGED <<committedVars, dNet>>
      BY <1>2, <3>1, Facts, ApplyDeltaKeeps
    <3>3. dBalance[r] = Nothing
      BY <3>1, Facts DEF PerRequest, Paid
    <3>4. dBalance'[r] = Only(Into(r), Sum(r))
      BY <1>2, <3>2, <3>3 DEF Nothing, Only
    <3> QED
      BY <3>1, <3>2, <3>4 DEF committedVars
  <2> QED
    BY <2>1, <2>2
<1>4. TypeOK'
  BY <1>1, <1>3, Facts DEF TypeOK, InTransaction, outcomeVars, StoreInv
<1>5. /\ OfIntent(r)' = OfIntent(r) /\ Confirming(r)' = Confirming(r)
      /\ Visible(r)' = Visible(r) /\ Into(r)' = Into(r) /\ Sum(r)' = Sum(r)
      /\ status' = status /\ reply'[r] = reply[r] /\ listed'[r] = listed[r]
      /\ draft'[r] = draft[r]
  BY <1>1 DEF OfIntent, Confirming, Visible, Into, Sum, outcomeVars
<1>6. Paid(r)'
  BY <1>1, <1>2, <1>3, <1>5, Facts DEF PerRequest, Paid, Early, Late
<1>7. Drafted(r)' /\ Telling(r)' /\ Holds(r)' /\ Unanswered(r)'
  BY <1>1, <1>2, <1>5, Facts DEF PerRequest, Drafted, Telling, Holds, Unanswered,
     Early, Holding, InTransaction
<1> QED
  BY <1>1, <1>3, <1>4, <1>6, <1>7, Facts, StepOfOne DEF ToldNothingNew, PerRequest

(* Whatever ends in ROLLBACK.                                              *)
LEMMA FailsKeeps ==
    ASSUME IInv, NEW r \in Request, pc[r] \in InTransaction,
           NEW code \in {"noAnswer", "404", "409", "500"}, Fails(r, code),
           code = "409" => status[OfIntent(r)] \in {"succeeded", "canceled"}
    PROVE  IInv'
<1>1. /\ RollbackTxn(r) /\ pc' = [pc EXCEPT ![r] = "done"]
      /\ reply' = [reply EXCEPT ![r] = code] /\ listed' = [listed EXCEPT ![r] = {}]
      /\ draft' = [draft EXCEPT ![r] = NoDraft] /\ UNCHANGED <<outcomeVars, ask>>
      /\ holder' = [i \in Intent |-> IF holder[i] = r THEN "none" ELSE holder[i]]
  BY DEF Fails, Answer, Unlocked, Goto
<1>2. /\ pc'[r] = "done" /\ reply'[r] = code /\ listed'[r] = {} /\ draft'[r] = NoDraft
      /\ \A u \in Request \ {r} : Untouched(u)
      /\ pc[r] # "idle"
  BY <1>1, Facts DEF TypeOK, Untouched, InTransaction
<1>3. /\ StoreInv' /\ OthersPending(r) /\ UNCHANGED <<balance, net>>
      /\ dBalance'[r] = Nothing /\ dNet'[r] = Nothing
  BY <1>1, Facts, RollbackKeeps DEF committedVars
<1>4. TypeOK'
  <2>1. NoDraft \in [status: {"none", "succeeded", "canceled"}, charges: 0..1,
                     events: SUBSET Endpoint]
    BY DEF NoDraft
  <2> HIDE DEF NoDraft
  <2> QED
    BY <1>1, <1>2, <1>3, <2>1, Facts DEF TypeOK, outcomeVars, StoreInv, InTransaction
<1>5. PerRequest(r)'
  BY <1>2, <1>3 DEF PerRequest, Paid, Drafted, Telling, Holds, Unanswered,
     Early, Late, Holding, InTransaction
<1> QED
  BY <1>1, <1>2, <1>3, <1>4, <1>5, StepOfOne DEF ToldNothingNew

----------------------------------------------------------------------------
(* What the one COMMIT of a request writes: everything or, for a           *)
(* cancellation, the status alone.                                         *)
LEMMA WrittenFacts ==
    ASSUME IInv, NEW r \in Request, pc[r] = "commit", Written(r)
    PROVE  /\ OfIntent(r) \in Intent /\ status[OfIntent(r)] = "requires_confirmation"
           /\ holder[OfIntent(r)] = r
           /\ Target(r) = IF Confirming(r) THEN "succeeded" ELSE "canceled"
           /\ status' = [status EXCEPT ![OfIntent(r)] = Target(r)]
           /\ charges' = [charges EXCEPT ![OfIntent(r)] =
                                    IF Confirming(r) THEN 1 ELSE 0]
           /\ events' = [events EXCEPT ![OfIntent(r)] =
                    [e \in Endpoint |-> IF e \in draft[r].events THEN 1 ELSE 0]]
           /\ draft[r].events \subseteq ActiveOf(Owner[OfIntent(r)])
           /\ Confirming(r) => audience[OfIntent(r)] \subseteq draft[r].events
           /\ ~Confirming(r) => draft[r].events = {}
           /\ dBalance[r] = IF Confirming(r) THEN Only(Into(r), Sum(r)) ELSE Nothing
           /\ dNet[r] = dBalance[r]
           /\ CommitTxn(r) /\ UNCHANGED <<registered, audience>>
<1> DEFINE i == OfIntent(r)
<1>1. /\ i \in Intent /\ status[i] = "requires_confirmation" /\ holder[i] = r
      /\ charges[i] = 0 /\ \A e \in Endpoint : events[i][e] = 0
  BY Facts DEF PerRequest, Holds, Holding, InTransaction, PerIntent
<1>2. /\ draft[r].status = Target(r) /\ listed[r] = {}
      /\ draft[r].charges = IF Confirming(r) THEN 1 ELSE 0
      /\ draft[r].events \cup listed[r] \subseteq ActiveOf(Owner[i])
      /\ Confirming(r) => audience[i] \subseteq draft[r].events \cup listed[r]
      /\ ~Confirming(r) => draft[r].events = {}
      /\ dBalance[r] = IF Confirming(r) THEN Only(Into(r), Sum(r)) ELSE Nothing
      /\ dNet[r] = dBalance[r]
  BY Facts DEF PerRequest, Drafted, Telling, Paid, Late
<1>3. /\ status' = [status EXCEPT ![i] = draft[r].status]
      /\ charges' = [charges EXCEPT ![i] = @ + draft[r].charges]
      /\ events' = [events EXCEPT ![i] = [e \in Endpoint |->
                      IF e \in draft[r].events THEN @[e] + 1 ELSE @[e]]]
      /\ CommitTxn(r) /\ UNCHANGED <<registered, audience>>
  BY DEF Written
<1>4. Target(r) = IF Confirming(r) THEN "succeeded" ELSE "canceled"
  BY DEF Target, Confirming
<1> HIDE DEF i
<1>5. charges' = [charges EXCEPT ![i] = IF Confirming(r) THEN 1 ELSE 0]
  BY <1>1, <1>2, <1>3, Facts DEF TypeOK
<1>6. events' = [events EXCEPT ![i] =
                    [e \in Endpoint |-> IF e \in draft[r].events THEN 1 ELSE 0]]
  <2>1. [e \in Endpoint |-> IF e \in draft[r].events THEN events[i][e] + 1
                                                    ELSE events[i][e]]
        = [e \in Endpoint |-> IF e \in draft[r].events THEN 1 ELSE 0]
    BY <1>1
  <2>2. events' = [events EXCEPT ![i] =
                      [e \in Endpoint |-> IF e \in draft[r].events THEN events[i][e] + 1
                                                                  ELSE events[i][e]]]
    BY <1>1, <1>3, Facts DEF TypeOK
  <2> QED
    BY <2>1, <2>2
<1> QED
  BY <1>1, <1>2, <1>3, <1>4, <1>5, <1>6 DEF i

LEMMA CommitStepKeeps ==
    ASSUME IInv, NEW r \in Request, pc[r] = "commit", Written(r),
           NEW code \in {"200", "500"}, Answer(r, code), UNCHANGED ask
    PROVE  IInv'
<1> DEFINE i == OfIntent(r)
           told == [e \in Endpoint |-> IF e \in draft[r].events THEN 1 ELSE 0]
<1>1. /\ i \in Intent /\ status[i] = "requires_confirmation" /\ holder[i] = r
      /\ Target(r) = IF Confirming(r) THEN "succeeded" ELSE "canceled"
      /\ status' = [status EXCEPT ![i] = Target(r)]
      /\ charges' = [charges EXCEPT ![i] = IF Confirming(r) THEN 1 ELSE 0]
      /\ events' = [events EXCEPT ![i] = told]
      /\ ~Confirming(r) => draft[r].events = {}
      /\ dNet[r] = dBalance[r]
      /\ CommitTxn(r) /\ UNCHANGED <<registered, audience>>
  BY WrittenFacts
<1>2. told \in [Endpoint -> 0..1] /\ (~Confirming(r) => \A e \in Endpoint : told[e] = 0)
  BY <1>1
<1> HIDE DEF i, told
<1>3. /\ pc' = [pc EXCEPT ![r] = "done"]
      /\ reply' = [reply EXCEPT ![r] = code] /\ listed' = [listed EXCEPT ![r] = {}]
      /\ draft' = [draft EXCEPT ![r] = NoDraft] /\ ask' = ask
      /\ holder' = [x \in Intent |-> IF holder[x] = r THEN "none" ELSE holder[x]]
  BY DEF Answer, Unlocked, Goto
<1>4. /\ pc'[r] = "done" /\ reply'[r] = code /\ listed'[r] = {} /\ draft'[r] = NoDraft
      /\ \A u \in Request \ {r} : Untouched(u)
  BY <1>3, Facts DEF TypeOK, Untouched
<1>5. /\ StoreInv' /\ OthersPending(r) /\ BooksBalance'
      /\ dBalance'[r] = Nothing /\ dNet'[r] = Nothing
  BY <1>1, Facts, CommitKeeps, CommitBalances DEF IInv
<1>6. TypeOK'
  <2>1. NoDraft \in [status: {"none", "succeeded", "canceled"}, charges: 0..1,
                     events: SUBSET Endpoint]
    BY DEF NoDraft
  <2>2. /\ status' \in [Intent -> {"absent", "requires_confirmation", "succeeded",
                                   "canceled"}]
        /\ charges' \in [Intent -> 0..1] /\ events' \in [Intent -> [Endpoint -> 0..1]]
    BY <1>1, <1>2, Facts DEF TypeOK
  <2> HIDE DEF NoDraft
  <2>3. /\ pc' \in [Request -> InTransaction \cup {"idle", "done"}]
        /\ holder' \in [Intent -> Request \cup {"none"}]
        /\ draft' \in [Request -> [status: {"none", "succeeded", "canceled"},
                                   charges: 0..1, events: SUBSET Endpoint]]
        /\ listed' \in [Request -> SUBSET Endpoint]
        /\ reply' \in [Request -> {"none", "noAnswer", "200", "404", "409", "500"}]
        /\ \A u \in Request : pc'[u] = "idle" <=> pc[u] = "idle"
    BY <1>3, <2>1, Facts DEF TypeOK
  <2> QED
    BY <1>1, <1>3, <1>5, <2>2, <2>3, Facts DEF TypeOK, StoreInv
<1>7. ASSUME NEW u \in Request PROVE PerRequest(u)'
  <2>1. CASE u = r
    BY <1>4, <1>5, <2>1 DEF PerRequest, Paid, Drafted, Telling, Holds, Unanswered,
       Early, Late, Holding, InTransaction
  <2>2. CASE u # r
    <3>1. LeavesTo(u)
      BY <1>1, <1>3, <2>2, Facts DEF LeavesTo, PerRequest, Holds, TypeOK, Holding,
         InTransaction
    <3>2. dBalance'[u] = dBalance[u] /\ dNet'[u] = dNet[u]
      BY <1>5, <2>2, Facts DEF OthersPending
    <3> QED
      BY <1>1, <1>4, <2>2, <3>1, <3>2, Bystander
  <2> QED
    BY <2>1, <2>2
<1>8. ASSUME NEW x \in Intent PROVE PerIntent(x)'
  <2>1. PerIntent(x) /\ ActiveOf(Owner[x])' = ActiveOf(Owner[x])
    BY <1>1 DEF IInv, ActiveOf
  <2>2. CASE x = i
    BY <1>1, <1>2, <2>1, <2>2, Facts DEF TypeOK, PerIntent
  <2>3. CASE x # i
    BY <1>1, <2>1, <2>3, Facts DEF TypeOK, PerIntent
  <2> QED
    BY <2>2, <2>3
<1>9. AnswersStayTrue'
  <2>1. \A u \in Request : OfIntent(u)' = OfIntent(u) /\ Target(u)' = Target(u)
    BY <1>3 DEF OfIntent, Target
  <2>2. \A u \in Request \ {r} :
           /\ reply'[u] = reply[u]
           /\ reply[u] \in {"200", "409"} => OfIntent(u) # i
    BY <1>1, <1>4 DEF Untouched, IInv, AnswersStayTrue, Target
  <2>3. \A u \in Request \ {r} :
           reply[u] \in {"200", "409"} => status'[OfIntent(u)] = status[OfIntent(u)]
    BY <1>1, <2>2, Facts DEF TypeOK
  <2>4. status'[i] = Target(r)
    BY <1>1, Facts DEF TypeOK
  <2>5. ASSUME NEW u \in Request, reply'[u] = "200"
        PROVE  /\ status'[OfIntent(u)] = Target(u)
               /\ \A v \in Request \ {u} :
                     ~(reply'[v] = "200" /\ OfIntent(v) = OfIntent(u))
    <3>1. CASE u = r
      BY <2>2, <2>4, <3>1 DEF i
    <3>2. CASE u # r
      <4>1. /\ reply[u] = "200" /\ OfIntent(u) # i
            /\ status'[OfIntent(u)] = status[OfIntent(u)]
        BY <2>2, <2>3, <2>5, <3>2
      <4>2. status[OfIntent(u)] = Target(u)
        BY <4>1 DEF IInv, AnswersStayTrue
      <4>3. ASSUME NEW v \in Request \ {u}, reply'[v] = "200", OfIntent(v) = OfIntent(u)
            PROVE  FALSE
        BY <2>2, <4>1, <4>3 DEF IInv, AnswersStayTrue, i
      <4> QED
        BY <4>1, <4>2, <4>3
    <3> QED
      BY <3>1, <3>2
  <2>6. ASSUME NEW u \in Request, reply'[u] = "409"
        PROVE  status'[OfIntent(u)] \in {"succeeded", "canceled"}
    BY <1>4, <2>2, <2>3, <2>6 DEF IInv, AnswersStayTrue
  <2> QED
    BY <2>1, <2>5, <2>6 DEF AnswersStayTrue
<1> QED
  BY <1>5, <1>6, <1>7, <1>8, <1>9 DEF IInv

----------------------------------------------------------------------------
(* An intent that appears has no history, and nobody can hold it yet.      *)
LEMMA CreateKeeps == ASSUME IInv, NEW i \in Intent, Create(i) PROVE IInv'
<1>1. /\ status[i] = "absent"
      /\ status' = [status EXCEPT ![i] = "requires_confirmation"]
      /\ audience' = [audience EXCEPT ![i] = ActiveOf(Owner[i])]
      /\ UNCHANGED <<storeVars, charges, registered, events, holder, pc, ask, listed,
                     draft, reply>>
  BY DEF Create
<1>2. TypeOK /\ TypeOK' /\ StoreInv' /\ BooksBalance'
  <2>1. TypeOK
    BY DEF IInv
  <2>2. ActiveOf(Owner[i]) \subseteq registered
    BY DEF ActiveOf
  <2> QED
    BY <1>1, <2>1, <2>2, Silent DEF TypeOK
<1>3. ASSUME NEW u \in Request PROVE PerRequest(u)'
  <2>1. Untouched(u) /\ dBalance'[u] = dBalance[u] /\ dNet'[u] = dNet[u]
    BY <1>1 DEF Untouched, storeVars
  <2>2. LeavesTo(u)
    BY <1>1, <1>2, Facts DEF LeavesTo, PerRequest, Holds, Visible, TypeOK, Holding,
       InTransaction
  <2> QED
    BY <1>1, <2>1, <2>2, Bystander
<1>4. ASSUME NEW x \in Intent PROVE PerIntent(x)'
  <2>1. PerIntent(x) /\ ActiveOf(Owner[x])' = ActiveOf(Owner[x])
    BY <1>1 DEF IInv, ActiveOf
  <2> QED
    BY <1>1, <1>2, <2>1 DEF TypeOK, PerIntent
<1>5. AnswersStayTrue'
  <2>1. \A u \in Request : /\ OfIntent(u)' = OfIntent(u) /\ Target(u)' = Target(u)
                           /\ Target(u) \in {"succeeded", "canceled"}
    BY <1>1 DEF OfIntent, Target
  <2>2. \A u \in Request : reply[u] \in {"200", "409"} =>
           status'[OfIntent(u)] = status[OfIntent(u)]
    <3> SUFFICES ASSUME NEW u \in Request, reply[u] \in {"200", "409"}
                 PROVE  status'[OfIntent(u)] = status[OfIntent(u)]
      OBVIOUS
    <3>1. OfIntent(u) \in Intent
      BY Facts DEF PerRequest, Unanswered
    <3>2. status[OfIntent(u)] \in {"succeeded", "canceled"}
      BY <2>1 DEF IInv, AnswersStayTrue
    <3> QED
      BY <1>1, <1>2, <3>1, <3>2 DEF TypeOK
  <2>3. reply' = reply
    BY <1>1
  <2>4. ASSUME NEW u \in Request, reply'[u] = "200"
        PROVE  /\ status'[OfIntent(u)] = Target(u)
               /\ \A v \in Request \ {u} :
                     ~(reply'[v] = "200" /\ OfIntent(v) = OfIntent(u))
    BY <2>2, <2>3, <2>4 DEF IInv, AnswersStayTrue
  <2>5. ASSUME NEW u \in Request, reply'[u] = "409"
        PROVE  status'[OfIntent(u)] \in {"succeeded", "canceled"}
    BY <2>2, <2>3, <2>5 DEF IInv, AnswersStayTrue
  <2> QED
    BY <2>1, <2>4, <2>5 DEF AnswersStayTrue
<1> QED
  BY <1>2, <1>3, <1>4, <1>5 DEF IInv

LEMMA RegisterKeeps ==
    ASSUME IInv, NEW e \in Endpoint, RegisterEndpoint(e)
    PROVE  IInv'
<1>1. /\ registered' = registered \cup {e}
      /\ UNCHANGED <<storeVars, status, charges, events, holder, pc, ask, listed,
                     draft, reply, audience>>
  BY DEF RegisterEndpoint
<1>2. TypeOK' /\ StoreInv' /\ BooksBalance'
  BY <1>1, Silent DEF IInv, TypeOK
<1>3. ASSUME NEW u \in Request PROVE PerRequest(u)'
  <2>1. Untouched(u) /\ dBalance'[u] = dBalance[u] /\ dNet'[u] = dNet[u] /\ LeavesTo(u)
    BY <1>1 DEF Untouched, storeVars, LeavesTo
  <2> QED
    BY <1>1, <2>1, Bystander
<1>4. ASSUME NEW x \in Intent PROVE PerIntent(x)'
  BY <1>1 DEF IInv, PerIntent, ActiveOf
<1>5. AnswersStayTrue'
  BY <1>1 DEF IInv, AnswersStayTrue, OfIntent, Target
<1> QED
  BY <1>2, <1>3, <1>4, <1>5 DEF IInv

LEMMA InitEstablishes == Init => IInv
<1> SUFFICES ASSUME Init PROVE IInv
  OBVIOUS
<1> USE DEF Init
<1>1. StoreInv /\ BooksBalance /\ StoreTypeOK
  BY StoreInitKeeps DEF StoreInv
<1>2. TypeOK
  <2>1. NoDraft \in [status: {"none", "succeeded", "canceled"}, charges: 0..1,
                     events: SUBSET Endpoint]
    BY DEF NoDraft
  <2> HIDE DEF NoDraft
  <2> QED
    BY <1>1, <2>1 DEF TypeOK, InTransaction
<1>3. ASSUME NEW r \in Request PROVE PerRequest(r)
  BY PaymentsAssumption DEF StoreInit, PerRequest, Paid, Drafted, Telling, Holds,
     Unanswered, Early, Late, Holding, InTransaction
<1>4. \A i \in Intent : PerIntent(i)
  BY DEF PerIntent
<1>5. AnswersStayTrue
  BY DEF AnswersStayTrue
<1> QED
  BY <1>1, <1>2, <1>3, <1>4, <1>5 DEF IInv

LEMMA NextKeeps == IInv /\ [Next]_vars => IInv'
<1> SUFFICES ASSUME IInv, [Next]_vars PROVE IInv'
  OBVIOUS
<1>1. CASE UNCHANGED vars
  <2>1. UNCHANGED <<storeVars, status, charges, registered, events, holder, pc, ask,
                    listed, draft, reply, audience>>
    BY <1>1 DEF vars, paymentVars
  <2>2. TypeOK' /\ StoreInv' /\ BooksBalance'
    BY <2>1, Silent DEF IInv, TypeOK
  <2>3. ASSUME NEW u \in Request PROVE PerRequest(u)'
    <3>1. Untouched(u) /\ dBalance'[u] = dBalance[u] /\ dNet'[u] = dNet[u] /\ LeavesTo(u)
      BY <2>1 DEF Untouched, storeVars, LeavesTo
    <3> QED
      BY <2>1, <3>1, Bystander
  <2>4. (\A i \in Intent : PerIntent(i)') /\ AnswersStayTrue'
    BY <2>1 DEF IInv, PerIntent, ActiveOf, AnswersStayTrue, OfIntent, Target
  <2> QED
    BY <2>2, <2>3, <2>4 DEF IInv
<1>2. ASSUME NEW r \in Request, Arrive(r) PROVE IInv'
  BY <1>2, ArriveKeeps
<1>3. ASSUME NEW r \in Request, Step(r) PROVE IInv'
  <2>1. CASE LockIntent(r) \/ Accept(r) \/ Ledger(r) \/ Credit(r) \/ Advance(r)
             \/ Emit(r) \/ Enqueue(r)
    BY <2>1, LockIntentKeeps, AcceptKeeps, PostKeeps, AdvanceKeeps, EmitKeeps,
       EnqueueKeeps
  <2>2. CASE NotFound(r)
    BY <2>2, FailsKeeps DEF NotFound, InTransaction
  <2>3. CASE Refuse(r)
    <3>1. pc[r] = "guard" /\ ~Allowed(status[OfIntent(r)], Target(r)) /\ Fails(r, "409")
      BY <2>3 DEF Refuse
    <3>2. status[OfIntent(r)] \in {"succeeded", "canceled"}
      BY <3>1, Facts DEF PerRequest, Holds, Holding, InTransaction, Visible, Allowed,
         Target, TypeOK
    <3> QED
      BY <3>1, <3>2, FailsKeeps DEF InTransaction
  <2>4. CASE CreditRejected(r)
    BY <2>4, FailsKeeps DEF CreditRejected, InTransaction
  <2>5. CASE Commit(r)
    BY <2>5, CommitStepKeeps DEF Commit
  <2> QED
    BY <1>3, <2>1, <2>2, <2>3, <2>4, <2>5 DEF Step, Confirm
<1>4. ASSUME NEW r \in Request, Disturbance(r) PROVE IInv'
  <2>1. CASE DbError(r) \/ Crash(r)
    BY <2>1, FailsKeeps DEF DbError, Crash
  <2>2. CASE AckLost(r)
    BY <2>2, CommitStepKeeps DEF AckLost
  <2> QED
    BY <1>4, <2>1, <2>2 DEF Disturbance
<1>5. ASSUME NEW i \in Intent, Create(i) PROVE IInv'
  BY <1>5, CreateKeeps
<1>6. ASSUME NEW e \in Endpoint, RegisterEndpoint(e) PROVE IInv'
  BY <1>6, RegisterKeeps
<1> QED
  BY <1>1, <1>2, <1>3, <1>4, <1>5, <1>6 DEF Next, Terminated

(* Every reachable state of confirm() and cancel() satisfies the invariant. *)
THEOREM Inductive == Spec => []IInv
  BY InitEstablishes, NextKeeps, PTL DEF Spec

(* TypeOK: in particular an intent is charged at most once and each of its *)
(* endpoints gets at most one event, and no balance leaves its column.     *)
THEOREM TypeCorrect == Spec => []TypeOK
<1>1. IInv => TypeOK
  BY DEF IInv
<1> QED
  BY <1>1, Inductive, PTL

(* What a 200 or a 409 told its caller of an intent stays true, and of the *)
(* confirmations and cancellations of one intent one at most gets a 200.   *)
THEOREM AnswersAlwaysStayTrue == Spec => []AnswersStayTrue
<1>1. IInv => AnswersStayTrue
  BY DEF IInv
<1> QED
  BY <1>1, Inductive, PTL

(* A charge moves a wallet and its ledger together, through errors, lost   *)
(* acknowledgements and crashes, though it leaves the version alone.       *)
THEOREM BooksAlwaysBalance == Spec => []BooksBalance
<1>1. IInv => BooksBalance
  BY DEF IInv
<1> QED
  BY <1>1, Inductive, PTL
----------------------------------------------------------------------------
(* The COMMIT of a confirmation is the Confirm of the promise: status,     *)
(* money, charge and events in one instant.                                *)
LEMMA CommitConfirms ==
    ASSUME IInv, NEW r \in Request, pc[r] = "commit", Written(r), Confirming(r)
    PROVE  Promise!Confirm(OfIntent(r))
<1> DEFINE i == OfIntent(r)
           w == PaysInto[i]
<1>1. /\ i \in Intent /\ w \in Wallet /\ Amount[i] \in Nat \ {0} /\ r \in Txn
  BY Facts DEF Into, Sum
<1>2. /\ status[i] = "requires_confirmation"
      /\ status' = [status EXCEPT ![i] = "succeeded"]
      /\ charges' = [charges EXCEPT ![i] = 1]
      /\ events' = [events EXCEPT ![i] =
                      [e \in Endpoint |-> IF e \in draft[r].events THEN 1 ELSE 0]]
      /\ draft[r].events \subseteq ActiveOf(Owner[i])
      /\ audience[i] \subseteq draft[r].events
      /\ UNCHANGED <<registered, audience>>
  BY WrittenFacts
<1>3. /\ dBalance[r] = Only(w, Amount[i])
      /\ balance' = [x \in Wallet |-> balance[x] + dBalance[r][x]]
  BY WrittenFacts DEF Into, Sum, CommitTxn
<1>4. /\ balance \in [Wallet -> 0..MaxBalance] /\ MaxBalance \in Nat
      /\ balance[w] + dBalance[r][w] \in 0..MaxBalance
  BY <1>1, Facts, StoreAssumption DEF StoreInv, StoreTypeOK, GuardedWrites
<1> HIDE DEF i, w
<1>5. balance[w] + Amount[i] <= MaxBalance
  BY <1>1, <1>3, <1>4 DEF Only
<1>6. balance' = [balance EXCEPT ![w] = @ + Amount[i]]
  <2>1. \A x \in Wallet \ {w} : balance[x] + dBalance[r][x] = balance[x]
    BY <1>3, <1>4 DEF Only
  <2>2. dBalance[r][w] = Amount[i]
    BY <1>1, <1>3 DEF Only
  <2> QED
    BY <1>1, <1>3, <1>4, <2>1, <2>2
<1>7. draft[r].events \in SUBSET Promise!Listeners(i)
  BY <1>2 DEF Promise!Listeners, ActiveOf
<1>8. Promise!Confirm(i)
  BY <1>2, <1>5, <1>6, <1>7 DEF Promise!Confirm, w
<1> QED
  BY <1>8 DEF i

LEMMA CommitCancels ==
    ASSUME IInv, NEW r \in Request, pc[r] = "commit", Written(r), ~Confirming(r)
    PROVE  Promise!Cancel(OfIntent(r))
<1> DEFINE i == OfIntent(r)
<1>1. /\ i \in Intent /\ status[i] = "requires_confirmation"
      /\ status' = [status EXCEPT ![i] = "canceled"]
      /\ charges' = [charges EXCEPT ![i] = 0]
      /\ events' = [events EXCEPT ![i] =
                      [e \in Endpoint |-> IF e \in draft[r].events THEN 1 ELSE 0]]
      /\ draft[r].events = {} /\ dBalance[r] = Nothing
      /\ UNCHANGED <<registered, audience>>
  BY WrittenFacts
<1>2. balance' = [x \in Wallet |-> balance[x] + dBalance[r][x]]
  BY WrittenFacts DEF CommitTxn
<1>3. charges[i] = 0 /\ \A e \in Endpoint : events[i][e] = 0
  BY <1>1 DEF IInv, PerIntent
<1> HIDE DEF i
<1>4. balance' = balance
  <2>1. \A x \in Wallet : balance[x] + dBalance[r][x] = balance[x]
    BY <1>1, Facts, StoreAssumption DEF StoreInv, StoreTypeOK, Nothing
  <2> QED
    BY <1>2, <2>1, Facts DEF StoreInv, StoreTypeOK
<1>5. charges' = charges
  BY <1>1, <1>3, Facts DEF TypeOK
<1>6. events' = events
  <2>1. [e \in Endpoint |-> IF e \in draft[r].events THEN 1 ELSE 0] = events[i]
    BY <1>1, <1>3, Facts DEF TypeOK
  <2> QED
    BY <1>1, <2>1, Facts DEF TypeOK
<1>7. Promise!Cancel(i)
  BY <1>1, <1>4, <1>5, <1>6 DEF Promise!Cancel
<1> QED
  BY <1>7 DEF i

LEMMA StepsKeepPromise == IInv /\ [Next]_vars => [Promise!Next]_(Promise!promiseVars)
<1> SUFFICES ASSUME IInv, [Next]_vars
             PROVE  Promise!Next \/ UNCHANGED Promise!promiseVars
  OBVIOUS
<1> USE DEF Promise!promiseVars
<1>1. CASE UNCHANGED vars
  BY <1>1 DEF vars, storeVars, paymentVars
<1>2. ASSUME NEW r \in Request,
             \/ Arrive(r) \/ LockIntent(r) \/ Accept(r) \/ Advance(r) \/ Emit(r)
             \/ Enqueue(r)
      PROVE  UNCHANGED Promise!promiseVars
  BY <1>2 DEF Arrive, LockIntent, Accept, Advance, Emit, Enqueue, storeVars, outcomeVars
<1>3. ASSUME NEW r \in Request, Ledger(r) \/ Credit(r)
      PROVE  UNCHANGED Promise!promiseVars
  BY <1>3 DEF Ledger, Credit, AddEntry, ApplyDelta, committedVars, outcomeVars
<1>4. ASSUME NEW r \in Request,
             \/ NotFound(r) \/ Refuse(r) \/ CreditRejected(r) \/ DbError(r) \/ Crash(r)
      PROVE  UNCHANGED Promise!promiseVars
  BY <1>4 DEF NotFound, Refuse, CreditRejected, DbError, Crash, Fails, RollbackTxn,
     committedVars, outcomeVars
<1>5. ASSUME NEW r \in Request, Commit(r) \/ AckLost(r)
      PROVE  Promise!Next
  <2>1. pc[r] = "commit" /\ Written(r)
    BY <1>5 DEF Commit, AckLost
  <2>2. OfIntent(r) \in Intent
    BY <2>1, Facts
  <2> QED
    BY <2>1, <2>2, CommitConfirms, CommitCancels DEF Promise!Next
<1>6. ASSUME NEW i \in Intent, Create(i)
      PROVE  Promise!Next
  <2>1. ActiveOf(Owner[i]) = Promise!Listeners(i)
    BY DEF ActiveOf, Promise!Listeners
  <2>2. Promise!Create(i)
    BY <1>6, <2>1 DEF Create, Promise!Create, storeVars
  <2> QED
    BY <2>2 DEF Promise!Next
<1>7. ASSUME NEW e \in Endpoint, RegisterEndpoint(e)
      PROVE  Promise!Next
  BY <1>7 DEF RegisterEndpoint, Promise!RegisterEndpoint, Promise!Next, storeVars
<1> QED
  BY <1>1, <1>2, <1>3, <1>4, <1>5, <1>6, <1>7 DEF Next, Terminated, Step, Confirm,
     Disturbance

(* "All in one transaction": whatever the requests, faults and newly       *)
(* registered endpoints in between, what can be seen of an intent is what  *)
(* PaymentPromise says of it.                                              *)
THEOREM PromiseIsKept == Spec => KeepsPromise
<1>1. Init => Promise!Init
  BY DEF Init, StoreInit, Promise!Init
<1> QED
  BY <1>1, StepsKeepPromise, Inductive, PTL DEF Spec, KeepsPromise, Promise!Spec

----------------------------------------------------------------------------
(* Payments in company.  To whoever shares the wallets, a request writes   *)
(* in its own transaction only ...                                         *)
LEMMA RequestStaysInside ==
    ASSUME IInv, NEW r \in Request, Arrive(r) \/ Step(r) \/ Disturbance(r)
    PROVE  OthersPending(r)
<1>1. r \in Txn /\ StoreInv
  BY Facts
<1>2. CASE Arrive(r) \/ LockIntent(r) \/ Accept(r) \/ Advance(r) \/ Emit(r) \/ Enqueue(r)
  <2>1. UNCHANGED storeVars
    BY <1>2 DEF Arrive, LockIntent, Accept, Advance, Emit, Enqueue
  <2> QED
    BY <1>1, <2>1, OwnWrites
<1>3. CASE Ledger(r) \/ Credit(r)
  BY <1>1, <1>3, OwnWrites DEF Ledger, Credit
<1>4. CASE NotFound(r) \/ Refuse(r) \/ CreditRejected(r) \/ DbError(r) \/ Crash(r)
  <2>1. RollbackTxn(r)
    BY <1>4 DEF NotFound, Refuse, CreditRejected, DbError, Crash, Fails
  <2> QED
    BY <1>1, <2>1, OwnWrites
<1>5. CASE Commit(r) \/ AckLost(r)
  BY <1>1, <1>5, OwnWrites DEF Commit, AckLost, Written
<1> QED
  BY <1>2, <1>3, <1>4, <1>5 DEF Step, Confirm, Disturbance

(* ... and what it brings into a wallet, it brings with the confirmation   *)
(* of the intent.                                                          *)
LEMMA CreditsAreConfirmed ==
    ASSUME IInv, [Next]_vars
    PROVE  \/ /\ balance' = balance
              /\ \A i \in Intent : status'[i] = "succeeded" <=> status[i] = "succeeded"
           \/ \E i \in Intent :
                 /\ status[i] # "succeeded"
                 /\ \A j \in Intent :
                       status'[j] = "succeeded" <=> j = i \/ status[j] = "succeeded"
                 /\ balance' = [balance EXCEPT ![PaysInto[i]] = @ + Amount[i]]
<1>1. Promise!Next \/ UNCHANGED Promise!promiseVars
  BY StepsKeepPromise
<1>2. DOMAIN status = Intent
  BY DEF IInv, TypeOK
<1>3. ASSUME NEW i \in Intent, Promise!Create(i) \/ Promise!Cancel(i)
      PROVE  /\ balance' = balance
             /\ \A j \in Intent : status'[j] = "succeeded" <=> status[j] = "succeeded"
  BY <1>2, <1>3 DEF Promise!Create, Promise!Cancel
<1>4. ASSUME NEW i \in Intent, Promise!Confirm(i)
      PROVE  /\ status[i] # "succeeded"
             /\ \A j \in Intent :
                   status'[j] = "succeeded" <=> j = i \/ status[j] = "succeeded"
             /\ balance' = [balance EXCEPT ![PaysInto[i]] = @ + Amount[i]]
  BY <1>2, <1>4 DEF Promise!Confirm
<1>5. ASSUME NEW e \in Endpoint, Promise!RegisterEndpoint(e)
      PROVE  balance' = balance /\ status' = status
  BY <1>5 DEF Promise!RegisterEndpoint
<1> QED
  BY <1>1, <1>3, <1>4, <1>5 DEF Promise!Next, Promise!promiseVars

(* A request in turn relies on nobody else touching its pending writes,    *)
(* whatever they write to the wallets.                                     *)
LEMMA OthersMayWrite ==
    ASSUME IInv, UNCHANGED paymentVars, StoreInv', BooksBalance',
           \A r \in Request : dBalance'[r] = dBalance[r] /\ dNet'[r] = dNet[r]
    PROVE  IInv'
<1>1. UNCHANGED <<status, charges, registered, events, holder, pc, ask, listed, draft,
                  reply, audience>>
  BY DEF paymentVars
<1>2. TypeOK'
  BY <1>1 DEF IInv, TypeOK, StoreInv
<1>3. ASSUME NEW u \in Request PROVE PerRequest(u)'
  <2>1. Untouched(u) /\ LeavesTo(u)
    BY <1>1 DEF Untouched, LeavesTo
  <2> QED
    BY <1>1, <2>1, Bystander
<1>4. (\A i \in Intent : PerIntent(i)') /\ AnswersStayTrue'
  BY <1>1 DEF IInv, PerIntent, ActiveOf, AnswersStayTrue, OfIntent, Target
<1> QED
  BY <1>2, <1>3, <1>4 DEF IInv
=============================================================================

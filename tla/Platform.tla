------------------------------ MODULE Platform ------------------------------
(***************************************************************************)
(* Transfers, payments and settlement over one database.  All three write  *)
(* to wallets: transfers without locks and on the strength of a version,   *)
(* charges, sweeps and reversals with applyDelta, which leaves the version *)
(* as it is.  Each of the modules is right about its own writers; here are *)
(* the facts that need all of them.                                        *)
(***************************************************************************)
EXTENDS Transfers

CONSTANTS
    Request, Intent, Beneficiary, PaysInto, Amount, Ask,
    Endpoint, ListensTo, PaymentFaults,
    Settler, Scope, Payout, MinPayout, MaxAttempts, Limit, MaxFaults,
    SettlementFaults

VARIABLES
    status, charges, registered, events, holder, at, ask, listed,    \* Payments
    draft, answer, audience,
    account, payouts, bank, unrecorded, told, settler, faults         \* Payouts

paymentVars == <<status, charges, registered, events, holder, at, ask, listed,
                 draft, answer, audience>>
payoutVars == <<account, payouts, bank, unrecorded, told, settler, faults>>
platformVars == <<storeVars, transferVars, paymentVars, payoutVars>>

Paying == INSTANCE Payments WITH
              Owner <- Beneficiary, pc <- at, reply <- answer, Faults <- PaymentFaults

(* Charge, which stands for the payments where there are none, is not used *)
(* here, and so nothing is charged by it.                                  *)
Settling == INSTANCE Payouts WITH
                charged <- [w \in Wallet |-> 0], MaxCharged <- 0,
                Faults <- SettlementFaults

ASSUME PlatformAssumption ==
    \* whoever opens a transaction does so on a connection of its own
    /\ Request \cup Settler \subseteq Txn
    /\ Transfer \cap (Request \cup Settler) = {} /\ Request \cap Settler = {}
    \* payments: a confirmation credits the wallet of the intent's merchant
    /\ "none" \notin Request
    /\ Beneficiary \in [Intent -> Merchant]
    /\ PaysInto \in [Intent -> Wallet]
    /\ \A i \in Intent : Owner[PaysInto[i]] = Beneficiary[i]
    /\ Amount \in [Intent -> Nat \ {0}]
    /\ Ask \in [Request -> SUBSET [caller: Merchant, action: {"confirm", "cancel"},
                                  intent: Intent]]
    /\ ListensTo \in [Endpoint -> Merchant]
    /\ PaymentFaults \subseteq Paying!Fault
    \* settlement
    /\ Scope \in [Settler -> SUBSET Wallet]
    /\ {MinPayout, MaxAttempts, Limit} \subseteq Nat \ {0}
    /\ MaxFaults \in Nat
    /\ SettlementFaults \subseteq Settling!Fault

PlatformInit == Init /\ Paying!Init /\ Settling!Init

----------------------------------------------------------------------------
(* One statement of one of them at a time. *)
TransferStep(t) ==
    /\ Arrive(t) \/ Step(t) \/ Disturbance(t)
    /\ UNCHANGED <<paymentVars, payoutVars>>

PaymentStep ==
    /\ \/ \E i \in Intent : Paying!Create(i)
       \/ \E e \in Endpoint : Paying!RegisterEndpoint(e)
       \/ \E r \in Request :
             Paying!Arrive(r) \/ Paying!Step(r) \/ Paying!Disturbance(r)
    /\ UNCHANGED <<transferVars, payoutVars>>

SettlementStep ==
    /\ UNCHANGED <<transferVars, paymentVars>>
    /\ \/ \E k \in Settler : Settling!SettlerStep(k) \/ Settling!Disturbance(k)
       \/ \E p \in Payout : Settling!BecomesDue(p)
       \/ \E k \in Settler : \E w \in Scope[k] : Settling!RegisterAccount(w)

PlatformNext == \/ \E t \in Transfer : TransferStep(t)
                \/ PaymentStep
                \/ SettlementStep

PlatformSpec == PlatformInit /\ [][PlatformNext]_platformVars

----------------------------------------------------------------------------
(* Nothing is lost between the three: what a wallet was seeded with, what  *)
(* its confirmed intents brought and what transfers moved is in it or in a *)
(* payout of it, although none of them sees the others' writes coming.     *)
Paid(w) == MapThenSumSet(LAMBDA i : Amount[i],
                         {i \in Intent : PaysInto[i] = w /\ status[i] = "succeeded"})

MoneyIsAccountedFor ==
    \A w \in Wallet :
        balance[w] + Settling!InPayouts(w)
            = Funds[w] + Paid(w)
                + SumFunctionOnSet([t \in Transfer |-> Moved(t, w)], Transfer)

(* migrations/0003: "If someone else changed the row in between, its       *)
(* version no longer matches".  So a debit whose version matches is        *)
(* covered by the balance it was judged by, and CHECK never has to refuse  *)
(* it: CheckNeverFires, of Transfers, with everybody who writes to it.     *)
=============================================================================

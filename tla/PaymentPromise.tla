--------------------------- MODULE PaymentPromise ---------------------------
(***************************************************************************)
(* What a payment intent promises, with no transactions or concurrency in  *)
(* it: it is confirmed or canceled once, and confirming it brings its      *)
(* money, its charge and its events along, all at the same instant.  An     *)
(* endpoint that was there before the intent is told once; one that came   *)
(* later, once or not at all; another merchant's, never.                   *)
(***************************************************************************)
EXTENDS Integers

CONSTANTS Intent, Account, Owner, PaysInto, Amount, Opening, Limit, Endpoint, ListensTo

VARIABLES status, held, charges, registered, audience, events

promiseVars == <<status, held, charges, registered, audience, events>>

Init == /\ status = [i \in Intent |-> "absent"]
        /\ held = Opening
        /\ charges = [i \in Intent |-> 0]
        /\ registered = {}
        /\ audience = [i \in Intent |-> {}]
        /\ events = [i \in Intent |-> [e \in Endpoint |-> 0]]

Listeners(i) == {e \in registered : ListensTo[e] = Owner[i]}

RegisterEndpoint(e) ==
    /\ registered' = registered \cup {e}
    /\ UNCHANGED <<status, held, charges, audience, events>>

Create(i) ==
    /\ status[i] = "absent"
    /\ status' = [status EXCEPT ![i] = "requires_confirmation"]
    /\ audience' = [audience EXCEPT ![i] = Listeners(i)]
    /\ UNCHANGED <<held, charges, registered, events>>

Confirm(i) ==
    /\ status[i] = "requires_confirmation"
    /\ held[PaysInto[i]] + Amount[i] <= Limit
    /\ status' = [status EXCEPT ![i] = "succeeded"]
    /\ held' = [held EXCEPT ![PaysInto[i]] = @ + Amount[i]]
    /\ charges' = [charges EXCEPT ![i] = 1]
    /\ \E told \in SUBSET Listeners(i) :
          /\ audience[i] \subseteq told
          /\ events' = [events EXCEPT ![i] =
                           [e \in Endpoint |-> IF e \in told THEN 1 ELSE 0]]
    /\ UNCHANGED <<registered, audience>>

Cancel(i) ==
    /\ status[i] = "requires_confirmation"
    /\ status' = [status EXCEPT ![i] = "canceled"]
    /\ UNCHANGED <<held, charges, registered, audience, events>>

Next == \/ \E i \in Intent : Create(i) \/ Confirm(i) \/ Cancel(i)
        \/ \E e \in Endpoint : RegisterEndpoint(e)

Spec == Init /\ [][Next]_promiseVars
=============================================================================

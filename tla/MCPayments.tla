----------------------------- MODULE MCPayments -----------------------------
(* A small instance of Payments: two intents of one merchant that pay into  *)
(* one wallet, somebody else who asks for one of them, and two endpoints.   *)
EXTENDS Payments, TLC

CONSTANTS acme, globex, wA, i1, i2, r1, r2, r3, e1, e2

MCOwner == [i \in Intent |-> acme]
MCPaysInto == [i \in Intent |-> wA]
MCAmount == [i \in Intent |-> IF i = i2 THEN 2 ELSE 1]
MCListensTo == [e \in Endpoint |-> acme]
MCFunds == [w \in Wallet |-> 0]

Asks(caller, action, i) == [caller |-> caller, action |-> action, intent |-> i]

(* Two or three of an intent's confirmations and cancellations meet, or one  *)
(* meets confirmations of the other intent, or somebody else's.             *)
MCAsk == (r1 :> {Asks(acme, "confirm", i1), Asks(acme, "cancel", i1)})
      @@ (r2 :> {Asks(acme, "confirm", i1), Asks(acme, "confirm", i2)})
      @@ (r3 :> {Asks(acme, "cancel", i1), Asks(acme, "confirm", i2),
                 Asks(globex, "confirm", i1)})
=============================================================================

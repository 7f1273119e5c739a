----------------------------- MODULE MCPlatform -----------------------------
(* Small instances of Platform: transfers out of a wallet that payments fill *)
(* and the settlement worker empties.                                       *)
EXTENDS Platform, TLC

CONSTANTS acme, globex, wA, wB, ghost, t1, t2, r1, r2, i1, worker, p1, p2

MCOwner == [w \in Wallet |-> IF w = wA THEN acme ELSE globex]
MCCurrency == [w \in Wallet |-> "NGN"]
MCFunds == [w \in Wallet |-> IF w = wA THEN 2 ELSE 0]
MCScope == [k \in Settler |-> {wA}]
MCBeneficiary == [i \in Intent |-> acme]
MCPaysInto == [i \in Intent |-> wA]
MCListensTo == [e \in Endpoint |-> acme]
MCAmount == [i \in Intent |-> 1]

Body(caller, from, to, amount) ==
    [caller |-> caller, from |-> from, to |-> to, amount |-> amount]

There == {Body(acme, wA, wB, 1), Body(acme, wA, wB, 2)}

MCAsk == [r \in Request |-> {[caller |-> acme, action |-> "confirm", intent |-> i1]}]

Interchangeable == {f @@ g @@ h : f \in Permutations(Transfer),
                                  g \in Permutations(Payout), h \in Permutations(Request)}
=============================================================================

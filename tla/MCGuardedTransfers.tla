------------------------- MODULE MCGuardedTransfers -------------------------
(* A small instance of GuardedTransfers: a request and its retry, a request *)
(* that competes with them, a key that is used for something else, and one  *)
(* request for each way the service can refuse.                             *)
EXTENDS GuardedTransfers

CONSTANTS acme, globex, ngnA, ngnB, usdB, ghost,
          first, retry, reuse, back, broke, stolen, dollars, lost,
          k1, k2, k3

MCOwner == [w \in Wallet |-> IF w = ngnA THEN acme ELSE globex]
MCCurrency == [w \in Wallet |-> IF w = usdB THEN "USD" ELSE "NGN"]
MCFunds == [w \in Wallet |-> 2]

Send(caller, from, to, amount) ==
    [caller |-> caller, from |-> from, to |-> to, amount |-> amount]

MCDtoOf == [r \in Transfer |->
    CASE r \in {first, retry} -> Send(acme, ngnA, ngnB, 1)
      [] r = reuse   -> Send(acme, ngnA, ngnB, 2)
      [] r = back    -> Send(globex, ngnB, ngnA, 2)
      [] r = broke   -> Send(globex, ngnB, ngnA, 3)
      [] r = stolen  -> Send(acme, ngnB, ngnA, 1)
      [] r = dollars -> Send(acme, ngnA, usdB, 1)
      [] r = lost    -> Send(globex, ghost, ngnB, 1)]

MCDto == {MCDtoOf[r] : r \in Transfer}
MCBody == {[MCDtoOf[r] EXCEPT !.caller = 0] : r \in Transfer}
MCBodyOf == [r \in Transfer |-> [MCDtoOf[r] EXCEPT !.caller = 0]]

(* A race with a retry; and pairs for what else can happen under one key.   *)
MCScenario == {{first, retry, back}, {first, reuse}, {broke, back},
               {stolen, dollars}, {lost, first}}

(* Keys belong to a merchant: k1 and k3 are acme's, k2 is globex's. *)
MCKeyOf == [r \in Transfer |-> CASE r \in {first, retry, reuse} -> k1
                                [] r \in {back, broke, lost} -> k2
                                [] r \in {stolen, dollars} -> k3]
=============================================================================

---------------------------- MODULE MCTransfers ----------------------------
(* Small instances of Transfers: merchants, wallets and requests.           *)
EXTENDS Transfers, TLC

CONSTANTS acme, globex,             \* merchants
          ngnA, ngnB, ngnC,         \* wallets
          ghost,                    \* an id of no wallet
          t1, t2, t3

MCOwner == [w \in Wallet |-> IF w = ngnA THEN acme ELSE globex]
MCCurrency == [w \in Wallet |-> "NGN"]
MCFunds == [w \in Wallet |-> 2]

Body(caller, from, to, amount) ==
    [caller |-> caller, from |-> from, to |-> to, amount |-> amount]

(* Two directions and two amounts over the same two wallets: conflicts,     *)
(* a source that becomes too poor, a destination that overflows.  And a     *)
(* third wallet, so that a circle of three can wait for one another.        *)
Racing == {Body(acme, ngnA, ngnB, 2), Body(acme, ngnA, ngnB, 1),
           Body(globex, ngnB, ngnA, 1),
           Body(globex, ngnB, ngnC, 1), Body(globex, ngnC, ngnA, 1)}

Requests == Permutations(Transfer)
=============================================================================

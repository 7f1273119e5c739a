----------------------------- MODULE MCPayouts -----------------------------
(* Small instances of Payouts: the settlement worker, which is for every    *)
(* wallet, and merchants who trigger a settlement of their own wallet.      *)
EXTENDS Payouts

CONSTANTS worker, replica,          \* two settlement workers
          acme,                     \* a merchant's POST /payouts/run
          wA,                       \* acme's wallet
          p1, p2

MCScope == [k \in Settler |-> IF k = acme THEN {wA} ELSE Wallet]
MCFunds == [w \in Wallet |-> 2]
=============================================================================

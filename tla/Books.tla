------------------------------- MODULE Books -------------------------------
(***************************************************************************)
(* What the money side of the service promises, with no databases, retries *)
(* or locks in it: an account book in which one whole movement happens at  *)
(* a time, and none that an account cannot bear.                           *)
(***************************************************************************)
EXTENDS Integers

CONSTANTS Account, Opening, Limit

VARIABLE book

Bearable(a, amount) == book[a] + amount \in 0..Limit

Init == book = Opening

(* A transfer debits one account and credits another, at once. *)
Move(from, to, amount) ==
    /\ from # to
    /\ Bearable(from, -amount) /\ Bearable(to, amount)
    /\ book' = [book EXCEPT ![from] = @ - amount, ![to] = @ + amount]

Next == \E from, to \in Account : \E amount \in 1..Limit : Move(from, to, amount)

Spec == Init /\ [][Next]_book
=============================================================================

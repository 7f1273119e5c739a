----------------------------- MODULE MCAccounts -----------------------------
(* A small instance of Accounts: one mailbox under two spellings, another    *)
(* one, and two passwords.                                                  *)
EXTENDS Accounts, TLC

CONSTANTS lower, upper, other, right, wrong, r1, r2, r3, r4, r5

MCNormal == [e \in Email |-> IF e = upper THEN lower ELSE e]

Credentials(kind, email, password) ==
    [kind |-> kind, email |-> email, password |-> password]

MCAsk == {Credentials("register", lower, right), Credentials("register", upper, wrong),
          Credentials("register", other, right),
          Credentials("login", lower, wrong), Credentials("login", upper, right),
          [kind |-> "me"], [kind |-> "list"], [kind |-> "create", currency |-> "NGN"]}

Interchangeable == Permutations(Request)
=============================================================================

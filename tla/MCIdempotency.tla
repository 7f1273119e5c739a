--------------------------- MODULE MCIdempotency ---------------------------
(* Small instances of Idempotency: one key that three requests share, and a *)
(* second one, with two bodies between them.                                *)
EXTENDS Idempotency, TLC

CONSTANTS r1, r2, r3, r4, k1, k2, b1, b2

MCKeyOf == [r \in Request |-> IF r = r4 THEN k2 ELSE k1]
MCBodyOf == [r \in Request |-> IF r = r3 THEN b2 ELSE b1]
OneBody == [r \in Request |-> b1]

Twins == Permutations({r1, r2})
=============================================================================

CONSTANTS
    r1 = r1
    r2 = r2
    r3 = r3
    r4 = r4
    k1 = k1
    k2 = k2
    b1 = b1
    b2 = b2
    Request = {r1, r2, r3}
    Key = {k1}
    Body = {b1, b2}
    KeyOf <- MCKeyOf
    BodyOf <- OneBody
    Outcome = {"201", "500"}
    Faults = {}

SPECIFICATION Spec
INVARIANT OneClaimant

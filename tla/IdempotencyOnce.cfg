CONSTANTS
    r1 = r1
    r2 = r2
    r3 = r3
    r4 = r4
    k1 = k1
    k2 = k2
    b1 = b1
    b2 = b2
    Request = {r1, r2, r3, r4}
    Key = {k1, k2}
    Body = {b1, b2}
    KeyOf <- MCKeyOf
    BodyOf <- MCBodyOf
    Outcome = {"201", "422", "500", "lost"}
    Faults = {"crash", "claimFails", "claimAckLost", "persistFails"}

SPECIFICATION Spec
SYMMETRY Twins
INVARIANTS
    AtMostOnce
    RepliesNameTheTransfer
    AnswersAreSaved
    InProgressMeansRunning

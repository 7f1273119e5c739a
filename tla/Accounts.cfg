CONSTANTS
    lower = lower
    upper = upper
    other = other
    right = right
    wrong = wrong
    r1 = r1
    r2 = r2
    r3 = r3
    r4 = r4
    r5 = r5
    Request = {r1, r2, r3, r4, r5}
    Email = {lower, upper, other}
    Normal <- MCNormal
    Password = {right, wrong}
    Currency = {"NGN", "USD"}
    Ask <- MCAsk
    MaxFaults = 1
    Faults = {"dbError", "ackLost", "crash"}

SPECIFICATION Spec
SYMMETRY Interchangeable
INVARIANTS
    SessionsAreEarned
    RepliesAreTrue
PROPERTY RegisteredCanLogIn

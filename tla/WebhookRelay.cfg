CONSTANTS
    e1 = e1
    w1 = w1
    w2 = w2
    Event = {e1}
    Worker = {w1, w2}
    Slot = {1, 2}
    MaxAttempts = 2
    Batch = 1
    Prefetch = 1
    MaxFaults = 2
    Faults = {"crash", "dbError", "confirmLost", "slowRelay", "unheard", "endpointDeleted"}

SPECIFICATION FairSpec
INVARIANTS
    TypeOK
    NothingIsLost
    ReceivedOnce
    FailedMeansRefused
    TriedWithinLimit
PROPERTIES
    SettledUnlessHeld
    EveryEventEnds

CONSTANTS
    e1 = e1
    e2 = e2
    w1 = w1
    w2 = w2
    Event = {e1, e2}
    Worker = {w1, w2}
    MaxAttempts = 2
    Batch = 2
    MaxFaults = 2
    Faults = {"crash", "dbError", "slowWorker", "unheard", "endpointDeleted"}

SPECIFICATION FairSpec
INVARIANTS
    TypeOK
    StatusIsTrue
    ReceivedOnce
PROPERTIES
    TerminalIsFinal
    EveryEventSettles

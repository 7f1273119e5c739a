CONSTANTS
    acme = acme
    globex = globex
    wA = wA
    i1 = i1
    i2 = i2
    r1 = r1
    r2 = r2
    r3 = r3
    e1 = e1
    e2 = e2
    Merchant = {acme, globex}
    Wallet = {wA}
    Intent = {i1, i2}
    Request = {r1, r2, r3}
    Txn = {r1, r2, r3}
    Owner <- MCOwner
    PaysInto <- MCPaysInto
    Amount <- MCAmount
    Funds <- MCFunds
    Ask <- MCAsk
    Endpoint = {e1, e2}
    ListensTo <- MCListensTo
    MaxBalance = 2
    Faults = {"dbError", "ackLost", "crash"}

SPECIFICATION FairSpec
INVARIANTS
    TypeOK
    AnswersStayTrue
PROPERTIES
    KeepsPromise
    EveryRequestEnds

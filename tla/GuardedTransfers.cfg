CONSTANTS
    acme = acme
    globex = globex
    ngnA = ngnA
    ngnB = ngnB
    usdB = usdB
    ghost = ghost
    first = first
    retry = retry
    reuse = reuse
    back = back
    broke = broke
    stolen = stolen
    dollars = dollars
    lost = lost
    k1 = k1
    k2 = k2
    k3 = k3
    Merchant = {acme, globex}
    Wallet = {ngnA, ngnB, usdB}
    NoWallet = ghost
    Owner <- MCOwner
    Currency <- MCCurrency
    Funds <- MCFunds
    MaxBalance = 3
    Transfer = {first, retry, reuse, back, broke, stolen, dollars, lost}
    Txn = {first, retry, reuse, back, broke, stolen, dollars, lost}
    Dto <- MCDto
    MaxRetries = 1
    Key = {k1, k2, k3}
    Body <- MCBody
    DtoOf <- MCDtoOf
    KeyOf <- MCKeyOf
    BodyOf <- MCBodyOf
    Scenario <- MCScenario
    Faults = {"dbError", "ackLost", "crash"}
    GuardFaults = {"crash", "claimFails", "claimAckLost", "persistFails"}

SPECIFICATION GuardedFairSpec
INVARIANTS
    RefusalIsFinal
PROPERTIES
    ImplementsGuard
    EveryRequestEnds

CONSTANTS
    worker = worker
    replica = replica
    acme = acme
    wA = wA
    p1 = p1
    p2 = p2
    Settler = {worker, acme}
    Txn = {worker, acme}
    Wallet = {wA}
    Payout = {p1, p2}
    Scope <- MCScope
    Funds <- MCFunds
    MinPayout = 1
    MaxAttempts = 2
    Limit = 2
    MaxCharged = 1
    MaxBalance = 2
    MaxFaults = 2
    Faults = {"abort", "crashAfterBank", "markPaidFails"}

SPECIFICATION FairSpec
INVARIANTS
    MerchantsAreTold
    MoneyIsConserved
    SentAtMostOnce
    StatusTellsTheBank
PROPERTIES
    TerminalIsFinal
    EveryPayoutSettles

CONSTANTS
    worker = worker
    replica = replica
    acme = acme
    wA = wA
    p1 = p1
    p2 = p2
    Settler = {worker, replica}
    Txn = {worker, replica}
    Wallet = {wA}
    Payout = {p1}
    Scope <- MCScope
    Funds <- MCFunds
    MinPayout = 1
    MaxAttempts = 2
    Limit = 1
    MaxCharged = 0
    MaxBalance = 4
    MaxFaults = 0
    Faults = {"slowSettler"}

SPECIFICATION Spec
INVARIANT MoneyIsConserved

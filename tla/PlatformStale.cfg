CONSTANTS
    acme = acme
    globex = globex
    wA = wA
    wB = wB
    ghost = ghost
    t1 = t1
    t2 = t2
    r1 = r1
    r2 = r2
    i1 = i1
    worker = worker
    p1 = p1
    p2 = p2
    Merchant = {acme, globex}
    Wallet = {wA, wB}
    Transfer = {t1}
    Settler = {worker}
    Txn = {t1, worker}
    Payout = {p1}
    NoWallet = ghost
    Owner <- MCOwner
    Currency <- MCCurrency
    Funds <- MCFunds
    Scope <- MCScope
    Dto <- There
    MaxBalance = 4
    MaxRetries = 2
    MinPayout = 1
    MaxAttempts = 1
    Limit = 1
    MaxFaults = 0
    Faults = {}
    Request = {}
    Intent = {}
    Beneficiary <- MCBeneficiary
    PaysInto <- MCPaysInto
    Amount <- MCAmount
    Ask <- MCAsk
    Endpoint = {}
    ListensTo <- MCListensTo
    PaymentFaults = {}
    SettlementFaults = {}

SPECIFICATION PlatformSpec
INVARIANT CheckNeverFires

CONSTANTS
    acme = acme
    globex = globex
    wA = wA
    wB = wB
    ghost = ghost
    t1 = t1
    t2 = t2
    r1 = r1
    r2 = r2
    i1 = i1
    worker = worker
    p1 = p1
    p2 = p2
    Merchant = {acme, globex}
    Wallet = {wA, wB}
    Transfer = {t1, t2}
    Settler = {worker}
    Txn = {t1, t2, r1, worker}
    Payout = {p1}
    NoWallet = ghost
    Owner <- MCOwner
    Currency <- MCCurrency
    Funds <- MCFunds
    Scope <- MCScope
    Dto <- There
    MaxBalance = 3
    MaxRetries = 2
    MinPayout = 1
    MaxAttempts = 1
    Limit = 1
    MaxFaults = 1
    Faults = {}
    Request = {r1}
    Intent = {i1}
    Beneficiary <- MCBeneficiary
    PaysInto <- MCPaysInto
    Amount <- MCAmount
    Ask <- MCAsk
    Endpoint = {}
    ListensTo <- MCListensTo
    PaymentFaults = {"crash"}
    SettlementFaults = {"abort"}

SPECIFICATION PlatformSpec
SYMMETRY Interchangeable
INVARIANTS
    BooksBalance
    MoneyIsAccountedFor

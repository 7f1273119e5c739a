CONSTANTS
    acme = acme
    globex = globex
    ngnA = ngnA
    ngnB = ngnB
    ngnC = ngnC
    ghost = ghost
    t1 = t1
    t2 = t2
    t3 = t3
    Merchant = {acme, globex}
    Wallet = {ngnA, ngnB, ngnC}
    NoWallet = ghost
    Owner <- MCOwner
    Currency <- MCCurrency
    Funds <- MCFunds
    MaxBalance = 3
    Txn = {t1, t2, t3}
    Transfer = {t1, t2, t3}
    Dto <- Racing
    MaxRetries = 2
    Faults = {"dbError", "ackLost", "crash"}

SPECIFICATION Spec
SYMMETRY Requests
INVARIANTS
    SameVersionSameBalance
    CheckNeverFires
    TransfersExplainBalances
    ConflictsHaveWinners
    RepliesAreHonest
PROPERTY ImplementsBooks

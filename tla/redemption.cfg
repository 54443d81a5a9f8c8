SPECIFICATION FairSpec
CONSTANTS
    a = a
    b = b
    c = c
    d = d
    v = v
    w = w
    n = n
    Calls <- MCCalls
    Keys <- MCKeys
    Batch <- MCBatch
    Amount <- MCAmount
    Price <- MCPrice
    Accepts <- MCAccepts
    ExpiresAt <- MCExpiry
    Faulty = {a, c}
    MaxTime = 1
INVARIANTS
    NoDoubleSpend
    RedeemedStaysSpent
    NothingElseLeaks
    NoMutualRefusal
PROPERTIES
    KeepsPromise
    EveryCallReturns
CHECK_DEADLOCK FALSE

SPECIFICATION Spec
CONSTANTS
    a = a
    b = b
    c = c
    d = d
    v = v
    w = w
    n = n
    Calls <- MCCalls
    Keys <- MCKeys
    Batch <- MCBatch
    Amount <- MCAmount
    Price <- MCPrice
    Accepts <- MCAccepts
    ExpiresAt <- MCExpiry
    Faulty = {a}
    MaxTime = 1
INVARIANT
    AllOrNothing
CHECK_DEADLOCK FALSE

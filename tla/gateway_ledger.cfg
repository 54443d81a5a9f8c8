SPECIFICATION GSpec
CONSTANTS
    a = a
    b = b
    c = c
    v = v
    w = w
    x = x
    w1 = w1
    w2 = w2
    w3 = w3
    NoWorker = NoWorker
    Keys <- MCKeys
    Amount <- MCAmount
    ExpiresAt <- MCExpiry
    MaxOutput = 2
    MaxInput = 2
    InRate = 10
    OutRate = 10
    Window = 1
    Calls <- PairCalls
    Batch <- PairBatch
    Price <- PairPrice
    Accepts <- PairAccepts
    SentTo <- PairSentTo
    Request <- PairRequest
    Workers <- MCWorkers
    PaidWorkers <- MCPaid
    LedgerOf <- SharedLedger
    Faulty = {}
    MaxCrashes = 0
    Limit = 1
    Usage <- MCUsage
    MaxTime = 1
PROPERTY
    LedgerAppendOnly
CHECK_DEADLOCK FALSE

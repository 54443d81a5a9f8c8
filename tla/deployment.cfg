SPECIFICATION Spec
CONSTANTS
    Jobs = {d1, d2}
    Sellers = {s1, s2}
    Nothing = Nothing
    NaN = NaN
    Open = {TRUE}
    Price = 3
    MaxPolls = 1
    MaxBids = 2
INVARIANTS
    NothingBehind
    LeasedAtLowest
    ReadyIsReal
PROPERTIES
    EveryCallEnds
CHECK_DEADLOCK FALSE

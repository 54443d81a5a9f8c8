SPECIFICATION Spec
CONSTANTS
    Jobs = {d1, d2}
    Sellers = {s1, s2}
    Nothing = Nothing
    NaN = NaN
    Open = {TRUE, FALSE}
    Price = 3
    MaxPolls = 1
    MaxBids = 2
INVARIANT LeasedIsCheapestOpen
CHECK_DEADLOCK FALSE

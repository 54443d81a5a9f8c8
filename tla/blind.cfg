SPECIFICATION BSpec
CONSTANTS
    x = x
    y = y
    a = a
    b = b
    c = c
    d = d
    s = s
    t = t
    u = u
    one = one
    ten = ten
    Credits = {x, y}
    Redemptions = {a, b, c, d}
    Texts = {s, t, u}
    Values = {one, ten}
    Decode <- MCDecode
    TextOf <- MCTextOf
    Asks <- MCAsks
    ValueOf <- MCValueOf
    Fdh <- MCFdh
    N = 33
    E = 3
    D = 7
INVARIANTS
    Unlinkable
    RedeemedSoundly
CHECK_DEADLOCK FALSE

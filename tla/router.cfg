SPECIFICATION FairSpec
CONSTANTS
    p = p
    q = q
    r = r
    s = s
    m = m
    n = n
    v = v
    w = w
    x = x
    t1 = t1
    t2 = t2
    Chats <- MCChats
    Providers <- MCProviders
    Candidates <- MCCandidates
    Vouchers <- MCVouchers
    FirstWallet <- MCWallet
    Amount <- MCAmount
    Price <- MCPrice
    Paid = {p, q, s, m, n}
    Malformed = {m}
    Accepts <- MCAccepts
    Expiring = {x}
    Schemes <- MCSchemes
    HasWallet = {t1, t2}
    HasKey = {t2}
    GuardOf <- MCGuard
    Untrusted = {p}
INVARIANTS
    WalletSound
    PaidOnce
PROPERTIES
    EveryChatEnds
CHECK_DEADLOCK FALSE

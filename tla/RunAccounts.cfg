SPECIFICATION MCSpec
CONSTANTS
    Users = {u1, u2}
    Updates = {q1, q2}
    Nobody = nobody
    t1 = t1
    t2 = t2
    r1 = r1
    r2 = r2
    Tabs = {t1, t2}
    Requests = {r1, r2}
    TabOf <- MCTabOf
    MaxTokens = 3
    MaxLosses = 1
SYMMETRY Symmetry
INVARIANTS
    AccountsTypeOK
    SuperadminRemains
    SetupOnce
    NobodyWaitsInVain
    NoDeadCookie
PROPERTIES
    NobodyTakenForThief
CHECK_DEADLOCK FALSE

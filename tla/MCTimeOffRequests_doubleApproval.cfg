CONSTANTS
    k1 = k1
    k2 = k2
    Keys = {k1, k2}
    Calls = {c1, c2}
    Days <- MCDays
    InitialDays = 4
    HcmDays = {}
    MaxOutbox = 5
    NoKey = NoKey
    NoRow = NoRow
    Null = Null
SPECIFICATION HandlerSpec
INVARIANTS
    DebitedAtMostOnce

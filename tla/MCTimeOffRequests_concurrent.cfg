CONSTANTS
    k1 = k1
    k2 = k2
    Keys = {k1, k2}
    Calls = {c1, c2}
    Days <- MCDays
    InitialDays = 4
    HcmDays = {2}
    MaxOutbox = 4
    NoKey = NoKey
    NoRow = NoRow
    Null = Null
SYMMETRY MCSymmetry
SPECIFICATION Spec
INVARIANTS
    TypeOK
    NonNegative
    ApprovedWasDebited
    CreditFollowsDebit
PROPERTIES
    NeverReopened

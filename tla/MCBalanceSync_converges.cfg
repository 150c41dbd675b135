CONSTANTS
    vacation = vacation
    sick = sick
    r1 = r1
    r2 = r2
    Store <- MCStore
    Requests = {r1}
    Cancelled = {r1}
    LeaveType <- MCLeaveType
    Days <- MCDays
    InitialDays = 1
    HcmDays <- MCTaken
    Vacation = vacation
    BonusDays <- MCMalus
    BalanceRange = {0, 1}
    YearDays <- MCYearDays
    NoWebhook = NoWebhook
    Slots = {c1, c2}
    NoRow = NoRow
    MaxEvents = 2
    MaxFailed = 1
SPECIFICATION Spec
INVARIANTS
    TypeOK
PROPERTIES
    Converges
    BatchGoesOn

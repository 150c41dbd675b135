CONSTANTS
    vacation = vacation
    sick = sick
    r1 = r1
    r2 = r2
    Store <- MCVacation
    Requests = {r1, r2}
    Cancelled = {r1}
    LeaveType <- MCLeaveType
    Days <- MCDays
    InitialDays = 2
    HcmDays <- MCKept
    Vacation = vacation
    BonusDays = 1
    BalanceRange = {}
    YearDays <- MCNoYear
    NoWebhook = NoWebhook
    Slots = {c1}
    NoRow = NoRow
    MaxEvents = 3
    MaxFailed = 0
SPECIFICATION PromptSpec
INVARIANTS
    DeductionSurvives

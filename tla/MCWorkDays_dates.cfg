CONSTANTS
    Zones <- MCZones
    Dates <- MCDates
    Hours <- MCHours
    Nows <- MCNows
SPECIFICATION Spec
CHECK_DEADLOCK FALSE
INVARIANTS
    TypeOK
    ChargesWorkDays
    ChargesLocalDays
    OnlyThePastIsRefused
PROPERTIES
    Answers

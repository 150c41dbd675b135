CONSTANTS
    NoRow = NoRow
    Ticks = {t1, t2}
    Entries <- MCDistinct
    MaxRows = 2
    BatchSize = 2
    MaxRetries = 2
    MaxFaults = 0
SPECIFICATION Spec
INVARIANTS
    AppliedAtMostOnce
CHECK_DEADLOCK FALSE

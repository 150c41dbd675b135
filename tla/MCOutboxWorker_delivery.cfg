CONSTANTS
    NoRow = NoRow
    Ticks = {t1, t2}
    Entries <- MCEntries
    MaxRows = 3
    BatchSize = 2
    MaxRetries = 2
    MaxFaults = 1
SPECIFICATION FairSpec
INVARIANTS
    TypeOK
    SentWasApplied
    OldestFirst
    RetriesAreCounted
    RepeatsAreBounded
    NewestUnlessRepeated
PROPERTIES
    ImplementsDelivery
    SettledForGood
    EventuallySettled
CHECK_DEADLOCK FALSE

CONSTANTS
    Calls = {c1, c2, c3}
    Timeout = 2
    ResetTimeout = 4
    Buckets = 2
    VolumeThreshold = 3
    ErrorThreshold = 50
    MaxFires = 2
SPECIFICATION FairSpec
INVARIANTS
    TypeOK
    ProbeIsAlone
PROPERTIES
    OpenUntilReset
    EveryCallReturns
    Recovers

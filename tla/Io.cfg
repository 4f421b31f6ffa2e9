SPECIFICATION FairSpec
CONSTANTS
    Frames = {f1, f2, f3}
    None = None
    LowThreshold = 0
    HighThreshold = 1
    Ks = 1
    PendingLimit = 2
    WriteLen = 3
    InfoLen = 2
    ReadSizes = {1, 2}
    Timed = TRUE
    MaxWrites = 1
    MaxReads = 1
    MaxRx = 1
    MaxFaults = 1
    MaxSessions = 2
INVARIANTS
    RefsBalanced
    GateExclusive
    NoStaleTxReset
    OneStream
    NormalMeansFree
PROPERTY
    WriteReturns
CHECK_DEADLOCK FALSE

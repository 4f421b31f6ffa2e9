SPECIFICATION AckSpec
CONSTANTS
    Frames = {f1, f2, f3}
    None = None
    LowThreshold = 0
    HighThreshold = 1
    Ks = 1
    PendingLimit = 2
    WriteLen = 3
    InfoLen = 2
    ReadSizes = {3}
    Timed = FALSE
    MaxWrites = 1
    MaxReads = 1
    MaxRx = 2
    MaxFaults = 0
    MaxSessions = 1
PROPERTY
    WriterWoken
CHECK_DEADLOCK FALSE

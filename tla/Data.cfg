CONSTANTS
    Mod = 3
    Ks = 2
    Links <- DataLinks
    UseREJ = TRUE
    WriterMargin = 1
    RetryMax = 1
    PoolLow = 99
    PoolNormal = 99
    Readers = {}
    MaxLoss = 1
SPECIFICATION Spec
INVARIANTS
    WindowsConsistent
    PollAnswered
    NoFrmr
    HalfDuplex
PROPERTIES
    ReliableStream
CHECK_DEADLOCK FALSE

CONSTANTS
    Mod = 4
    Ks = 2
    Links <- AbmLinks
    UseREJ = TRUE
    WriterMargin = 1
    RetryMax = 3
    PoolLow = 99
    PoolNormal = 99
    Readers = {}
    MaxLoss = 1
SPECIFICATION Spec
INVARIANTS
    TimerWatches
CHECK_DEADLOCK FALSE

CONSTANTS
    Mod = 2
    Ks = 1
    Links <- FlowLinks
    UseREJ = TRUE
    WriterMargin = 1
    RetryMax = 3
    PoolLow = 2
    PoolNormal = 1
    Readers = {"B"}
    MaxLoss = 1
SPECIFICATION FairSpec
INVARIANTS
    TimerWatches
PROPERTIES
    Delivery
CHECK_DEADLOCK FALSE

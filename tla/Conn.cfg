CONSTANTS
    Mode = "NRM"
    Links <- ConnLinks
    Secondaries <- TwoSecondaries
    RetryMax = 1
    MaxRestarts = 0
SPECIFICATION Spec
INVARIANTS
    NoGhost
    ModeKept
    RequestServed
CHECK_DEADLOCK FALSE

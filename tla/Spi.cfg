SPECIFICATION FairSpec
CONSTANTS
    Frames = {f1, f2}
    None = None
    Limit = 2
    DmaErrors <- SlaveRx
    MaxSend = 2
    MaxFaults = 1
INVARIANTS
    Exclusive
    PortDriverAgree
    NotStranded
    KeepsListening
PROPERTY
    Released
CHECK_DEADLOCK FALSE

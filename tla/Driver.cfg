SPECIFICATION FairSpec
CONSTANTS
    Options <- MCOptions
    Backends <- MCBackends
    Ports <- MCPorts
    Addr = 3
    Infos <- MCInfos
    LineOctets <- MCOctets
    PoolSizes = {1, 2}
    MaxSend = 2
    MaxFaults = 1
    MaxIdle = 2
    MaxPermits = 4
INVARIANTS
    InBounds
    Accounted
    Intact
    PlanAgrees
    FcsHandled
PROPERTY
    Delivered
CHECK_DEADLOCK FALSE

SPECIFICATION FairSpec
INVARIANTS
    LinkKnown
    LeavesNothing
    IInv
PROPERTIES
    StopReturns
    Reconnects

CONSTANTS
    Mod = 4
    Ks = 3
    WriterMargin = 1
    MaxWrites = 6
SPECIFICATION Spec
INVARIANTS
    WindowInvariant
    NumberingCycle
    InOrder
    NumberIsOrdinal
    IInv

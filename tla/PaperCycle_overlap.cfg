SPECIFICATION Spec
CONSTANTS
    Cycles = {c1, c2}
    Days = {1}
    Symbols <- StillSymbols
    Equities = {1}
    Target <- StillTarget
    InitialHoldings <- StillHoldings
    MaxQuantity = 2
    Modes = {"submit"}
    LegacyLedgers <- StillLegacy
    MaxRuns = 3
    NoId = NoId
SYMMETRY CycleSymmetry
INVARIANTS
    TypeOK
    SentIsRecorded
    SentOnce
    SnapshotCoherent
    NoOvershoot
PROPERTIES
    RecordsAreKept
    FinalStatusIsKept
    BuysWaitForSells
CHECK_DEADLOCK FALSE

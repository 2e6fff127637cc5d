SPECIFICATION FairSpec
CONSTANTS
    Symbols = {a, b}
    Prices = {2, 3}
    Unit = 4
    Mode = "long_only"
    Targets <- LongTargets
    MaxPositionWeight = 3
    MaxGross = 4
    MaxOrderNotional = NoCap
    MaxNotional = NoCap
    NoCap = NoCap
    MinTradeNotional = 1
    InitialCash = 9
    MaxEquity = 20
    MaxMoves = 3
    MaxCancels = 1
INVARIANTS
    NoLeverage
    GateAcceptsSizing
PROPERTIES
    FillsRespectCaps
    Converges
CHECK_DEADLOCK FALSE

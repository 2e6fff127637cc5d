SPECIFICATION Spec
CONSTANTS
    Cycles = {c1}
    Days = {1}
    Symbols <- LegSymbols
    Equities = {1, 2}
    Target <- LegTarget
    InitialHoldings <- LegHoldings
    MaxQuantity = 2
    Modes = {"submit"}
    LegacyLedgers <- NothingLeft
    MaxRuns = 3
    NoId = NoId
PROPERTIES
    UncertainLegBlocksRetry
CHECK_DEADLOCK FALSE

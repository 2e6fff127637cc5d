SPECIFICATION FairSpec
CONSTANTS
    Cycles = {c1}
    Days = {1}
    Symbols <- DriftSymbols
    Equities = {1, 2}
    Target <- DriftTarget
    InitialHoldings <- DriftHoldings
    MaxQuantity = 2
    Modes = {"preview", "submit", "retry"}
    LegacyLedgers <- LostSell
    MaxRuns = 2
    NoId = NoId
INVARIANTS
    OneOrderPerId

    
CHECK_DEADLOCK FALSE

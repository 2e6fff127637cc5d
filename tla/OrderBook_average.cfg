SPECIFICATION Spec
CONSTANTS
    OrderIds = {a}
    Symbols = {s}
    Quantities = {3}
    Prices = {2, 3}
    Tolerance = 0
    NoOrder = NoOrder
    NoPrice = NoPrice
INVARIANTS
    AverageWithinPrices
CHECK_DEADLOCK FALSE

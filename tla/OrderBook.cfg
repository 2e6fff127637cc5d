SPECIFICATION Spec
CONSTANTS
    OrderIds = {a, b}
    Symbols = {s}
    Quantities = {3}
    Prices = {2, 3}
    Tolerance = 1
    NoOrder = NoOrder
    NoPrice = NoPrice
SYMMETRY AnyOrder
INVARIANTS
    TypeOK
    BookValid
    PositionIsFills
    NothingAppliedTwice
    BasisWithinPrices
    NewestReportApplies
CHECK_DEADLOCK FALSE

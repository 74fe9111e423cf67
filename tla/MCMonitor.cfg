SPECIFICATION ScopedSpec
CONSTANTS
    MonthLength = 2
    Threshold = 1
    Cats <- TwoCats
    Plan <- Even
    Bills <- Rent
    Bounds <- Either
INVARIANTS LedgerBacked OncePerMonth NewsOnly
PROPERTY OverReported
CHECK_DEADLOCK FALSE

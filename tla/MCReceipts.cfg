SPECIFICATION ScopedSpec
CONSTANTS
    Receipts <- Three
    Txns <- Two
    Cap = 2
    Mishaps = 3
INVARIANT LedgerTruthful
PROPERTIES OpenEvictedLast ReceiptsResolve
CHECK_DEADLOCK FALSE

SPECIFICATION ScopedSpec
CONSTANTS
    Txns = {t1, t2}
    Other = t2
    Offers = {o1}
    Offered = o1
    Actions = {receipt}
    Retained = 3
    PageCap = 3
    MaxQueries = 2
    MaxResolve = 1
    StaleAfter = 1
    Bounds <- Each
INVARIANTS MastheadSound WaitingShown
CHECK_DEADLOCK FALSE

CONSTANTS
    Txns      = {t1, t2, t3, t4}
    RunCap    = 1
    DayCap    = 2
    RunWindow = 1
    DayWindow = 3
    Overlap   = 2
    Losses    = 1
    MaxTime   = 3
SYMMETRY TxnSymmetry
SPECIFICATION BreakerSpec
INVARIANTS TailExact OvershootBounded
CHECK_DEADLOCK FALSE

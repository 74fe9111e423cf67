CONSTANTS
    Actions = {c1, c2}
    K       = 2
    Bounds  <- Mixed
SYMMETRY ActionSymmetry
SPECIFICATION Spec
INVARIANTS GrantedNotTaken EarnedByConfirms
PROPERTY AskedOnce
CHECK_DEADLOCK FALSE

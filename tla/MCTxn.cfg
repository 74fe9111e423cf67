CONSTANTS
    Categories  = {c1, c2}
    MemoParts   = {"import", "items", "note"}
    Amazon      = FALSE
    RuleAlloc   = c1
    RuleMemo    = {}
    Blessed     = TRUE
    ReplyMemos  = {{"note"}}
    FirstAllocs = {"none"}
    FirstMemos  = {{}}
    Bounds      <- Faults
SPECIFICATION Spec
INVARIANTS DriverInStep SilenceIsNotConsent EachEmailOnce RestIsVerified DivergenceIsReal
PROPERTY KeepsContract
CHECK_DEADLOCK FALSE

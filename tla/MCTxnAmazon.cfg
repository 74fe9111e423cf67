CONSTANTS
    Categories  = {c1, c2}
    MemoParts   = {"import", "items", "note"}
    Amazon      = TRUE
    RuleAlloc   = c1
    RuleMemo    = {}
    Blessed     = TRUE
    ReplyMemos  = {{}}
    FirstAllocs = {"none"}
    FirstMemos  = {{}, {"import"}}
    Bounds      <- Signals
SPECIFICATION FairSpec
INVARIANT SignalsKeptInOrder
PROPERTIES SignalsActedOn NoEndlessWait
CHECK_DEADLOCK FALSE

SPECIFICATION ScopedSpec
CONSTANTS
    Cooldown = 3
    Window = 1
    Cap = 1
    Charges = {c1, c2}
    Backlog = {c1}
    Configured = FALSE
    Interval = 1
    MaxTick = 2
    StaleAfter = 3
    PollBounds <- Any
INVARIANT BacklogIgnored
PROPERTIES DeadmanTruthful NothingLeftBehind
CHECK_DEADLOCK FALSE

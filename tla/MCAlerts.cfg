SPECIFICATION ScopedSpec
CONSTANTS
    Cooldown = 3
    Window = 1
    Cap = 1
    Keys = {k1, k2}
    Senders = {k1}
    Slots = {s1, s2}
    Bounds <- Either
INVARIANT PagesSound
PROPERTY BrokenPaged
CHECK_DEADLOCK FALSE

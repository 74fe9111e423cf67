SPECIFICATION ScopedSpec
CONSTANTS
    Messages <- AllMessages
    Threads = {"t1", "t2", "t3", "t4"}
    Kind <- Owners
    Bounds <- Each
INVARIANTS OnlyTrustedAct OneWay DoneIsDone
PROPERTIES NothingDropped NoOfferResurrected
CHECK_DEADLOCK FALSE

SPECIFICATION FairSpec
CONSTANTS
    Cats <- CatsOrder
    Ceiling = 1
    MovesPerDay = 2
    Largest = 3
    Committed = 2
    Pool = {0, 3}
    Dues = {1}
    Bounds <- OneEach
INVARIANTS PlanSound BudgetAsAgreed DonorsProtected
PROPERTY OfferEnds
CHECK_DEADLOCK FALSE

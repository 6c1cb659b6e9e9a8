CONSTANTS
    Rows = {1, 2, 3}
    PageSizes = {1, 2}
SPECIFICATION PagedSpec
INVARIANTS
    MissedRowsMoved
PROPERTIES
    EveryReviewGetsItsTurn
CHECK_DEADLOCK FALSE

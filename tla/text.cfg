CONSTANTS
    Size = 4
    Overlap = 2
    ScanLimit = 2
    MaxWords = 9
    MaxBlocks = 3
    Problems <- SmallProblems
SPECIFICATION TextSpec
INVARIANTS
    ConfidenceOverlooksOnlyColons
    RiskyIsHeld
PROPERTIES
    EveryFileIsChunked
CHECK_DEADLOCK FALSE

CONSTANTS
    d1 = d1
    d2 = d2
    d3 = d3
    w1 = w1
    w2 = w2
    run1 = run1
    run2 = run2
    NoDocument = NoDocument
    Documents <- ThreeAttempts
    Contents = {"ili"}
    ContentOf <- AllTheSame
    ImportRuns = {run1}
    Source <- OneFolder
    Workers = {w1, w2}
    MaxRetries = 1
    MaxCrashes = 2
    Faults = {"crash", "api_crash", "audit", "outage", "slow_embed", "hard_limit"}
SPECIFICATION Spec
SYMMETRY WorkerSymmetry
INVARIANTS
    TypeOK
    UniqueContent
    ChunksMatchStatus
    QueuedHasFile
PROPERTIES
    ImplementsKnowledgeBase
CHECK_DEADLOCK FALSE

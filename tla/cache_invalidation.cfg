CONSTANTS
    q1 = q1
    q2 = q2
    c1 = c1
    c2 = c2
    Queries = {q1, q2}
    Changes = {c1, c2}
    Kind <- IngestAndDelete
    Variants = 2
    Batch = 2
    MaxScan = 1
    MaxAttempts = 2
    MaxCrashes = 1
    Faults = {"redis", "ingest", "audit", "limit", "crash"}
SPECIFICATION FairSpec
INVARIANTS
    TypeOK
    InvalidationIsComplete
    AnswersAreFresh
PROPERTIES
    IngestInvalidates
CHECK_DEADLOCK FALSE

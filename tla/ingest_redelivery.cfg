CONSTANTS
    d1 = d1
    d2 = d2
    d3 = d3
    w1 = w1
    w2 = w2
    run1 = run1
    run2 = run2
    NoDocument = NoDocument
    Documents <- TwoAttempts
    Contents = {"ili"}
    ContentOf <- SameContent
    ImportRuns = {run1}
    Source <- ApiAndImport
    Workers = {w1, w2}
    MaxRetries = 1
    MaxCrashes = 2
    Faults = {"crash", "crash_ack", "crash_resent", "audit"}
SPECIFICATION FairSpec
INVARIANTS
    NothingForgotten
    StagedHasOwner
PROPERTIES
    Settles
CHECK_DEADLOCK FALSE

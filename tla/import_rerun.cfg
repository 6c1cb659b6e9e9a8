CONSTANTS
    d1 = d1
    d2 = d2
    d3 = d3
    w1 = w1
    w2 = w2
    run1 = run1
    run2 = run2
    NoDocument = NoDocument
    Documents <- TwoAttempts
    Contents = {"ili"}
    ContentOf <- SameContent
    ImportRuns = {run1, run2}
    Source <- ImportTwice
    Workers = {w1}
    MaxRetries = 0
    MaxCrashes = 1
    Faults = {"api_crash"}
SPECIFICATION Spec
INVARIANTS
    InterruptedImportCanBeRunAgain
CHECK_DEADLOCK FALSE

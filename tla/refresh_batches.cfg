CONSTANTS
    a = a
    b = b
    w1 = w1
    w2 = w2
    g1 = g1
    NoRun = NoRun
    Runs = {a}
    NumDocs = 3
    Arriving = {2}
    Repeated = {2}
    Deletable = {1}
    Unsummarised = {3}
    Workers = {w1, w2}
    Dashboards = {g1}
    BatchSize = 1
    MaxFill = 1
    MaxRetries = 1
    Faults = {"batch", "crash"}
    MaxKinds = 1
SPECIFICATION Spec
SYMMETRY WorkerSymmetry
INVARIANTS
    TypeOK
    FinishedRunVisitedAll
PROPERTIES
    InsightsAreKept
CHECK_DEADLOCK FALSE

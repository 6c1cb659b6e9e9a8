CONSTANTS
    a = a
    b = b
    w1 = w1
    w2 = w2
    g1 = g1
    NoRun = NoRun
    Runs = {a, b}
    NumDocs = 2
    Arriving = {}
    Repeated = {}
    Deletable = {1}
    Unsummarised = {}
    Workers = {w1, w2}
    Dashboards = {}
    BatchSize = 2
    MaxFill = 1
    MaxRetries = 1
    Faults = {"batch", "crash", "start", "expiry", "forgotten"}
    MaxKinds = 1
SPECIFICATION FairSpec
INVARIANTS
    RefreshesAlone
    StatusIsReadable
    DoneCountsEveryDocument
PROPERTIES
    LockIsGivenBack
CHECK_DEADLOCK FALSE

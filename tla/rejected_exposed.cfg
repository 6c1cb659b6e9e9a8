CONSTANTS
    q1 = q1
    q2 = q2
    r1 = r1
    r2 = r2
    h1 = h1
    NoQuery = NoQuery
    Queries = {q1, q2}
    Questions = {"incidents"}
    Asks <- SameQuestion
    Reviewers = {r1, r2}
    Readers = {}
    Faults = {"redis"}
SPECIFICATION Spec
SYMMETRY RequestSymmetry
INVARIANTS
    RejectedIsWithheld
CHECK_DEADLOCK FALSE

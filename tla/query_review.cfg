CONSTANTS
    q1 = q1
    q2 = q2
    r1 = r1
    r2 = r2
    h1 = h1
    NoQuery = NoQuery
    Queries = {q1, q2}
    Questions = {"incidents"}
    Asks <- SameQuestion
    Reviewers = {r1, r2}
    Readers = {h1}
    Faults = {"generation", "redis", "database", "disconnect"}
SPECIFICATION FairSpec
INVARIANTS
    TypeOK
    DecisionStands
    StreamIsSafe
    StatusMatchesReview
    SettledHistoryIsSafe
PROPERTIES
    ImplementsAnswerRelease
    QuestionSettles
CHECK_DEADLOCK FALSE

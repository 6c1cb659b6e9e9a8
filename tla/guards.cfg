CONSTANTS
    e1 = e1
    a1 = a1
    s1 = s1
    s2 = s2
    u1 = u1
    u2 = u2
    Emails = {e1}
    Addresses = {a1}
    WithSecret = {e1}
    Slots = {s1, s2}
    EmailLimit = 1
    AddressFactor = 2
    Lockout = 2
    MaxDelay = 1
    Requests = {u1, u2}
    MaxTokens = 3
    MaxCost = 2
    Hours = 3
SPECIFICATION GuardsSpec
INVARIANTS
    FailuresAreBounded
    CodeAcceptedOnce
    OvershootIsBounded
PROPERTIES
    FailuresAreForgotten
CHECK_DEADLOCK FALSE

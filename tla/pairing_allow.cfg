\* Two senders who are approved one after the other, by one caller at a time.
SPECIFICATION Spec
CONSTANTS
    Callers = {p1}
    Senders = {s1, s2}
    Codes = {c1, c2, c3}
    PendingMax = 2
    Ttl = 0
    RateLimit = 2
    Window = 0
    MaxTime = 0
    MaxCalls = 4
INVARIANT
    ApprovedStaysAllowed
CHECK_DEADLOCK FALSE

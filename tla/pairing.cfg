\* Two callers, three senders, room for two requests: requests expire, codes
\* come back and are tried wrongly, calls fail and files cannot be read.
SPECIFICATION FairSpec
CONSTANTS
    Callers = {p1, p2}
    Senders = {s1, s2, s3}
    Codes = {c1, c2, c3}
    PendingMax = 2
    Ttl = 0
    RateLimit = 2
    Window = 0
    MaxTime = 1
    MaxCalls = 4
CONSTRAINT NamesInOrder
INVARIANTS
    FileIsWellFormed
    OnlyApproved
    FileIsExact
    FailuresAreCounted
PROPERTY
    CallsReturn
CHECK_DEADLOCK FALSE

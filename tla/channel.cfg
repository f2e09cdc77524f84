\* Every kind of channel; pages as large as a callback may emit.
SPECIFICATION Spec
CONSTANTS
    Kinds <- AllKinds
    Requests = {r1, r2}
    MaxPosts = 3
    MaxCalls = 3
    Page = 2
    MaxEmits = 2
    InboxSize = 1
    QueueSize = 1
    Keepalive <- Keepalives
    MaxRetries = 1
    MaxMissed = 2
INVARIANTS
    InOrder
    NoGaps
    AcknowledgedIsDelivered
PROPERTIES
    SilentServerIsLeft
    ShutdownEnds
CHECK_DEADLOCK FALSE

\* One thread made by the web, then one message to it.
SPECIFICATION Spec
CONSTANTS
    Kinds = {"input"}
    Batches = {}
    MaxMessages = 1
    MaxIterations = 1
    MaxCheckpoints = 1
    KeepRecent = 1
    MaxEvents = 1
INVARIANT MessageReachesItsThread
CHECK_DEADLOCK FALSE

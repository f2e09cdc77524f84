\* Docker and the database never fail, the process does not crash.
SPECIFICATION Spec
CONSTANTS
    Jobs = {j1}
    Earlier = {}
    MaxCrashes = 0
    Reliable = TRUE
INVARIANT CancelledIsNotCompleted
CHECK_DEADLOCK FALSE

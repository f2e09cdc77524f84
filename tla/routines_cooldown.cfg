\* One event routine, nothing fails: two messages in a row.
SPECIFICATION Spec
CONSTANTS
    RoutineIds = {r1}
    Runs = {x1, x2}
    MaxConcurrentRoutines = 2
    MaxConcurrent = 1
    Cooldown = 1
    Period = 1
    MaxChanges = 0
    MaxCrashes = 0
    Reliable = TRUE
PROPERTIES
    EventCooldown
CHECK_DEADLOCK FALSE

\* One routine of either trigger, changed twice by tool and web, while runs,
\* the database and the process may fail.
SPECIFICATION FairSpec
CONSTANTS
    RoutineIds = {r1}
    Runs = {x1, x2}
    MaxConcurrentRoutines = 1
    MaxConcurrent = 1
    Cooldown = 1
    Period = 1
    MaxChanges = 2
    MaxCrashes = 1
    Reliable = FALSE
INVARIANTS
    RunningCountExact
PROPERTIES
    CronCooldown
    DueIsFired
\* Time may stand still once every time is at its limit and nothing is due.
CHECK_DEADLOCK FALSE

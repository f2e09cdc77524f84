SPECIFICATION Spec
CONSTANTS
    Jobs = {j1}
    MaxParallelJobs = 1
    MaxRepairAttempts = 3
    MaxIterations = 1
    MaxPlan = 0
    UsePlanning = FALSE
    HasStore = TRUE
INVARIANT PersistedCancelIsReal

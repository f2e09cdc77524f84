\* Two jobs and two slots: commands, tools, workers, reapers, self-repair,
\* shutdown and the database writes in every order.
SPECIFICATION Spec
CONSTANTS
    Jobs = {j1, j2}
    MaxParallelJobs = 2
    MaxRepairAttempts = 1
    MaxIterations = 1
    MaxPlan = 1
    UsePlanning = TRUE
    HasStore = TRUE
SYMMETRY JobSymmetry
INVARIANTS
    LiveTracked
    LiveState
    DbNeverAhead
    ShutdownStopsWorkers
    RecoveredOnce
PROPERTIES
    FinalStays

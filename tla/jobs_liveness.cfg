\* Two jobs for one slot, with the tasks scheduled fairly and nothing assumed
\* of the user: the limits, the abstract board and what must eventually happen.
SPECIFICATION FairSpec
CONSTANTS
    Jobs = {j1, j2}
    MaxParallelJobs = 1
    MaxRepairAttempts = 1
    MaxIterations = 1
    MaxPlan = 0
    UsePlanning = FALSE
    HasStore = FALSE
INVARIANT Capacity
PROPERTIES
    ImplementsBoard
    SlotReclaimed
    StuckIsRepaired
    ShutdownEnds

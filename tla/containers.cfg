\* One job in every way it can be created, besides one of an earlier process
\* that can be restarted; Docker, the database and the process may fail.
SPECIFICATION FairSpec
CONSTANTS
    Jobs = {j0, j1}
    Earlier = {j0}
    MaxCrashes = 1
    Reliable = FALSE
INVARIANTS
    CompletedIsReported
    AnsweredIsForgotten
    OldWorkersShutOut
    StaleRowsSwept
PROPERTIES
    WaiterReturns
\* An idle process with every id used may stay idle.
CHECK_DEADLOCK FALSE

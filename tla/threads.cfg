\* Every kind of submission, three messages, one web thread, pruning or restart.
SPECIFICATION Spec
CONSTANTS
    Kinds <- AllKinds
    Batches <- AllBatches
    MaxMessages = 3
    MaxIterations = 1
    MaxCheckpoints = 1
    KeepRecent = 1
    MaxEvents = 1
INVARIANTS
    ApprovedOnce
    NoThreadLeftBusy
    ResolvedThreadExists
    RedoKeepsTheBranch
    AnswersFollowQuestions
PROPERTIES
    ConversationSticks
    LoopReturns
CHECK_DEADLOCK FALSE

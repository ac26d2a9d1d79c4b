CONSTANTS
    Jobs = {j1, j2, j3, j4}
    Workers = {w1, w2}
    QueueSize = 1
    NoJob = NoJob
SPECIFICATION FairSpec
CHECK_DEADLOCK FALSE
INVARIANTS
    JobsAccounted
    ShutdownOwesNothing
PROPERTIES
    SubmittedIsDone
    ShutdownReturns
    ImplementsTaskPool

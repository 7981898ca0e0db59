CONSTANTS
    MaxTasks = 2
    MaxRunning = 2
    MaxRetained = 0
    RootOps = {"ASYNC", "LET_ASYNC", "AWAIT", "CANCEL", "TIMEOUT", "FAIL"}
    WorkerOps = {"ASYNC", "LET_ASYNC", "CANCEL", "RETURN", "FAIL"}
SPECIFICATION FairSpec
PROPERTIES
    CancelReturnsEventually
    TeardownEnds
CHECK_DEADLOCK FALSE

CONSTANTS
    MaxTasks = 2
    MaxRunning = 2
    MaxRetained = 2
    RootOps = {"LET_ASYNC", "FAIL"}
    WorkerOps = {"AWAIT"}
SPECIFICATION FairSpec
PROPERTY TeardownEnds
CHECK_DEADLOCK FALSE

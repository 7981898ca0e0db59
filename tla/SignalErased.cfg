CONSTANTS
    MaxTasks = 1
    MaxRunning = 1
    MaxRetained = 1
    RootOps = {"LET_ASYNC", "CANCEL"}
    WorkerOps = {"TIMEOUT"}
SPECIFICATION Spec
INVARIANT SignalNotErased
CHECK_DEADLOCK FALSE

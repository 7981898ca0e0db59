CONSTANTS
    MaxTasks = 2
    MaxRunning = 2
    MaxRetained = 0
    RootOps <- AllRootOps
    WorkerOps <- AllWorkerOps
SPECIFICATION Spec
INVARIANTS
    ReapedMeansJoined
    OneOwner
    LiveCountsThreads
    NoOrphans
    RootOkMeansQuiet
CHECK_DEADLOCK FALSE

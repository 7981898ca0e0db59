SPECIFICATION HostsSpec
CONSTANTS
    v1 = v1
    v2 = v2
    local = local
    Unset = Unset
    Empty = Empty
    Output = Output
    Bad = Bad
    None = None
    Requests <- McpRequests
    Kind <- McpKind
    Scenarios <- McpScenarios
    Broken = {1}
    EarlyEdits = FALSE
    Capacity = 2
    StageCap = 2
    Absent = Absent
    MaxNest = 2
    Constructs = {"FOR", "WHILE", "IF", "TIMEOUT", "ISOLATED", "REMOTE", "CALL", "BLOCK", "CAPTURE", "IMPORT", "WITH_IO"}
    Ends = {"Run", "Break", "Continue", "Return"}
    MaxSession = 2
    MaxCallDepth = 3
    MaxImportDepth = 3
    MaxBodyNest = 4
    Script <- MCScript
    Programs <- MCPrograms
    Tools <- MCTools
    Exports <- MCExports
    FileDir <- MCFileDir
    EnvName <- MCEnvName
    Seed <- MCSeed
    Host <- MCHost
    InitialRoot <- MCInitialRoot
INVARIANTS
    DepthsMatchFrames
    
    
    CallStreamIntact
    GenerationDetectsSwap
    
PROPERTIES
    ScopesRestored
    StoreIsStable
    EventuallyIdle
    

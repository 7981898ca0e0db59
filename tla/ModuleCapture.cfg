SPECIFICATION Spec
CONSTANTS
    v1 = v1
    v2 = v2
    local = local
    Unset = Unset
    Empty = Empty
    Output = Output
    Bad = Bad
    None = None
    MaxNest = 0
    Constructs = {}
    Ends = {"Run", "Break", "Continue", "Return"}
    MaxSession = 0
    MaxCallDepth = 3
    MaxImportDepth = 3
    MaxBodyNest = 4
    Script <- MCScript
    Programs <- MCCallerPrograms
    Tools <- MCTools
    Exports <- MCExports
    FileDir <- MCFileDir
    EnvName <- MCEnvName
    Seed <- MCSeed
    Host <- MCHost
    InitialRoot <- MCInitialRoot
INVARIANT
    ModuleReadsItsOwn

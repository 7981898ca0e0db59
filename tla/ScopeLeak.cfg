SPECIFICATION Spec
CONSTANTS
    v1 = v1
    v2 = v2
    local = local
    Unset = Unset
    Empty = Empty
    Output = Output
    Bad = Bad
    None = None
    MaxNest = 2
    Constructs = {"FOR", "WITH_IO+"}
    Ends = {"Continue"}
    MaxSession = 0
    MaxCallDepth = 3
    MaxImportDepth = 3
    MaxBodyNest = 4
    Script <- MCScript
    Programs <- MCNestPrograms
    Tools <- MCTools
    Exports <- MCExports
    FileDir <- MCFileDir
    EnvName <- MCEnvName
    Seed <- MCSeed
    Host <- MCHost
    InitialRoot <- MCInitialRoot
PROPERTY
    ScopesRestored

\* Two pushes of two bytes past a threshold of one; two commands; one terminal.
SPECIFICATION IoSpec
CONSTANTS
    Byte = {a, b}
    MaxPush = 2
    MaxRead = 2
    SpillThreshold = 1
    MaxBacklog = 3
    MaxAccepted = 5
    None = None
    k1 = k1
    MaxCommands = 2
    Kids = {k1}
    Live = {"l1", "l2"}
    Setups <- RunSetups
INVARIANTS  StreamsIntact KillReachesChild TerminalIntact
PROPERTIES QueueSpec  ResizeApplied
CHECK_DEADLOCK FALSE

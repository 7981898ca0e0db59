\* Menus of file commands, three processes, seven atoms of template, five
\* characters of text.
SPECIFICATION LibrarySpec
CONSTANTS
    Procs = {"p", "q", "r"}
    Threads = {"t", "u"}
    Uses <- InUse
    Pids = {1, 2}
    NoPid = 0
    NoDir = "none"
INVARIANTS TreeStays ScratchSound 
   
CHECK_DEADLOCK FALSE

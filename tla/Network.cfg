\* Two tasks on hubs, two listeners and two calls, one session.
SPECIFICATION NetworkSpec
CONSTANTS
    None = None
    t1 = t1
    t2 = t2
    web = web
    box = box
    h1 = h1
    h2 = h2
    c1 = c1
    c2 = c2
    Task = {t1, t2}
    Scenarios <- HubScenarios
    Talks <- TalkSetups
    Services = {web, box}
    Handles = {h1, h2}
    Callers = {c1, c2}
    Setups <- ServiceSetups
    MemoryCap = 1
INVARIANTS NothingStranded ClaimHasOwner SessionsIntact RemoteChildIntact
PROPERTIES CallsReturn
CHECK_DEADLOCK FALSE

SPECIFICATION Spec
CONSTANTS
    g1 = g1
    g2 = g2
    x = x
    Groups <- Two
    NoGroup = NoGroup
    External <- Files
    Clients <- Calls
    GroupOf <- GroupIn
    NameOf <- NameIn
    Asks <- AsksFor
    Eager = {}
    Invocations = {i1}
    Shutdown = Shutdown
    None = None
    MaxConcurrency = 1
    MaxHandles = 2
    Frail = {g1, g2}
    MaxExits = 1
INVARIANTS
    KillsOwnGroup
CHECK_DEADLOCK FALSE

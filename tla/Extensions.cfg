SPECIFICATION Spec
CONSTANTS
    g1 = g1
    g2 = g2
    x = x
    Groups <- Two
    NoGroup = NoGroup
    External <- Files
    Clients <- Calls
    GroupOf <- GroupIn
    NameOf <- NameIn
    Asks <- AsksFor
    Eager <- Early
    Invocations = {i1}
    Shutdown = Shutdown
    None = None
    MaxConcurrency = 2
    MaxHandles = 2
    Frail = {g1}
    MaxExits = 1
INVARIANTS
    TypeOK
    MapsAgree
    OwnIdentifier
    RuntimeWaits
PROPERTIES
    ImplementsEvents
CHECK_DEADLOCK FALSE

SPECIFICATION FairSpec
CONSTANTS
    Requests = {i1, i2}
    None = None
    Cids = {i1, i2}
    Cid <- OwnCid
    Servers = {s1, s2}
    NoServer = NoServer
    Capacity = 1
    MaxFaults = 1
INVARIANTS
    TypeOK
    NoStaleEntry
    OneResponder
    WaiterReachable
    InFlightBounded
    UnackedHandled
PROPERTIES
    AtLeastOnce
    QueueDrains
    ImplementsRPC
CHECK_DEADLOCK FALSE

SPECIFICATION Spec
CONSTANTS
    Requests = {i1, i2}
    None = None
    Cids = {i1, i2}
    Cid <- OwnCid
    Instances = {r1, r2}
    MaxConcurrency = 2
INVARIANTS
    TypeOK
    ResponseChanNeverBlocks
    WaiterReachable
PROPERTIES
    ImplementsService
CHECK_DEADLOCK FALSE

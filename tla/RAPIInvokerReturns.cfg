SPECIFICATION FairSpec
CONSTANTS
    Requests = {i1, i2}
    None = None
    Cids = {k}
    Cid <- SharedCid
    Instances = {r1, r2}
    MaxConcurrency = 1
INVARIANTS
    OneSender
PROPERTIES
    ReturnsUnlessInInit
    ImplementsService
CHECK_DEADLOCK FALSE

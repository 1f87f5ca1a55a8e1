SPECIFICATION Spec
CONSTANTS
    Requests = {i1, i2}
    None = None
    Cids = {k}
    Cid <- SharedCid
    Instances = {r1, r2}
    MaxConcurrency = 2
SYMMETRY InstanceSymmetry
INVARIANTS
    WaiterReachable
CHECK_DEADLOCK FALSE

SPECIFICATION Spec
CONSTANTS
    Callers = {c1, c2, c3}
    RPCCallers = {}
    Procs = {p1, p2, p3}
    NoPid = NoPid
    MaxConcurrency = 2
    SigCapacity = 2
    MaxTerms = 1
    StartMayFail = TRUE
SYMMETRY CallersAndPids
INVARIANTS
    TypeOK
    Accounted
    Capacity
    InstancesBounded
    ResetIndexInRange
    StuckOnlyByFault
CHECK_DEADLOCK FALSE

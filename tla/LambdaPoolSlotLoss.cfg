SPECIFICATION Spec
CONSTANTS
    Callers = {c1, c2, c3}
    RPCCallers = {}
    Procs = {p1, p2}
    NoPid = NoPid
    MaxConcurrency = 2
    SigCapacity = 2
    MaxTerms = 0
    StartMayFail = FALSE
SYMMETRY CallersAndPids
INVARIANTS
    LaunchableBelowMax
CHECK_DEADLOCK FALSE

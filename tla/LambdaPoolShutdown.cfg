SPECIFICATION FairSpec
CONSTANTS
    Callers = {c1, c2}
    RPCCallers = {c1}
    Procs = {p1, p2}
    NoPid = NoPid
    MaxConcurrency = 2
    SigCapacity = 1
    MaxTerms = 1
    StartMayFail = TRUE
INVARIANTS
    ExitsNoticed
PROPERTIES
    ZombiesReaped
    ShutdownCompletes
CHECK_DEADLOCK FALSE

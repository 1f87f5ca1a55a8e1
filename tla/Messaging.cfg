SPECIFICATION FairSpec
CONSTANTS
    Dispatchers = {d1, d2, d3}
    Senders = {a1, a2}
    NoWorker = NoWorker
    ConnectionAttempts = 2
    MaxFaults = 2
INVARIANTS
    TypeOK
    OneDispatcher
    OneReconnects
    SleepersAwaited
PROPERTIES
    SessionRecovers
    ReopenEnds
    ImplementsDestination
CHECK_DEADLOCK FALSE

SPECIFICATION Spec
CONSTANTS
    Requests = {i1, i2}
    None = None
    Cids = {i1, i2}
    Cid <- OwnCid
    Servers = {s1}
    NoServer = NoServer
    Capacity = 1
    MaxFaults = 1
PROPERTIES
    RepliesReachConsumer
CHECK_DEADLOCK FALSE

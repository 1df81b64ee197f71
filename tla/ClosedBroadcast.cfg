\* A connection that closes while it is registered.
SPECIFICATION Spec
CONSTANTS
    c1 = c1
    c2 = c2
    p = p
    q = q
    Clients = {c1}
    Names = {p}
    Served = {p}
    Readers <- NoReaders
    Closers = {c1}
    Refused = {}
    MaxWrites = 2
    MaxOps = 3
    None = None
    Error = Error
PROPERTIES
    BroadcastsReachConnected
CHECK_DEADLOCK FALSE

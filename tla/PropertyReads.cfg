\* Reads, a connection that closes and a refused write, with fair event loops.
SPECIFICATION FairSpec
CONSTANTS
    c1 = c1
    c2 = c2
    p = p
    q = q
    Clients = {c1}
    Names = {p, q}
    Served = {p}
    Readers <- MCReaders
    Closers = {c1}
    Refused <- SecondRefused
    MaxWrites = 2
    MaxOps = 3
    None = None
    Error = Error
INVARIANTS
    ReadsAreFresh
PROPERTIES
    ReadsReturn
    SubscribersCatchUp
CHECK_DEADLOCK FALSE

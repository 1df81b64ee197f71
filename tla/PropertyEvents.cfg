\* Two clients of one property, writing and subscribing: no reads.
SPECIFICATION Spec
CONSTANTS
    c1 = c1
    c2 = c2
    p = p
    q = q
    Clients = {c1, c2}
    Names = {p}
    Served = {p}
    Readers <- NoReaders
    Closers = {}
    Refused = {}
    MaxWrites = 2
    MaxOps = 3
    None = None
    Error = Error
SYMMETRY ClientSymmetry
INVARIANTS
    TypeOK
    WatchAgreement
    EventsConverge
    GetReturnsServerValue
CHECK_DEADLOCK FALSE

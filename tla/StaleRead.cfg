\* A read that is answered while a later event is on its way.
SPECIFICATION Spec
CONSTANTS
    c1 = c1
    c2 = c2
    p = p
    q = q
    Clients = {c1}
    Names = {p}
    Served = {p}
    Readers <- MCReaders
    Closers = {}
    Refused = {}
    MaxWrites = 2
    MaxOps = 3
    None = None
    Error = Error
INVARIANTS
    GetReturnsServerValue
CHECK_DEADLOCK FALSE

\* Three calls of a coroutine function by two clients, one of which is interrupted.
SPECIFICATION Spec
CONSTANTS
    c1 = c1
    c2 = c2
    Clients = {c1, c2}
    Losers = {}
    Interrupters = {c1}
    Kinds = {"coroutine"}
    MaxCalls = 3
    Modulus = 4
    Starts = {2}
    None = None
INVARIANTS
    TypeOK
PROPERTIES
    KeepsPromise
    AbortIsExact
CHECK_DEADLOCK FALSE

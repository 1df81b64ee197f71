\* Every kind of call, a connection that breaks, fair event loops.
SPECIFICATION FairSpec
CONSTANTS
    c1 = c1
    c2 = c2
    Clients = {c1, c2}
    Losers = {c1}
    Interrupters = {c1, c2}
    Kinds = {"coroutine", "plain", "oneway"}
    MaxCalls = 2
    Modulus = 3
    Starts = {1}
    None = None
PROPERTIES
    KeepsPromise
    AnswersArrive
    InterruptsStop
CHECK_DEADLOCK FALSE

\* A client of any byte order and header version, writing under backpressure.
SPECIFICATION FairSpec
CONSTANTS
    write = write
    call = call
    tell = tell
    forget = forget
    Characters <- MCCharacters
    Wide <- MCWide
    Digits <- MCDigits
    Elements = {"e1", "e2"}
    Senders = {write, call, tell, forget}
    EndOf <- MCEndOf
    Contents <- MCContents
    Versions = {2, 6}
    Machines <- MCMachines
    Marks <- SmallMarks
    LowWater = 2
    Serial <- ClientOnly
    Hasty = {}
    Watched <- X
    Commands <- MCCommands
    None = None
INVARIANTS
    TypeOK
    ClientsOrder
    ViewConverges
    DeafByValue
PROPERTIES
    Delivers
    Arrives
CHECK_DEADLOCK FALSE

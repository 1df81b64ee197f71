\* Sends of one end that overlap: each waits for the buffer between its header
\* and its data.
SPECIFICATION Spec
CONSTANTS
    write = write
    call = call
    tell = tell
    forget = forget
    Characters <- MCCharacters
    Wide <- MCWide
    Digits <- MCDigits
    Elements = {"e1", "e2"}
    Senders = {write, call, tell, forget}
    EndOf <- MCEndOf
    Contents <- PlainContents
    Versions = {}
    Machines <- MCMachines
    Marks <- TinyMarks
    LowWater = 2
    Serial <- NoEnds
    Hasty = {}
    Watched <- X
    Commands <- MCCommands
    None = None
INVARIANT NobodyDeaf
CHECK_DEADLOCK FALSE

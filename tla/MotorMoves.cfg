\* A move, a started move, a synchronized context and a wait on two motors.
SPECIFICATION FairSpec
CONSTANTS
    m1 = m1
    m2 = m2
    move = move
    start = start
    started = started
    sync = sync
    other = other
    wait = wait
    Motors = {m1, m2}
    Moves = {move, started}
    Starts = {start}
    Syncs = {sync, other}
    Waits = {wait}
    MotorOf <- MCMotorOf
    Child <- MCChild
    Timed = {sync}
    Faulty = {sync}
    Overlaps = FALSE
    MaxCalls = 2
    None = None
INVARIANTS
    TypeOK
    MovesComplete
    NoHalfStart
    StartTogether
    NoLeak
    GroupWaitsEnd
PROPERTIES
    MotionsEnd
CHECK_DEADLOCK FALSE

\* A wait for a motor to stand, after a synchronized context that timed out.
SPECIFICATION Spec
CONSTANTS
    m1 = m1
    m2 = m2
    move = move
    start = start
    started = started
    sync = sync
    other = other
    wait = wait
    Motors = {m1, m2}
    Moves = {}
    Starts = {}
    Syncs = {sync}
    Waits = {wait}
    MotorOf <- MCMotorOf
    Child <- MCChild
    Timed = {sync}
    Faulty = {sync}
    Overlaps = FALSE
    MaxCalls = 2
    None = None
INVARIANT WaitsEnd
CHECK_DEADLOCK FALSE

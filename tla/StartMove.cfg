\* A started move of a motor that is not in a group.
SPECIFICATION Spec
CONSTANTS
    m1 = m1
    m2 = m2
    move = move
    start = start
    started = started
    sync = sync
    other = other
    wait = wait
    Motors = {m1, m2}
    Moves = {started}
    Starts = {start}
    Syncs = {}
    Waits = {}
    MotorOf <- MCMotorOf
    Child <- MCChild
    Timed = {}
    Faulty = {}
    Overlaps = TRUE
    MaxCalls = 2
    None = None
INVARIANT StartedMovesComplete
CHECK_DEADLOCK FALSE

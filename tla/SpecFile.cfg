\* A data file with three scans, read while it is written.
SPECIFICATION Spec
CONSTANTS
    Plan <- MCPlan
    Stops <- MCStops
    MaxUpdates = 2
    None = None
INVARIANTS
    TypeOK
    ScansRead
    SpectraRead
    ParsedIsCurrent
    EveryWordKept
PROPERTY IndexStable
CHECK_DEADLOCK FALSE

SPECIFICATION MCSpec
CONSTANTS
    Callers = {c1, c2, c3}
    NoCaller = NoCaller
    MaxCalls = 6
    Fixed = 2
    Stages = 3
    MaxRetries = 2
    MaxGen = 4
    MaxPasses = 3
    MaxSession = 1
    FlNotes = 60
    FlCounts = {0, 1, 30, 60}
    FlSidecar = TRUE
    FlMoves = 2
INVARIANTS
    MutualExclusion
    SuccessOnce
    ExhaustedOnce
    QuietWhenDisposed
    SingleFlight
    DueIsHeld
    FlSurfacesAgree
    FlDropHidden
PROPERTIES
    ImplementsFifoLock
    RetriesEnd
    
    PassEnds
CHECK_DEADLOCK FALSE

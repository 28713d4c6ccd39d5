SPECIFICATION FlSpec
CONSTANTS
    FlNotes = 60
    FlCounts = {0, 30, 60}
    FlSidecar = TRUE
    FlMoves = 2
INVARIANT FlNoReadyOverEmpty
CHECK_DEADLOCK FALSE

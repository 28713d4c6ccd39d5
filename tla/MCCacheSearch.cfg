SPECIFICATION Spec
CONSTANTS
    Files = {a}
    Versions = {v1, v2}
    First = v1
    MaxGen = 1
    Actors = {"query", "restart", "carry", "light", "throw"}
INVARIANT FrameFresh
CHECK_DEADLOCK FALSE

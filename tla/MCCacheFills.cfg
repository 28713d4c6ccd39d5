SPECIFICATION Spec
CONSTANTS
    Files = {a}
    Versions = {v1, v2}
    First = v1
    MaxGen = 1
    Actors = {"full", "hydrate", "throw"}
INVARIANT FrameFresh
CHECK_DEADLOCK FALSE

SPECIFICATION Spec
CONSTANTS
    Files = {a, b}
    Versions = {v1, v2}
    First = v1
    MaxGen = 1
    Actors = {"throw"}
INVARIANT FreshAfterThrow
CHECK_DEADLOCK FALSE

SPECIFICATION MCSpec
CONSTANTS
    Files = {a, b}
    Versions = {v1, v2}
    First = v1
    MaxGen = 1
    Actors = {"carry", "full"}
    SearchSlots = 2
    MdFlips = 1
    MdBothers = {"index", "vault", "keys", "close", "switch", "exact", "broken", "filters"}
INVARIANTS FreshInv MdInFlight MdSettled
PROPERTIES WarmEnds MdRests
CHECK_DEADLOCK FALSE

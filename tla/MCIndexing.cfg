SPECIFICATION Spec
CONSTANTS
  PFiles = 3
  ChunksPer = 2
  RollingBatch = 3
  InflightMax = 1
  EmbedSlots = 2
  AheadCap = 2
  QuarantineCap = 1
  PipeFaults = {"embed", "commit", "unload", "skip"}
  RsIds = {x, y}
  RsNone = None
  RsSteps = 3
  RsDirtMax = 2
  RsCompactAt = 1
INVARIANTS PipeSlots PipeAccounted RsJoined RsNoResidue
PROPERTY PipeEnds
CHECK_DEADLOCK FALSE

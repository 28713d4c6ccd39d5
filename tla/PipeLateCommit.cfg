SPECIFICATION PipeSpec
CONSTANTS
  PFiles = 3
  ChunksPer = 2
  RollingBatch = 2
  InflightMax = 1
  EmbedSlots = 2
  AheadCap = 2
  QuarantineCap = 0
  PipeFaults = {"embed", "commit", "unload", "skip"}
PROPERTY PipeQuiet
CHECK_DEADLOCK FALSE

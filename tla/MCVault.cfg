SPECIFICATION Spec
CONSTANTS
  NoteA = NoteA
  NoteB = NoteB
  ScIds <- Notes
  ShardCap = 2
  SmallShard = 2
  MinSmall = 2
  MinBytes = 1
  MaxSeq = 3
  ScFaults = {"crash", "file"}
  HyNotes <- Notes
  HyPeers = {p}
  HyVersions = 2
  HyRole = "auto"
  HyMobile = FALSE
  HyMoves = 4
  SdNotes <- Notes
  NoSdNote = none
  SdChanges = 2
  SdSessions = 1
  SdDevices <- Devices
  SdBurst = 1
  SdBulk = 1
SYMMETRY Symmetry
INVARIANTS ScNeverMisread  SdTimerArmed
PROPERTIES  HyRecordsWhole HyRebuildRestores
CHECK_DEADLOCK FALSE

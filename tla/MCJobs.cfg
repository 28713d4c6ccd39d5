SPECIFICATION Spec
CONSTANTS
  Slots = {j1, j2, j3}
  NoSlot = NoSlot
  JbEvents = 2
  JbSidecar = TRUE
  StSlots = 3
  StCloses = 2
  StEvents = 1
SYMMETRY SlotSymmetry
INVARIANTS JbDropLatch JbHydrating JbNoWaitCycle StNoLeak
PROPERTY StEnsureHolds
CHECK_DEADLOCK FALSE

SPECIFICATION RsSpec
CONSTANTS
  RsIds = {x, y}
  RsNone = None
  RsSteps = 3
  RsDirtMax = 2
  RsCompactAt = 1
INVARIANT RsRightText
CHECK_DEADLOCK FALSE

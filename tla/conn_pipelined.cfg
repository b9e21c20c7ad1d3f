SPECIFICATION Spec
CONSTANTS
  w1 = w1
  w2 = w2
  Writers = {w1}
  QueueCap = 1
  FrameLen = 1
  MaxFrameSize = 1
  OnServer = FALSE
  HasIdle = FALSE
  Stops = {}
  Faults = {}
  MaxOps = 0
  MaxUnits = 2
  MaxStaged = 0
  MaxOutbox = 0
INVARIANT TooLargeOnlyWithoutFrame
CHECK_DEADLOCK FALSE

SPECIFICATION Spec
CONSTANTS
  w1 = w1
  w2 = w2
  Writers = {w1, w2}
  QueueCap = 1
  FrameLen = 1
  MaxFrameSize = 1
  OnServer = FALSE
  HasIdle = FALSE
  Stops = {"outbound"}
  Faults = {"outbound", "write"}
  MaxOps = 2
  MaxUnits = 0
  MaxStaged = 0
  MaxOutbox = 0
SYMMETRY Symmetry
INVARIANT AnswersAreTruthful
INVARIANT ChannelOrder
CHECK_DEADLOCK FALSE

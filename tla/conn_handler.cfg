SPECIFICATION Spec
CONSTANTS
  w1 = w1
  w2 = w2
  Writers = {w1}
  QueueCap = 1
  FrameLen = 1
  MaxFrameSize = 2
  OnServer = FALSE
  HasIdle = FALSE
  Stops = {"outbound"}
  Faults = {"outbound", "write"}
  MaxOps = 1
  MaxUnits = 2
  MaxStaged = 2
  MaxOutbox = 2
INVARIANT AnswersAreTruthful
INVARIANT NothingHeldBack
INVARIANT HandlersAreAtomic
CHECK_DEADLOCK FALSE
PROPERTY ImplementsOutboundStream

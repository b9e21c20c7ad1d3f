SPECIFICATION FairSpec
CONSTANTS
  w1 = w1
  w2 = w2
  Writers = {w1}
  QueueCap = 1
  FrameLen = 1
  MaxFrameSize = 1
  OnServer = TRUE
  HasIdle = FALSE
  Stops = {}
  Faults = {"write"}
  MaxOps = 2
  MaxUnits = 1
  MaxStaged = 1
  MaxOutbox = 1
PROPERTY AnswerComes
PROPERTY SendCompletes
PROPERTY ShutdownEnds
PROPERTY PeerCloseEnds
CHECK_DEADLOCK FALSE

SPECIFICATION FairSpec
CONSTANTS
  p1 = p1
  p2 = p2
  w1 = w1
  w2 = w2
  Peers = {p1}
  Writers = {w1}
  OnServer = TRUE
  QueueSize = 0
  DefaultSize = 2
  Capacities = {1, 4}
  MaxSizes = {3}
  Sizes = {3}
  Faults = {"started", "stopped", "recv", "decode", "stages", "outbound", "send", "handler", "panic"}
  MaxOps = 2
  MaxDatagrams = 2
  MaxStaged = 1
  MaxOutbox = 1
INVARIANT TypeOK
INVARIANT WholeDatagrams
INVARIANT LifePaired
PROPERTY ShutdownEnds
PROPERTY AnswerComes
CHECK_DEADLOCK FALSE

SPECIFICATION Spec
CONSTANTS
  p1 = p1
  p2 = p2
  w1 = w1
  w2 = w2
  Peers = {p1, p2}
  Writers = {w1}
  OnServer = TRUE
  QueueSize = 0
  DefaultSize = 4
  Capacities = {2}
  MaxSizes = {2}
  Sizes = {3}
  Faults = {"started", "stopped", "recv", "decode", "stages", "outbound", "send", "handler", "panic"}
  MaxOps = 1
  MaxDatagrams = 1
  MaxStaged = 2
  MaxOutbox = 2
INVARIANT OversizedRejected
CHECK_DEADLOCK FALSE

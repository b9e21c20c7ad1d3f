SPECIFICATION Spec
CONSTANTS
  p1 = p1
  p2 = p2
  w1 = w1
  w2 = w2
  Peers = {p1, p2}
  Writers = {w1, w2}
  OnServer = FALSE
  QueueSize = 2
  DefaultSize = 2
  Capacities = {}
  MaxSizes = {}
  Sizes = {2}
  Faults = {"outbound", "send"}
  MaxOps = 1
  MaxDatagrams = 2
  MaxStaged = 2
  MaxOutbox = 2
SYMMETRY Symmetry
INVARIANT OneDatagramPerMessage
INVARIANT AnswersAreTruthful
INVARIANT NothingHeldBack
INVARIANT SendOrder
CHECK_DEADLOCK FALSE

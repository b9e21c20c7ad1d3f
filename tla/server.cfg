SPECIFICATION FairSpec
CONSTANTS
  c1 = c1
  c2 = c2
  h1 = h1
  h2 = h2
  Server = Server
  Conns = {c1, c2}
  Handles = {h1, h2}
  Faults = {"started", "accept", "setup", "factory", "opened", "panic"}
INVARIANT TypeOK
INVARIANT StoppedAfterJoined
INVARIANT LateIsIdle
PROPERTY ServerEnds
PROPERTY OthersAreAccepted
CHECK_DEADLOCK FALSE

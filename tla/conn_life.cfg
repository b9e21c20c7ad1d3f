SPECIFICATION Spec
CONSTANTS
  w1 = w1
  w2 = w2
  Writers = {w1}
  QueueCap = 1
  FrameLen = 2
  MaxFrameSize = 4
  OnServer = TRUE
  HasIdle = TRUE
  Stops = {"inbound", "outbound"}
  Faults = {"opened", "closed", "read", "decode", "stages", "outbound", "write", "handler", "panic"}
  MaxOps = 1
  MaxUnits = 5
  MaxStaged = 1
  MaxOutbox = 2
INVARIANT TypeOK
INVARIANT NoFrameLeftBehind
INVARIANT LifePaired
INVARIANT ShutdownIsPrompt
INVARIANT StatsAgree
CHECK_DEADLOCK FALSE

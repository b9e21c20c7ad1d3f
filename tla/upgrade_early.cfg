SPECIFICATION Spec
CONSTANTS
  Codecs = {"HttpWs", "WebSocket"}
  Handlers = {"router", "deferring"}
  MaxMessages = 2
  MaxPushes = 0
INVARIANT FramesAfterUpgrade
CHECK_DEADLOCK FALSE

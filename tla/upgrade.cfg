SPECIFICATION Spec
CONSTANTS
  Codecs = {"HttpWs", "WebSocket"}
  Handlers = {"router", "deferring"}
  MaxMessages = 5
  MaxPushes = 2
INVARIANT WireWellFormed
INVARIANT RightReader
INVARIANT AnswersMatch
CHECK_DEADLOCK FALSE

SPECIFICATION Spec
CONSTANTS
  Base = 2
  RawStreams <- AllRaw
  Dialogues <- AllTalk
INVARIANT CutIndependent
INVARIANT RoundTrip
INVARIANT Forwardable
INVARIANT BufferIsBounded
PROPERTY LimitRespected
CHECK_DEADLOCK FALSE

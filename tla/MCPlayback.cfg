SPECIFICATION Spec
CONSTANTS
  MaxQueue = 2
  MaxSequence = 3
  MaxPackets = 4
INVARIANTS
  IInv
  PipelineBounded
  AbortStopsPlayback
  SpeakingHasOutput
PROPERTIES
  NeverBackwards
  QueueDrains
  PathSpec

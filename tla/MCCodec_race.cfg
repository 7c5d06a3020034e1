SPECIFICATION Spec
CONSTANTS
  ArraySize = 3
  OutBuffer = 1
  Width = 1
  Search = 3
  CodecRate = 16
  Formats <- MCFormats
  CodecFormat <- Ours
  ServerFormat <- Default
  Gone = Gone
  FrameSize = 3
  SizeLimit = 16
  MaxUnanswered = 1
PROPERTY DecoderInUseStays
CHECK_DEADLOCK FALSE

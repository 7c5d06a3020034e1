SPECIFICATION Spec
CONSTANTS
  MaxFrames = 4
  MaxSwitches = 4
INVARIANTS
  IInv
  StopQuiesces
PROPERTIES
  PathSpec
  FramesMoveOn
\* The frames and the main thread's moves are bounded: a behaviour may end.
CHECK_DEADLOCK FALSE

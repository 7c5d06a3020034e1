SPECIFICATION Spec
CONSTANTS
  MaxPackets = 3
  MaxSends = 1
INVARIANTS
  IInv
  ConnectedMeansReading
  DeleteNeverReturns
PROPERTIES
  PathSpec
\* The client's life ends with its deletion.
CHECK_DEADLOCK FALSE

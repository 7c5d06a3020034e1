SPECIFICATION Spec
CONSTANTS
  MaxPackets = 3
  MaxSends = 1
PROPERTIES
  DisconnectReturns
\* The client's life ends with its deletion.
CHECK_DEADLOCK FALSE

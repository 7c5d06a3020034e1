SPECIFICATION Spec
CONSTANTS
  MaxValue = 2
  MaxExits = 2
INVARIANT NewBrokerIsStored
\* The program may stay where it is.
CHECK_DEADLOCK FALSE

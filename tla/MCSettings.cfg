SPECIFICATION Spec
CONSTANTS
  MaxValue = 2
  MaxExits = 2
INVARIANTS
  IInv
  NothingUnsaved
PROPERTIES
  IdentityKept
\* The program may stay where it is.
CHECK_DEADLOCK FALSE

CONSTANTS
  NumItems = 5
  Capacity = 2
  EarlyAnswer = FALSE
SPECIFICATION Spec
INVARIANTS
  TypeOK
  Completeness
PROPERTIES
  Termination
CHECK_DEADLOCK FALSE

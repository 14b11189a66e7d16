CONSTANTS
  NumItems = 5
  Capacity = 2
  EarlyAnswer = TRUE
SPECIFICATION Spec
INVARIANTS
  Completeness
CHECK_DEADLOCK FALSE

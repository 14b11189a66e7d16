CONSTANTS
  CallOps <- MCCallOps
  MaxCalls = 2
  MaxCrashes = 1
  MalformedReplies = TRUE
SPECIFICATION Spec
INVARIANTS
  TypeOK
  AtMostOnce
PROPERTIES
  CallEnds
  RCSpec
CHECK_DEADLOCK FALSE

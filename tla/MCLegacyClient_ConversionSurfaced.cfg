CONSTANTS
  CallOps <- MCCallOps
  MaxCalls = 2
  MaxCrashes = 1
  MalformedReplies = TRUE
SPECIFICATION Spec
INVARIANTS
  ConversionSurfaced
CHECK_DEADLOCK FALSE

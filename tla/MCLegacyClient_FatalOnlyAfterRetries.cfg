CONSTANTS
  CallOps <- MCCallOps
  MaxCalls = 2
  MaxCrashes = 1
  MalformedReplies = FALSE
SPECIFICATION Spec
INVARIANTS
  FatalOnlyAfterRetries
CHECK_DEADLOCK FALSE

CONSTANTS
  Ids = {1, 2, 3, 4, 5}
  Types = {"a", "b"}
  VType <- MCVType
  TFilter = "a"
  NoFilter = NoFilter
  NumWorkers = 1
  QueryLimit = 2
  MaxChanges = 2
  MaxPages = 5
SPECIFICATION Spec
INVARIANTS
  TypeOK
  NoDuplicateMapping
  CompleteOnSuccess
  ErrorReported
PROPERTIES
  Termination
CHECK_DEADLOCK FALSE

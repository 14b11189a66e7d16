CONSTANTS
  Ids = {1, 2, 3}
  Types = {"a", "b"}
  VType <- MCVType
  TFilter = "a"
  NoFilter = NoFilter
  NumWorkers = 0
  QueryLimit = 0
  MaxChanges = 1
  MaxPages = 5
SPECIFICATION Spec
PROPERTIES
  Termination
CHECK_DEADLOCK FALSE

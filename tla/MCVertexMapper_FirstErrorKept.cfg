CONSTANTS
  Ids = {1, 2, 3, 4, 5}
  Types = {"a", "b"}
  VType <- MCVType
  TFilter = "a"
  NoFilter = NoFilter
  NumWorkers = 1
  QueryLimit = 2
  MaxChanges = 2
  MaxPages = 5
SPECIFICATION Spec
PROPERTIES
  FirstErrorKept
CHECK_DEADLOCK FALSE

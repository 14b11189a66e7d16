CONSTANTS
  t1 = t1
  t2 = t2
  Tasks <- MCTasks
  CallOps <- MCCallOps
  MaxCalls = 2
  StreamLen = 2
SPECIFICATION Spec
INVARIANTS
  TypeOK
  GetFaithful
  ConversionSurfaced
PROPERTIES
  CallReturns
  RCSpecAll
CHECK_DEADLOCK FALSE

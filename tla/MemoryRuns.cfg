SPECIFICATION Spec
CONSTANTS
  t1 = t1
  t2 = t2
  Task <- TwoTasks
  Outputs <- SomeOutputs
  Tokens <- OneOrTwo
  Dims <- OneOrTwo
  Foreign <- SomeForeign
  MaxNodes = 2
  MaxSends = 3
  MaxRestarts = 1
INVARIANTS
  AckedKept
  PanicsAccounted
PROPERTIES
  RowsChangeWhole
SYMMETRY Tasks
CHECK_DEADLOCK FALSE

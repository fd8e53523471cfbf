SPECIFICATION Spec
CONSTANTS
  c1 = c1
  c2 = c2
  Caller <- TwoCallers
  MaxRuns = 2
  MaxChanges = 2
INVARIANTS
  TimeoutKills
CHECK_DEADLOCK FALSE

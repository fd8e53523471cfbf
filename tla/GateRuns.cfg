SPECIFICATION GateSpec
CONSTANTS
  c1 = c1
  c2 = c2
  Caller <- TwoCallers
  MaxRuns = 2
  MaxChanges = 2
  MaxStages = 4
  MaxEvaluations = 2
INVARIANTS
  UnisolatedIsAnnounced
  StartedOnce
  SpawnDeniedOnce
  NoLeftover
  DecidedByFirst
  HintsOfThisReview
  AccumulateIfCarried
PROPERTIES
  ExecutionsEnd
CHECK_DEADLOCK FALSE

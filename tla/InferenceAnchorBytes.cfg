SPECIFICATION Spec
CONSTANTS
  None = None
  PromptLengths <- OneOrTwo
  Widths <- TwoTokens
  ObservationLengths <- OneOrTwo
  Hints <- NoHints
  CleanupEnds <- WholeContext
  ContextSize = 7
  MaxTokens = 4
  MaxRollbackRetries = 2
  PreventionEnabled = TRUE
  MaxHistory = 2
  Manager = "unbounded"
  InitialPosition = 0
  MaxRuns = 1
  MaxExecutions = 3
INVARIANTS
  AnchorIsTag
CHECK_DEADLOCK FALSE

SPECIFICATION Spec
CONSTANTS
  None = None
  PromptLengths <- TwoTokens
  Widths <- OneToken
  ObservationLengths <- OneOrTwo
  Hints <- SomeHints
  CleanupEnds <- WholeContext
  ContextSize = 8
  MaxTokens = 3
  MaxRollbackRetries = 2
  PreventionEnabled = TRUE
  MaxHistory = 1
  Manager = "llama"
  InitialPosition = 9
  MaxRuns = 2
  MaxExecutions = 3
INVARIANTS
  TypeOK
  PromptCached
  NoStaleCells
  CacheCovers
  RetriesExact
  ErasedAccounted
  CancelBounds
PROPERTIES
  ImplementsTimeTravel
CHECK_DEADLOCK FALSE

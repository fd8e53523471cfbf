SPECIFICATION FairSpec
CONSTANTS
  a1 = a1
  Agents <- SomeAgents
  Everyone = Everyone
  None = None
  InboxCapacity = 2
  SignalCapacity = 2
  OutboxCapacity = 1
  WorkUnits = 3
  MaxEnvelopes = 2
  Replies <- AnyReply
  InboxKinds <- AnyKind
  SignalKinds <- AnyKind
  MayDropHandles = TRUE
  MayDropOutbox = FALSE
PROPERTIES
  TaskSurvivesClose
CHECK_DEADLOCK FALSE

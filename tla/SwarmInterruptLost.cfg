SPECIFICATION BusySpec
CONSTANTS
  worker = worker
  reviewer = reviewer
  Agents <- TwoAgents
  Everyone = Everyone
  None = None
  InboxCapacity = 1
  SignalCapacity = 1
  OutboxCapacity = 1
  WorkUnits = 1
  MaxEnvelopes = 7
  Replies <- Alarm
  MayDropEngine = FALSE
PROPERTIES
  InterruptReaches
CHECK_DEADLOCK FALSE

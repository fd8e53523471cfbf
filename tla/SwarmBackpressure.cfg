SPECIFICATION BusySpec
CONSTANTS
  worker = worker
  reviewer = reviewer
  Agents <- TwoAgents
  Everyone = Everyone
  None = None
  InboxCapacity = 1
  SignalCapacity = 1
  OutboxCapacity = 1
  WorkUnits = 1
  MaxEnvelopes = 7
  Replies <- Alarms
  MayDropEngine = FALSE
PROPERTIES
  InterruptReachesOrWedged
CHECK_DEADLOCK FALSE

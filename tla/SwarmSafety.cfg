SPECIFICATION Spec
CONSTANTS
  worker = worker
  reviewer = reviewer
  Agents <- TwoAgents
  Everyone = Everyone
  None = None
  InboxCapacity = 2
  SignalCapacity = 1
  OutboxCapacity = 1
  WorkUnits = 2
  MaxEnvelopes = 4
  Replies <- EverySignal
  MayDropEngine = TRUE
INVARIANTS
  BusOrder
  HaltBeforeDrop
PROPERTIES
  RegistryKept
CHECK_DEADLOCK FALSE

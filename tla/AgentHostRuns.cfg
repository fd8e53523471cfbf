SPECIFICATION FairSpec
CONSTANTS
  a1 = a1
  Agents <- SomeAgents
  Everyone = Everyone
  None = None
  InboxCapacity = 2
  SignalCapacity = 2
  OutboxCapacity = 1
  WorkUnits = 2
  MaxEnvelopes = 4
  Replies <- AnyReply
  InboxKinds <- AnyKind
  SignalKinds <- AnyKind
  MayDropHandles = TRUE
  MayDropOutbox = TRUE
INVARIANTS
  TypeOK
  NoWorkAfterShutdown
  CancelAfterStart
PROPERTIES
  ImplementsContract
  SignalsActedOn
  HaltEnds
CHECK_DEADLOCK FALSE

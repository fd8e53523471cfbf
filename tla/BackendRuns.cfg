SPECIFICATION BackendSpec
CONSTANTS
  e1 = e1
  e2 = e2
  Engine <- TwoEngines
  MaxCalls = 2
  Nobody = Nobody
  s1 = s1
  s2 = s2
  s3 = s3
  Slot <- ThreeSlots
  MaxLoads = 5
INVARIANTS
  ContextOutlivesUse
  OneInsidePerEngine
  LogitsMixed
  CountCovers
  UpWhileUsed
PROPERTIES
  LastFrees
SYMMETRY Engines
CHECK_DEADLOCK FALSE

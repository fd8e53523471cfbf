SPECIFICATION DmceSpec
CONSTANTS
  Word = 8
  Dim = 2
  Nodes <- SomeNodes
  Queries <- SomeQueries
  Engines <- SomeEngines
  MaxStored = 3
INVARIANTS
  ChainSound
  DiagnosticsAgree
  StartsAtMostSimilar
  SearchAgrees

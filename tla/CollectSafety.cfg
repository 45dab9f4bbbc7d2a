SPECIFICATION CollectSideSpec
CONSTANTS
  GroupSize = 2
  Target = 2
  OverSampling = 2
  Concurrency = 3
  PartialRollout = TRUE
  NumRollout = 2
  MaxGroups = 8
  MaxFiltered = 2
  MaxErrors = 1
  MaxEscapes = 1
  Options <- MCOptions
  NodeCount = 3
  NodeSize = 4
  Foreign <- MCForeign
  FirstPort = 0
  Reserve = 2
  MaxDeaths = 2
  m1 = m1 m2 = m2
  Members = {m1, m2}
  MaxResponseLen = 2
  MaxRollouts = 3
  Setups <- MCSetups
  Returns <- MCReturns
  TurnRoom = 8
INVARIANTS
  PlacementExact
  CollectInv
  NeverWaitsForNothing
  TrainedOnce
  OneWriter
  BatchWhole
  SamplesExact
PROPERTIES
  AbortEnds

SPECIFICATION Spec
CONSTANTS
  h1 = h1 h2 = h2 h3 = h3 h4 = h4 h5 = h5 h6 = h6
  Handle = {h1, h2, h3, h4, h5, h6}
  None = None
  NumEngines = 2
  NodesPerEngine = 1
  FaultTolerance = TRUE
  OffloadRollout = FALSE
  NumRollout = 2
  MaxFaults = 2
  MaxRestarts = 0
INVARIANTS
  RecoverCountsMatch

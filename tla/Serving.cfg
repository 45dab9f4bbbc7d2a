SPECIFICATION ServingSpec
CONSTANTS
  h1 = h1 h2 = h2 h3 = h3 h4 = h4 h5 = h5 h6 = h6
  Handle = {h1, h2, h3, h4, h5, h6}
  None = None
  NumEngines = 1
  NodesPerEngine = 2
  FaultTolerance = TRUE
  OffloadRollout = FALSE
  NumRollout = 2
  MaxFaults = 2
  MaxRestarts = 1
  Workers = {w1, w2}
  Clients = {c1, c2}
  Prompts <- MCPrompts
  Answers <- MCAnswers
  Merges <- MCMerges
  Tries = 2
  FailureThreshold = 1
  MaxCrashes = 1
  N = 3
  Perm <- MCPerm
  Configurations <- MCConfigurations
  GroupSize = 2
  Target = 1
  SaveInterval = 1
  NumRollouts = 3
  MaxEpoch = 12
  MaxDropped = 1
  MaxJobCrashes = 1
  MaxManagerRestarts = 1
INVARIANTS
  DrawsExact
  UpdateInv
  FinishedSpelled
  LoadTrue
PROPERTIES
  OnPolicyJob
  JobFinishes

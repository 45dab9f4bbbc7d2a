SPECIFICATION Spec
CONSTANTS
  Tasks = {t1, t2}
  Leftovers = {old}
  GateLimit = 2
  MaxSandboxes = 1
  MaxSteps = 2
  ParseLimit = 2
  MaxCuts = 2
  NumGroups = 2
  NumAttempts = 3
  Rollouts <- MCRollouts
  Options <- MCOptions
  Dp = 2
  None <- MCNone
  Lengths = {1, 2, 4}
  MaxSamples = 4
  Caps = {3, 5}
INVARIANTS
  SandboxesAccounted
  ResultsAsPromised
  CreditWithinGroup
  MicroStepsExact
PROPERTIES
  EpisodesEnd
CHECK_DEADLOCK FALSE

SPECIFICATION Spec
CONSTANTS
  GroupSize = 2
  Target = 2
  OverSampling = 3
  Concurrency = 3
  PartialRollout = FALSE
  NumRollout = 1
  MaxGroups = 9
  MaxFiltered = 0
  MaxErrors = 0
  MaxEscapes = 0
INVARIANTS
  AbortFinishes

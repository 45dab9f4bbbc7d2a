SPECIFICATION Spec
CONSTANTS
  Configurations <- MCConfigurations
  NumRollout = 3
  NumSteps = 2
  MaxSkips = 2
  Samples <- MCSamples
  BatchSizes = {2}
  CpSizes = {1, 2, 3}
  PadSize = 3
  Block = 2
  Gammas = {0, 2}
  Lambdas = {0, 1}
  Stages = {1, 2}
  FirstStage = 1
  Engines = {e1, e2}
  Params <- MCParams
  BufferSize = 2
  Rounds = 2
  DpRanks = {1, 2}
  StepOptions <- MCStepOptions
  StepRows <- MCStepRows
  Passes <- MCPasses
  WorldSize = 4
  Kind <- MCKind
  Layouts <- MCLayouts
  Families <- MCFamilies
  ExportLimit = 4
  ExportRounds = 2
  Peer = {0, 1, 2, 3}
  GroupLayouts <- MCGroupLayouts
  MaxRollout = 2
INVARIANTS
  PushesWhole
  GradientIsMean
  ServesTrained
  TrainsTheActor
  LayoutExact
  GroupsMeet
  ConversionExact
PROPERTIES
  TrainingEnds
CHECK_DEADLOCK FALSE

SPECIFICATION TrainerSpec
CONSTANTS
  Configurations <- MCTwoEpochs
  NumRollout = 1
  NumSteps = 2
  MaxSkips = 0
INVARIANT EpochsContinue
CHECK_DEADLOCK FALSE

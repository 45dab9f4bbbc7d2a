SPECIFICATION RouterSpec
CONSTANTS
  Workers = {w1}
  Clients = {c1, c2}
  Prompts <- MCPrompts
  Answers <- MCAnswers
  Merges <- MCMerges
  Tries = 1
  FailureThreshold = 1
  MaxCrashes = 0
INVARIANTS
  TokensSpellText
CHECK_DEADLOCK FALSE

SPECIFICATION RemoteSpec
CONSTANTS
  t1 = t1 t2 = t2 t3 = t3 w1 = w1 w2 = w2
  Task = {t1, t2, t3}
  Worker = {w1, w2}
  None = None
  Home <- TwoWorkers
  NumPorts = 1
  MaxProcesses = 1
  MaxCancels = 1
  MaxFaults = 1
  CloudTask = {t1, t2}
  MaxSessions = 4
  MaxLives = 2
  MaxRefusals = 1
  MaxCuts = 1
  MaxPolls = 2
  GracePolls = 3
  SettlePolls = 3
  TimeoutPolls = 6
  MaxChallenges = 3
INVARIANTS
  LocalInv
  SessionsTraced
  Respected
PROPERTIES
  AllReturned

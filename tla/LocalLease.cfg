SPECIFICATION Spec
CONSTANTS
  t1 = t1 t2 = t2 t3 = t3 w1 = w1 w2 = w2
  Task = {t1, t2, t3}
  Worker = {w1, w2}
  None = None
  Home <- TwoWorkers
  NumPorts = 1
  MaxProcesses = 2
  MaxCancels = 0
  MaxFaults = 0
INVARIANTS
  LeaseExclusive

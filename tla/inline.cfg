CONSTANTS
  Tasks = {t1, t2}
  Callers = {c1, c2}
  MaxTries = 2
  MaxRuns = 3
  NoRun = NoRun
SPECIFICATION FairSpec
PROPERTY EnqueueReturns
CHECK_DEADLOCK FALSE

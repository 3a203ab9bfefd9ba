CONSTANTS
  Tasks = {t1, t2}
  Lanes = {l1}
  KeepResults = TRUE
  MaxStaged = 1
  NoLane = NoLane
  NoEntry = NoEntry
  NoSlot = NoSlot
  Workers = {w1, w2}
  Slots = {s1}
  Prefetch = 2
  MaxRetries = 0
  Lease = "in_flight"
  FaultKinds = {}
  MaxFaults = 1
SPECIFICATION Spec
CHECK_DEADLOCK FALSE
INVARIANT NoTwoExecutions

CONSTANTS
  Tasks = {t1, t2}
  Lanes = {l1, l2}
  KeepResults = TRUE
  MaxStaged = 1
  NoLane = NoLane
  NoEntry = NoEntry
  NoSlot = NoSlot
  Workers = {w1, w2}
  Slots = {s1}
  Prefetch = 1
  MaxRetries = 0
  Lease = "held"
  FaultKinds = {"crash", "redis"}
  MaxFaults = 1
SYMMETRY Symmetric
SPECIFICATION Spec
INVARIANT OneCopy
CHECK_DEADLOCK FALSE

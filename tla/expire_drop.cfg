CONSTANTS
  Tasks = {t1}
  Lanes = {l1}
  KeepResults = TRUE
  MaxStaged = 2
  NoLane = NoLane
  NoEntry = NoEntry
  NoSlot = NoSlot
  Workers = {w1, w2}
  Slots = {s1}
  Prefetch = 2
  MaxRetries = 0
  Lease = "held"
  FaultKinds = {"expire"}
  MaxFaults = 1
SPECIFICATION Spec
CHECK_DEADLOCK FALSE
INVARIANT NoSilentDrop

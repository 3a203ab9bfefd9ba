CONSTANTS
  Tasks = {t1}
  Lanes = {l1}
  KeepResults = TRUE
  MaxStaged = 2
  NoLane = NoLane
  NoEntry = NoEntry
  NoSlot = NoSlot
  Workers = {w1, w2}
  Slots = {s1}
  Prefetch = 2
  MaxRetries = 1
  Lease = "held"
  FaultKinds = {"crash", "stop", "redis", "lost_abort"}
  MaxFaults = 1
SPECIFICATION FairSpec
PROPERTIES EverythingSettles StopEnds QueueDrains
CHECK_DEADLOCK FALSE

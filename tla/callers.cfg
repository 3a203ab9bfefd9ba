CONSTANTS
  Tasks = {t1, t2}
  Lanes = {l1, l2}
  KeepResults = TRUE
  MaxStaged = 2
  NoLane = NoLane
  NoEntry = NoEntry
  NoSlot = NoSlot
  Workers = {w1}
  Slots = {s1}
  Prefetch = 1
  MaxRetries = 0
  Lease = "held"
  FaultKinds = {"expire_result", "purge"}
  MaxFaults = 1
  PurgeChunk = 1
  MaxAccepted = 2
SYMMETRY Symmetric
SPECIFICATION CallSpec
INVARIANTS CallTypeOK NoLostWakeup StatusWasTrue EachLetterOnce NothingToPurge
PROPERTY PurgeSparesNewWork
CHECK_DEADLOCK FALSE

CONSTANTS
  Tasks = {t1}
  Lanes = {l1}
  KeepResults = TRUE
  MaxStaged = 2
  NoLane = NoLane
  NoEntry = NoEntry
  NoSlot = NoSlot
  Workers = {w1, w2}
  Slots = {s1}
  Prefetch = 1
  MaxRetries = 0
  Lease = "none"
  FaultKinds = {"crash", "stop", "redis", "lost_abort", "purge", "expire", "expire_result", "expire_marker"}
  MaxFaults = 1
SYMMETRY Symmetric
SPECIFICATION Spec
INVARIANTS IInv DataHasEntry NotCompleteWhileQueued CancelsItsOwn
CHECK_DEADLOCK FALSE

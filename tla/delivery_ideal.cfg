CONSTANTS
  Tasks = {t1}
  Lanes = {l1, l2}
  KeepResults = TRUE
  MaxStaged = 2
  NoLane = NoLane
  NoEntry = NoEntry
  NoSlot = NoSlot
  Workers = {w1, w2}
  Slots = {s1, s2}
  Prefetch = 2
  MaxRetries = 1
  Lease = "held"
  FaultKinds = {"crash", "stop", "redis", "lost_abort", "purge", "expire_result"}
  MaxFaults = 2
SYMMETRY Symmetric
SPECIFICATION Spec
INVARIANTS HeldInv NoConcurrentRuns ResultIsLatest AbortRemembered NoResidue
PROPERTY JobsImplemented
CHECK_DEADLOCK FALSE

CONSTANTS
  Day = 4
  Workers = {w1, w2}
  Schedules <- AllSchedules
  Poll = 2
  Prompt = TRUE
  Start = 6
  Horizon = 13
  FaultKinds = {"redis", "crash", "retry", "drop", "slow"}
  MaxFaults = 1
  NoFire = NoFire
SYMMETRY Symmetric
SPECIFICATION Spec
INVARIANTS TypeOK NoneMissed OnePerWorker OnceADay RateKept
PROPERTY OncePerOccurrence
CHECK_DEADLOCK FALSE

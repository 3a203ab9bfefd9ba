CONSTANTS
  NumLanes = 2
  Prefetch = 2
  s1 = s1
  s2 = s2
  Slots = {s1, s2}
  Configs <- StrictAndWeighted
  MaxReady = 1
  MaxIdle = 1
SPECIFICATION FairSpec
INVARIANTS TypeOK Balance WithinPrefetch LimitsKept BurstDrained
PROPERTIES NoneLeftBehind NoLaneStarved BurstEnds StopHeard

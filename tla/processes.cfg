CONSTANTS
  Workers = {w1, w2}
  Tasked = {w1}
  Terminal = FALSE
  MaxRequests = 2
  MaxAborts = 2
  MaxCrashes = 1
SPECIFICATION FairSpec
INVARIANTS ExitTells NoRunLeftBehind
PROPERTIES ChildrenEnd StopEnds
CHECK_DEADLOCK FALSE

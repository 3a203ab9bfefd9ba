CONSTANTS
  Workers = {w1, w2}
  Tasked = {w1}
  Terminal = TRUE
  MaxRequests = 1
  MaxAborts = 0
  MaxCrashes = 0
SPECIFICATION Spec
INVARIANT ForcedOnlyWhenAskedTwice
CHECK_DEADLOCK FALSE

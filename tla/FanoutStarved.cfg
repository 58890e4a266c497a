\* As many hung calls as workers: the queued job never starts.
CONSTANTS
  N = 3
  Limit = 2
  MayHang = {1, 2}
  MayCancel = FALSE
  MayRaise = FALSE
SPECIFICATION FairSpec
PROPERTIES EveryJobYieldsAResult
CHECK_DEADLOCK FALSE

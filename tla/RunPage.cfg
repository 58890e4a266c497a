CONSTANTS
  K = 4
  MaxRuns = 3
  MaxResubscribes = 2
  EarlyClick = FALSE
SPECIFICATION FairSpec
INVARIANTS OneFollower QuietMeansFinal
PROPERTIES ShownProgressIsMonotone FollowedToItsEnd
CHECK_DEADLOCK FALSE

\* Fewer workers than jobs: jobs queue.  The caller may cancel at any time, the
\* callback may raise, and one executor call may hang: the other worker drains
\* the queue.
CONSTANTS
  N = 3
  Limit = 2
  MayHang = {1}
  MayCancel = TRUE
  MayRaise = TRUE
SPECIFICATION FairSpec
INVARIANTS HonestResults CancelBoundsOverrun PeakIsHonest OnlyTimedOutLeftBehind
PROPERTIES ImplementsBatch Settles
CHECK_DEADLOCK FALSE

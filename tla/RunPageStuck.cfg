\* The run ends before the page reads its first snapshot.
CONSTANTS
  K = 2
  MaxRuns = 1
  MaxResubscribes = 1
  EarlyClick = FALSE
SPECIFICATION FairSpec
PROPERTIES TerminalIsReconciled
CHECK_DEADLOCK FALSE

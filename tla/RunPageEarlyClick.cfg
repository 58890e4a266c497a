\* The button is live while a reloaded page still waits for its run.
CONSTANTS
  K = 2
  MaxRuns = 2
  MaxResubscribes = 1
  EarlyClick = TRUE
SPECIFICATION Spec
INVARIANTS UrlNamesTheShownRun
CHECK_DEADLOCK FALSE

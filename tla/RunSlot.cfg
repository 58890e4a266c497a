\* Between RunRecord.finish and the release of the slot.
CONSTANTS
  MaxRuns = 2
  MaxProgress = 1
  Retained = 2
  Streams = {c1}
SPECIFICATION Spec
INVARIANTS FinishedRunFreesSlot
CHECK_DEADLOCK FALSE

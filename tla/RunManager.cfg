CONSTANTS
  MaxRuns = 2
  MaxProgress = 2
  Retained = 1
  Streams = {c1}
SPECIFICATION FairSpec
INVARIANTS TypeOK OneActiveRun TerminalMeansFinal EvidenceIsWhole StreamsAreExact
PROPERTIES StreamsComplete SlotComesBack
CHECK_DEADLOCK FALSE

CONSTANTS
  RunId = "run"
  N = 2
  Seen = {"PASS", "TEST_FAIL", "INVALID", "TIMEOUT", "INFRA_ERROR"}
  MayCancel = TRUE
SPECIFICATION FairSpec
INVARIANTS TypeOK NeverRaises JustifiedEnding VerifiedImproves EventsTellTheEvidence
PROPERTIES CancelledIsNotVerified ImplementsLifecycle RunEnds
CHECK_DEADLOCK FALSE

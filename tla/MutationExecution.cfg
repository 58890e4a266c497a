\* Three accepted mutations, with and without a candidate, while the tree is edited at
\* any moment; an injected runner returns up to four results, of any IDs and outcomes.
CONSTANTS
  N = 3
  Seen = {"PASS", "TEST_FAIL"}
  MaxReturned = 4
SPECIFICATION Spec
INVARIANTS WorldsAreBaseline ExecutedInTheirWorld NoCopyIsForgotten ReportIsReconciled
CHECK_DEADLOCK FALSE

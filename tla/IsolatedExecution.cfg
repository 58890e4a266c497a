\* One source tree that toggles between two versions at any moment; contexts of
\* up to four files.
CONSTANTS
  Calls = {"baseline", "collect", "original", "mutant"}
  Versions = {"v1", "v2"}
  NoContent = NoContent
  Partial = Partial
  MaxFiles = 4
  MaxBytes = 3
SPECIFICATION Spec
INVARIANTS TypeOK TestedWhatWasMeant OneSnapshotVerified NothingForgotten ShownIsTheBaseline
  FirstFitIsExact
CHECK_DEADLOCK FALSE

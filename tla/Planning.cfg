\* Two mutants are enough, three are wanted: twin edits (by other snippets, or of an
\* identical file), one that does not compile, one the gate refuses and one that cannot be
\* applied; batches of up to three.
CONSTANTS
  Ids = {"M01", "M02", "M03"}
  Malformed = {"no_op"}
  Inapplicable = {"unsafe"}
  Programs = {{"a", "a2"}, {"b"}, {"c"}, {"broken"}}
  Broken = {{"broken"}}
  NoEdit = "none"
  Minimum = 2
  Target = 3
  MaxBatch = 3
SPECIFICATION Spec
INVARIANTS PlanIsExecutable NothingUsableIsLost
PROPERTIES RefillIsInformed
CHECK_DEADLOCK FALSE

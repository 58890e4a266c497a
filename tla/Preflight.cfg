\* One source tree that toggles between two versions at any moment.
CONSTANTS
  Calls = {"local_pass", "modal_parity"}
  Versions = {"v1", "v2"}
  NoContent = NoContent
  Partial = Partial
SPECIFICATION Spec
INVARIANTS PassesAreEarned BlameIsRooted
CHECK_DEADLOCK FALSE

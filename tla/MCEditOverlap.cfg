SPECIFICATION InterruptedSpec
CONSTANTS
  Attempts = 2
  NoFile = NoFile
  NoEdit = NoEdit
  Edits = {e1, e2}
INVARIANT
  RolledBackWhenReported
SYMMETRY EditSymmetry
CHECK_DEADLOCK FALSE

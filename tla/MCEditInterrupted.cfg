SPECIFICATION Spec
CONSTANTS
  Attempts = 2
  NoFile = NoFile
  NoEdit = NoEdit
  Edits = {e1, e2}
INVARIANTS
  EditTypeOK
  RejectedIsUndone
PROPERTIES
  ImplementsAtomicEdit
  EditEnds
CHECK_DEADLOCK FALSE

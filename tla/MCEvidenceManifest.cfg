SPECIFICATION Spec
CONSTANTS
  main = main
  api = api
  sql = sql
  create_app = create_app
  run = run
  cls = cls
  method = method
  helper = helper
  t = t
  u = u
  Layouts <- MCLayouts
  Layer <- MCLayer
  SqlFiles = {sql}
  Probes = {create_app}
  MaxObserved = 4
  MaxCalls = 5
INVARIANTS
  ManifestTypeOK
  SatisfiedIsCurrent
  LockedIsCounted
PROPERTIES
  ReadyUntilGap
CHECK_DEADLOCK FALSE

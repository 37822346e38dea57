SPECIFICATION ServiceSpec
CONSTANTS
  p1 = p1
  n2 = n2
  h2 = h2
  Paths = {p1, h2}
  Names = {p1, h2, n2}
  Stripped <- MCStripped
  NoPath = NoPath
  Clients = {c1}
  Worker = w
  MaxVersion = 2
  Threshold = 2
  NoMap = NoMap
  Free = Free
INVARIANTS
  RepoTypeOK
  FreshUnlessRaced
PROPERTY
  CallsReturn

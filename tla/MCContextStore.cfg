SPECIFICATION Spec
CONSTANTS
  f = f
  g = g
  a = a
  b = b
  c = c
  short = short
  long = long
  Layout <- MCLayout
  Texts = {short, long}
  LinesOf <- MCSize
  CharsOf <- MCSize
  FirstText = short
  Found = {a}
  Limit = 2
  Batch = 2
  MaxSteps = 2
  MaxWrites = 1
  NoSymbol = NoSymbol
  NoText = NoText
INVARIANTS
  ContextTypeOK
  BodiesCurrent
  LockedIsShown
CHECK_DEADLOCK FALSE

SPECIFICATION LoopSpec
CONSTANTS
  a1 = a1
  a2 = a2
  h1 = h1
  f1 = f1
  f2 = f2
  p1 = p1
  p2 = p2
  Slots = {s1}
  Artifacts = {a1, a2, h1}
  Hits = {h1}
  Files = {f1, f2}
  FileOf <- MCFileOf
  BigArtifacts = {a1}
  Steps = {p1, p2}
  StepFile <- MCStepFile
  Windows <- MCWindows
  MaxSteps = 3
  RetryLimit = 2
  CounterCap = 3
  MaxProtocolFailures = 1
  Turns <- AllTurns
INVARIANTS
  LoopTypeOK
  NothingAfterStop
  FirstEditGrounded
  FreshUnlessMissed
  AdviceFits
PROPERTY
  RequestEnds

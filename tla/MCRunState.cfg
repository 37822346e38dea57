SPECIFICATION Spec
CONSTANTS
  f1 = f1
  Slots = {s1}
  Artifacts = {a1}
  Files = {f1}
  FileOf <- MCFileOf
  MaxSteps = 1
  RetryLimit = 2
  CounterCap = 3
VIEW MCView
INVARIANTS
  TypeOK
  RunEnds
  EvidenceAnchored
  SuccessMeansValidated
PROPERTIES
  StaleSurvives

SPECIFICATION PlanSpec
CONSTANTS
  a = a
  b = b
  c = c
  d = d
  Work <- MCWork
  Keys <- MCKeys
  PartKey <- MCPartKey
  Turns <- MCTurns
  MaxTurns = 2
  SplitAt = 3
  MaxFocus = 3
  SplitMax = 3
  FollowMax = 1
  CardMax = 1
INVARIANT EditPlanTypeOK
INVARIANT WorkKept
INVARIANT NothingDoneAgain
CHECK_DEADLOCK FALSE

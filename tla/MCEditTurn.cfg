SPECIFICATION Spec
CONSTANTS
  Lines <- MCLines
  Squeeze <- MCSqueeze
  Fold <- MCFold
  Depth <- MCDepth
  Defines <- MCDefines
  Symbols <- MCSymbols
  NoSymbol = "none"
  Separator = "sep"
  NoLine = "noline"
  PartOf <- MCPartOf
  Likeness <- MCLikeness
  NearName <- MCNearName
  MaxBlocks = 3
  Marker = "marker"
  Gap = 0
  MaxWindows = 3
  WindowLines = 4
  TotalLines = 6
  MinRoom = 2
  MinFocus = 2
  Pad = 1
  Lead = 1
  FocusLines = 2
  ConnectTimeout = 2
  ReasonTimeout = 3
  IdleTimeout = 2
  MaxEvents = 3
  Files <- MCFiles
  Texts <- MCTexts
  UserTexts <- MCUserTexts
  Calls <- MCCalls
  Answers <- MCAnswers
  MaxSpan = 4
  Attempts = 2
  NoCall = NoCall
INVARIANTS
  EditTurnTypeOK
  AttemptsStartClean
  CommitKeepsCode
  EditedAsMeantWhenPlain
PROPERTY
  CallAdvances

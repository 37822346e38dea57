SPECIFICATION Spec
CONSTANTS
  Tools <- MCTools
  Texts <- MCTexts
  Retrieval <- MCRetrieval
  Responses <- MCResponses
  Offers <- MCOffers
  MaxPlan = 1
  MaxMishaps = 1
  MaxSteps = 4
  ProtocolLimit = 3
INVARIANT SentWellFormed
INVARIANT SummariesTrue
INVARIANT AnswerIsProse
CHECK_DEADLOCK FALSE

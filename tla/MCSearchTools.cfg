SPECIFICATION Spec
CONSTANTS
  Decl <- MCDecl
  Files <- MCFiles
  MaxVersion = 2
  Line <- MCLine
  Imports <- MCImports
  Domain <- MCDomain
  PerFile = 3
  Branch = 3
  Depth = 2
  StackLimit = 5
  Terms <- MCTerms
  Letters = {"x"}
  Stripped <- MCStripped
  Queries <- MCQueries
  Aliases <- MCAliases
  Concepts <- MCConcepts
  Layers <- MCLayers
  Topics <- MCTopics
  Codebase = "code"
  Answers <- MCAnswers
  Matching <- MCMatching
  ViewWords = {"sql", "view"}
  LogicWords = {"select"}
  QueryLogic = {5}
  CandidateLimit = 4
  LookupLimit = 5
  MaxSeeds = 2
  TopSymbols = 4
  MaxSymbols = 4
  MaxEvidence = 3
  MaxBuilds = 2
  Changing = {"api"}
  HasCtags = FALSE
  MaxQueries = 1
  MaxSearches = 2
  Rest <- MCRest
  RestLine <- MCRestLine
  Folded <- MCFolded
  Dirs <- MCDirs
  Requests <- MCRequests
  Factories = {}
  ShownLimit = 2
  SeedLimit = 2
  ViewLimit = 3
  RefLimit = 2
  Nothing = Nothing
  NoMap = NoMap
INVARIANTS
  SearchTypeOK
  EmptyIsTrue
  SlotsDefended
  AnswerLeads
CHECK_DEADLOCK FALSE

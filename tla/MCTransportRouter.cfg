SPECIFICATION Spec
CONSTANTS
  A = A
  B = B
  C = C
  X = X
  Y = Y
  Somewhere = Somewhere
  Uninitialised = Uninitialised
  NoRoute = NoRoute
  NoAnswer = NoAnswer
  Names = {A, B, C, X, Y}
  Coordinates = {Somewhere}
  Documents <- MCDocuments
  NameRank <- MCNameRank
  WaitTime = 2
  SpeedFactor = 3
INVARIANTS
  GraphConsistent
  RidesAreTheDocuments
  ConstructorOutcome
  SearchOutcome
  AnswerIsJourney
  AnswerIsFastest
CHECK_DEADLOCK FALSE

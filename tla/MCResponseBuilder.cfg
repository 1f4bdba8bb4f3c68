SPECIFICATION Spec
CONSTANTS
  A = A
  B = B
  C = C
  X = X
  Y = Y
  Near = Near
  Far = Far
  Absent = Absent
  Null = Null
  NoKey = NoKey
  Uninitialised = Uninitialised
  Names = {A, B, C, X, Y}
  Coordinates = {Near, Far}
  Ids = {1, 2}
  MaxRequests = 2
  Documents <- MCDocuments
  StatDocs <- MCStatDocs
  NameRank <- MCNameRank
  Distances <- MCDistances
  RoutingSettings <- MCRoutingSettings
INVARIANTS
  CallsKeepToGrammar
  AnswersInOrder
  AnswersAreTheDocuments
  ResponseOutcome
CHECK_DEADLOCK FALSE

CONSTANTS
  VertexCount = 3
  Weights <- MCWeights
  MaxEdges = 3
  NoRoute = NoRoute
  NoEdge = NoEdge
  NoAnswer = NoAnswer
SPECIFICATION FairSpec
INVARIANTS
  IInv
  TableOptimal
  NeverUndefined
  AnswerIsWalk
PROPERTIES
  PivotFrozen
  BuildRouteReturns
  ImplementsShortestPath
CHECK_DEADLOCK FALSE

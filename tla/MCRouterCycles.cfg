CONSTANTS
  VertexCount = 4
  Weights <- ZeroOneWeights
  MaxEdges = 4
  NoRoute = NoRoute
  NoEdge = NoEdge
  NoAnswer = NoAnswer
SPECIFICATION Spec
INVARIANTS
  WalkIsSimple
ACTION_CONSTRAINT
  AddedInOrder
CHECK_DEADLOCK FALSE

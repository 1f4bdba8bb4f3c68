SPECIFICATION Spec
CONSTANTS
  A = A
  B = B
  C = C
  X = X
  Y = Y
  Z = Z
  Red = Red
  Green = Green
  Blue = Blue
  Underlayer = Underlayer
  Uninitialised = Uninitialised
  Names = {A, B, C, X, Y, Z}
  Epsilon = 2
  Coordinates <- MCCoordinates
  Documents <- MCDocuments
  Settings <- MCSettings
  NameRank <- MCNameRank
INVARIANTS
  PictureIsTheDocuments
  ColoursAgree
  InsideImage
  DrawOutcome
CHECK_DEADLOCK FALSE

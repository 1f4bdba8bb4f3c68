SPECIFICATION Spec
CONSTANTS
  empty = empty
  k1 = k1
  v1 = v1
  Keys = {empty, k1}
  Values = {v1}
  Null = Null
  EmptyKey = empty
  NoAddress = NoAddress
  MaxCalls = 7
INVARIANTS
  NoDanglingPointer
  GrammarIsEnough
PROPERTIES
  BuildsTheDocument
CHECK_DEADLOCK FALSE

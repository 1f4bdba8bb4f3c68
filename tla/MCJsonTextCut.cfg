SPECIFICATION Spec
CONSTANTS
  MaxLength = 1
  Nodes   <- MCNodes
  Texts   <- MCTexts
  Members <- MCMembers
  Symbols <- MCSymbols
INVARIANT
  CutDictRefused
CHECK_DEADLOCK FALSE

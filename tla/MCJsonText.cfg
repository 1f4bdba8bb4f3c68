SPECIFICATION FairSpec
CONSTANTS
  MaxLength = 4
  Nodes   <- MCNodes
  Texts   <- MCTexts
  Members <- MCMembers
  Symbols <- MCSymbols
INVARIANTS
  RoundTrip
  FirstMemberStays
  CutArrayRefused
PROPERTIES
  LoadEnds
CHECK_DEADLOCK FALSE

SPECIFICATION Spec
CONSTANTS
  Absent = Absent
  Missing = Missing
  Uint8 = 8
  Uint32 = 64
  Documents <- MCDocuments
INVARIANTS
  SettingsAsBuilt
  RefusedAlike
CHECK_DEADLOCK FALSE

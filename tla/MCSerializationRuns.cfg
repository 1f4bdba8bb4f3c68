SPECIFICATION Spec
CONSTANTS
  A = A
  B = B
  X = X
  Y = Y
  Near = Near
  Far = Far
  Given = Given
  Half = Half
  NoName = NoName
  Zero = Zero
  TornNumbers <- Torn
  TornIds <- TornRows
  db = db
  Uninitialised = Uninitialised
  NoFile = NoFile
  Unreadable = Unreadable
  Absent = Absent
  Bad = Bad
  DefaultSettings = DefaultSettings
  Missing = Missing
  Names = {A, B, X, NoName}
  Coordinates = {Near, Far, Zero}
  Settings = {Given, Half}
  old = old
  Files = {db, old}
  MaxRequests = 0
  MakeDocs <- HistoryDocs
  ProcessDocs <- AnyFile
  MaxRuns = 3
INVARIANTS
  TypeOK
  IdsResolve
  NoPhantomStop
  FreshResult
  NoStaleDatabase
CHECK_DEADLOCK FALSE

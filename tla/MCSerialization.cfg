SPECIFICATION Spec
CONSTANTS
  A = A
  B = B
  X = X
  Y = Y
  Near = Near
  Far = Far
  Given = Given
  Half = Half
  NoName = NoName
  Zero = Zero
  TornNumbers <- Torn
  TornIds <- TornRows
  db = db
  Uninitialised = Uninitialised
  NoFile = NoFile
  Unreadable = Unreadable
  Absent = Absent
  Bad = Bad
  DefaultSettings = DefaultSettings
  Missing = Missing
  Names = {A, B, X, Y, NoName}
  Coordinates = {Near, Far, Zero}
  Settings = {Given, Half}
  old = old
  Files = {db, old}
  MaxRequests = 3
  MakeDocs <- PoolDocs
  ProcessDocs <- SameFile
  MaxRuns = 1
INVARIANTS
  StopsKnowTheirBuses
  RoundTrip
  LoadOutcome
CHECK_DEADLOCK FALSE

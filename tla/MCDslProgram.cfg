SPECIFICATION FairSpec
CONSTANTS
  Files <- MCFiles
  MaxCalls = 3
  MaxItems = 2
  Unfit <- MCUnfit
  PythonWords = {"from", "for"}
  Quoting = {"it's"}
INVARIANTS
  ScopeIsAssigned
  CyclesAreFound
  AcceptedFilesLoad
  VerdictIsOrderFree
PROPERTIES
  BoundedProgramsEnd
CHECK_DEADLOCK FALSE

SPECIFICATION Spec
CONSTANTS
  MaxCommands = 2
  MaxPieces = 1
  MaxSends = 1
  MaxTimers = 2
  MaxFaults = 1
INVARIANTS
  NothingIsLost
  SentInputIsJournaled
  TerminalIsRestored
CHECK_DEADLOCK FALSE
PROPERTIES
  SnapshotsEnd

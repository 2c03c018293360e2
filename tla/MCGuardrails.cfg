SPECIFICATION Spec
CONSTANTS
  Workflows <- MCWorkflows
  Runs <- MCRuns
  SessionOf <- MCApart
  Custom = {"keys", "lookup"}
  Async = {"lookup"}
  MaxRounds = 2
  MaxTools = 2
INVARIANTS
  EveryoneGetsTheirOwn
  MaskedForGood
PROPERTIES
  DriftStaysInItsSession
CHECK_DEADLOCK FALSE

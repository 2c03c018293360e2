CONSTANTS
  Tools = {read, write}
  Turns = {t1}
  MAX_TOOL_CALLS_IN_SESSION = 2
  MaxLen = 8
  KeptByTruncation = 3
SPECIFICATION LoopSpec
INVARIANTS
  ValidateDropsExactlyOrphans
  TrimOfValidatedIsSafe
CHECK_DEADLOCK FALSE

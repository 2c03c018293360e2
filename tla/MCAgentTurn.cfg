CONSTANTS
  Tools = {read}
  MAX_TOOL_CALLS_IN_SESSION = 1
  MaxTurns = 2
  MaxCalls = 2
  MaxClock = 2
  MaxCrashes = 1
  SessionIds <- MCSessionIds
  Turns <- MCTurns
SPECIFICATION Spec
INVARIANTS
  ModelSeesIntactPairs
  FileHoldsMemory
  AnsweredTurnIsDurable
PROPERTIES
  ImplementsConversationLog
CHECK_DEADLOCK FALSE

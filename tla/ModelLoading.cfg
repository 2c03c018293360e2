CONSTANTS
  Tasks = {t1, t2, t3}
  Models = {pii, safety}
  LoadErrors = {"missing", "other"}
  MaxCancels = 2
  MaxCalls = 2
SPECIFICATION RegistrySpec
INVARIANTS
  SingleLoader
  AnswersMatchState
PROPERTIES
  EveryCallReturns
CHECK_DEADLOCK FALSE

SPECIFICATION Spec
CONSTANTS
  Names <- MCNames
  Definitions <- MCDefinitions
  MaxSelfRef = 3
  MaxDepth = 8
  MaxRuns = 2
  MaxWorkloads = 2
INVARIANTS
  StackFollowsTheCalls
  EveryRunGetsTheWholeTree
  ClosedTreesHoldNothing
CHECK_DEADLOCK FALSE

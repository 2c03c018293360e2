CONSTANTS
  Tools = {read}
  Prompt = prompt
  Continue = continue
  Answer = answer
  SummaryTag = summary
  Turns = {prompt, continue, answer, summary}
  MAX_TOOL_CALLS_IN_SESSION = 20
  Strategies = {"truncate", "summarize"}
  KeepRecent = 3
  Threshold = 13
  MaxCalls = 5
  Weight <- MCWeight
  Talks <- MCTalks
  Histories <- MCHistories
  MaxRuns = 2
  Window = 16
  SummarySize = 3
SPECIFICATION Spec
INVARIANTS
  CompactionKeepsPairs
  
  KeptIsLongestEnding
PROPERTIES
  RunEnds
CHECK_DEADLOCK FALSE

SPECIFICATION CallsSpec
CONSTANTS
  Models <- MCModels
  Prompts <- MCPrompts
  SchemaDefs <- MCSchemaDefs
  TargetVars = {"x"}
  Answers <- MCAnswers
  MaxDepth = 3
  MaxCalls = 2
INVARIANTS
  ResultFitsTheSchema
  RetriesShowTheFailure
  EscalationSeesTheWord
PROPERTIES
  ConformingAnswerIsTaken
CHECK_DEADLOCK FALSE

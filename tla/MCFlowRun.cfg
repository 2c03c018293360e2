SPECIFICATION FairSpec
CONSTANTS
  Programs <- MCPrograms
  Vars <- MCVars
  Agents <- MCAgents
  WithSchema <- MCWithSchema
  Addresses <- MCAddresses
INVARIANTS
  RunsOfATurnKeepApart
  ClosedAfterTurn
  ResultsComeFromTheirStatements
PROPERTIES
  TurnEnds

SPECIFICATION ManagerSpec
CONSTANTS
  Files <- MCFiles
  Contents <- MCContents
  Locations = 2
  Identifiers <- MCIdentifiers
  DefaultAgent = "a"
  MaxRefDepth = 2
  MaxCached = 1
  MaxEdits = 1
  MaxTurns = 2
INVARIANTS
  DiscoveryFindsTheFirst
  ReferencesAreFinite
PROPERTIES
  ConversationKeepsItsDefinition
  PathRunsTheTextOnDisk
CHECK_DEADLOCK FALSE

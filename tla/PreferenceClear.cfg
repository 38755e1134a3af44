SPECIFICATION Spec
CONSTANTS
  SetupTools = {"t"}
  MaxSetups = 2
  MaxSetupsAtOnce = 2
  MaxHandEdits = 1
  MaxSetupLists = 1
  MaxMigrations = 2
  MaxCatalogEdits = 2
  MaxMigrationDeaths = 1
  Services = {"private"}
  MaxRuns = 2
  MaxActive = 1
  MaxRunMishaps = 1
  MaxForeign = 2
  MaxCommands = 3
  MaxTogether = 2
  MaxDeaths = 1
  MaxCount = 5
  AttemptTimes = {2, 12}
  Reports <- SomeReports
  Caller = {c1, c2}
  MaxTokenMishaps = 2
  MaxCalls = 2
  MaxListings = 2
  ToolWeight = 1
  SpecTokens = 0
  ContextLimit = 24
  Openings <- NewOrLater
  MaxAgentTurns = 4
  MaxArchives = 2
  MaxItems = 2
  MaxItemBytes = 10
  MaxSessionBytes = 16
  MaxLarge = 1
  MaxArchiveMishaps = 1
  MaxLogLines = 7
  MaxMeasured = 2
  MaxTaskCalls = 2
  MaxOthers = 1
  ChatRoutes = {"ra", "rb"}
  PricedRoutes = {"ra"}
  Outcomes <- SomeOutcomes
  MaxChatTasks = 2
  MaxChatSwitches = 2
  MaxChatLaunches = 2
  MaxChatFaults = 1
INVARIANT ClearingRestoresDefault
CHECK_DEADLOCK FALSE

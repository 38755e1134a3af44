SPECIFICATION TuiFairSpec
CONSTANTS
  ToolWeight = 1
  SpecTokens = 1
  MaxTurns = 1
  ContextLimit = 0
  Replies <- AnswerOrCalls
  Restored <- NewSession
  MaxRuns = 4
  MaxCancels = 1
  MaxReceiptFaults = 1
  MaxCorrections = 0
  Routes = {"a", "b"}
  Leftovers = {"nothing"}
  MaxTasks = 2
  MaxSwitches = 1
  MaxCrashes = 0
  MaxLaunches = 1
  MaxSaveFaults = 0
CHECK_DEADLOCK FALSE
INVARIANTS
  OneTurnInFlight
  RequestsAgreeOnMode
PROPERTIES
  TurnsSettle

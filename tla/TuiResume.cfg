SPECIFICATION TuiSpec
CONSTANTS
  ToolWeight = 1
  SpecTokens = 1
  MaxTurns = 1
  ContextLimit = 0
  Replies <- OnlyAnswer
  Restored <- NewSession
  MaxRuns = 4
  MaxCancels = 0
  MaxReceiptFaults = 0
  MaxCorrections = 0
  Routes = {a, b}
  Leftovers = {"nothing", "line", "part", "whole"}
  MaxTasks = 2
  MaxSwitches = 2
  MaxCrashes = 1
  MaxLaunches = 2
  MaxSaveFaults = 1
SYMMETRY RouteSymmetry
CHECK_DEADLOCK FALSE
INVARIANTS
  TranscriptSurvives
  RequestsAgreeOnRoute

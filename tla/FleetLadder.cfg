SPECIFICATION Spec
CONSTANTS
  TaskCount = 2
  Tiers = 2
  MaxTokens = 0
  EscalateOnPartial = FALSE
  MaxWorkers = 1
  EventCap = 2
  Unlimited = Unlimited
  Budget = Unlimited
  Deferred = {}
  Verdicts <- PassOrFail
  MaxCrashes = 1
  MaxFaults = 0
  MaxPanics = 1
  MaxBeats = 1
  MaxResumes = 1
  MaxTurns = 0
INVARIANTS
  OneTerminalPerTask
  NothingAfterTerminal
  StartsAreRecorded
PROPERTIES
  TasksLiveAsPromised

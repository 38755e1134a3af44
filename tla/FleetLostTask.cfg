SPECIFICATION Spec
CONSTANTS
  TaskCount = 2
  Tiers = 0
  MaxTokens = 0
  EscalateOnPartial = FALSE
  MaxWorkers = 1
  EventCap = 2
  Unlimited = Unlimited
  Budget = Unlimited
  Deferred = {}
  Verdicts <- Passing
  MaxCrashes = 1
  MaxFaults = 0
  MaxPanics = 0
  MaxBeats = 0
  MaxResumes = 1
  MaxTurns = 0
INVARIANT
  OneTerminalForEveryTask

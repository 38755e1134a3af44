SPECIFICATION Spec
CONSTANTS
  TaskCount = 1
  Tiers = 0
  MaxTokens = 0
  EscalateOnPartial = FALSE
  MaxWorkers = 1
  EventCap = 2
  Unlimited = Unlimited
  Budget = Unlimited
  Deferred = {}
  Verdicts <- Passing
  MaxCrashes = 0
  MaxFaults = 1
  MaxPanics = 0
  MaxBeats = 0
  MaxResumes = 1
  MaxTurns = 0
INVARIANT
  LedgerStaysReadable

SPECIFICATION FairSpec
CONSTANTS
  TaskCount = 3
  Tiers = 0
  MaxTokens = 1
  EscalateOnPartial = FALSE
  MaxWorkers = 2
  EventCap = 2
  Unlimited = Unlimited
  Budget = 1
  Deferred <- FirstTask
  Verdicts <- FailOrError
  MaxCrashes = 1
  MaxFaults = 1
  MaxPanics = 0
  MaxBeats = 0
  MaxResumes = 1
  MaxTurns = 1
INVARIANTS
  TypeOK
  NoTaskIsLost
  BudgetIsKept
  LockCoversWorkers
PROPERTIES
  BudgetStopsDispatch
  EveryProcessEnds
  EveryRunFinishes

SPECIFICATION FairSpec
CONSTANTS
  TaskCount = 2
  Tiers = 0
  MaxTokens = 0
  EscalateOnPartial = FALSE
  MaxWorkers = 2
  EventCap = 2
  Unlimited = Unlimited
  Budget = Unlimited
  Deferred = {}
  Verdicts <- Passing
  MaxCrashes = 0
  MaxFaults = 0
  MaxPanics = 1
  MaxBeats = 0
  MaxResumes = 1
  MaxTurns = 0
PROPERTY
  PanicSurfaces
(* The coordinator keeps waking up without anything to do, which the model
   leaves out as a step: see WakeUp. *)
CHECK_DEADLOCK FALSE

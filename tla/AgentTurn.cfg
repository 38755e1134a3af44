SPECIFICATION FairSteps
CONSTANTS
  ToolWeight = 1
  SpecTokens = 1
  MaxTurns = 2
  ContextLimit = 20
  Replies <- SomeReplies
  Restored <- NewOrLong
  MaxRuns = 2
  MaxCancels = 1
  MaxReceiptFaults = 1
  MaxCorrections = 1
  MaxToolRead = 1
  MaxWritten <- SomeOutput
  Redirects = {{"stdout"}}
INVARIANTS
  EveryCallIsAnswered
  RequestsKeepAnthropicOrder
  CompactionIsHonest
  CachedDescribesPrefix
  PassIsReceipted
  CancelStopsWork
  CommandReportsTruth
PROPERTIES
  RunsEnd
  ApprovedCallReturns
CHECK_DEADLOCK FALSE

SPECIFICATION FairSpec
CONSTANTS
  h1 = h1
  h2 = h2
  MaxQueueAttempts = 2
  MaxMutations = 1
  Handlers <- MCHandlers
  UsesBullmq = TRUE
  QueueOpsYield = FALSE
  StoreOpsYield = TRUE
  Beats <- OneBeat
  PhaseEvents <- OnePhase
  Outcomes <- OneOutcome
CHECK_DEADLOCK FALSE
PROPERTIES
  AcceptedRunClosesUnlessDropped

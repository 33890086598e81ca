SPECIFICATION FairSpec
CONSTANTS
  h1 = h1
  h2 = h2
  MaxQueueAttempts = 2
  MaxMutations = 0
  Handlers <- MCHandlers
  UsesBullmq = TRUE
  QueueOpsYield = TRUE
  StoreOpsYield = FALSE
  Beats = {}
  PhaseEvents = {}
  Outcomes = {}
CHECK_DEADLOCK FALSE
PROPERTIES
  AcceptedRunClosesUnlessDropped

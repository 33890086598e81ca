SPECIFICATION Spec
CONSTANTS
  h1 = h1
  h2 = h2
  MaxQueueAttempts = 2
  MaxMutations = 1
  Handlers <- MCHandlers
  UsesBullmq = TRUE
  QueueOpsYield = TRUE
  StoreOpsYield = TRUE
  Beats = {}
  PhaseEvents = {}
  Outcomes <- OneOutcome
VIEW LastEventView
SYMMETRY HandlerSymmetry
CHECK_DEADLOCK FALSE
INVARIANTS
  AttemptBudget
  TerminalAnnounced
  

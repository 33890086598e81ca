SPECIFICATION Spec
CONSTANTS
  h1 = h1
  h2 = h2
  MaxQueueAttempts = 2
  MaxMutations = 2
  Handlers <- MCHandlers
  UsesBullmq = TRUE
  QueueOpsYield = FALSE
  StoreOpsYield = FALSE
  Beats <- MCBeats
  PhaseEvents <- MCPhaseEvents
  Outcomes <- MCOutcomes
SYMMETRY HandlerSymmetry
CHECK_DEADLOCK FALSE
INVARIANTS
  OneRowPerAttempt
  LedgerByAttempt
  ClosedTogether
PROPERTIES
  EndedAttemptStaysEnded
  ImplementsContract

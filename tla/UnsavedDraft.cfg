SPECIFICATION Spec
CONSTANTS
  MaxPrior = 1
  MaxMutations = 7
  Batches <- MCBatches
CHECK_DEADLOCK FALSE
INVARIANTS
  AppliedIsSaved

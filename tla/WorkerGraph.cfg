SPECIFICATION FairSpec
CONSTANTS
  MaxPrior = 1
  MaxMutations = 7
  Batches <- MCBatches
CHECK_DEADLOCK FALSE
INVARIANTS
  TypeOK
  CompletedIsSaved
  StopIsReported
PROPERTIES
  PublishedInLockstep
  NoStageAfterStop
  AttemptEnds

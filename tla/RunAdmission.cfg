SPECIFICATION FairSpec
CONSTANTS
  again = again
  other = other
  p = p
  Keys <- MCKeys
  Pages <- MCPages
  PageOf <- MCPageOf
  MaxRequests = 3
  Endings = {"completed", "failed"}
  StoreOpsYield = TRUE
  QueueOpsYield = TRUE

CHECK_DEADLOCK FALSE
INVARIANTS
  JobsAreReadable
  AnsweredRunIsFollowed
  FirstRunFirst
  OpenRunIsWatched
PROPERTIES
  RequestIsAnswered

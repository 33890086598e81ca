SPECIFICATION FairSpec
CONSTANTS
  ours = ours
  theirs = theirs
  tab = tab
  otherTab = otherTab
  Runs <- MCRuns
  Clients <- TwoTabs
  Follows <- FollowsOurs
  UrlCursor = 0
  MaxEvents = 4
  MaxDrops = 2
  AwaitsYield = FALSE

CHECK_DEADLOCK FALSE
INVARIANTS
  ReadsTheLog
PROPERTIES
  EventsArrive

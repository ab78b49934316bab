SPECIFICATION FairSpec
CONSTANTS
  pA = pA
  pB = pB
  None = None
  Pages <- TwoPages
  Root = pA
  Sites <- Circles
  Versions = {1, 2}
  Known <- Recrawl
  MaxDepth = 1
  MaxFanout = 1
  Degraded = 1
  MaxRetries = 2
  MaxFaults = 1
INVARIANTS
  FanoutCapHolds
  TrackedIsAnnounced
PROPERTIES
  NoFollowUrlLost
  CrawlEnds
CHECK_DEADLOCK FALSE

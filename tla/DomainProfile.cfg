SPECIFICATION FairSpec
CONSTANTS
  w1 = w1
  w2 = w2
  Selector = Selector
  None = None
  Workers <- TwoWorkers
  MaxDelay = 1
  Latencies <- Targets
  RetryAfters <- NoAnswer
  MissThreshold = 2
  MinEvidence = 1
  MinTotal = 2
  MaxFaults = 1
INVARIANTS
  MissesOfKnownEndpoints
PROPERTIES
  LearningLostOnlyByStaleCopy
  LastingDemotion
CHECK_DEADLOCK FALSE

SPECIFICATION Spec
CONSTANTS
  j1 = j1
  j2 = j2
  d1 = d1
  None = None
  Jobs = {j1, j2}
  Domains = {d1}
  Proxies <- TwoProxies
  Answers <- Pages
  Bodies = {1, 2}
  default_budget = 1
  MAX_USES = 2
  SWEEP_INTERVAL_RELEASES = 2
  INTERCEPT_MAX_RESPONSE_BYTES = 2
  INTERCEPT_MAX_COUNT = 1
  INTERCEPT_MAX_TOTAL_BYTES = 2
  MaxRuns = 3
  MaxSessions = 3
  MaxResponses = 2
SYMMETRY AnyJob
INVARIANTS
  TypeOK
  LeasesSound
  NothingLeaks
  BufferWithinBytes
CHECK_DEADLOCK FALSE

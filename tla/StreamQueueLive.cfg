SPECIFICATION FairSpec
CONSTANTS
  c1 = c1
  c2 = c2
  m1 = m1
  m2 = m2
  None = None
  Consumers <- Workers
  Messages <- TwoMessages
  Malformed <- SecondMalformed
  MaxRetries = 2
  BatchSize = 1
  ClaimCount = 1
  Saturation = FALSE
  MaxPushes = 1
  MaxCrashes = 1
  MaxExpiries = 1
PROPERTIES
  EventuallyResolved
CHECK_DEADLOCK FALSE

SPECIFICATION Spec
CONSTANTS
  c1 = c1
  c2 = c2
  m1 = m1
  m2 = m2
  None = None
  Consumers <- Workers
  Messages <- OneMessage
  Malformed = {}
  MaxRetries = 2
  BatchSize = 2
  ClaimCount = 1
  Saturation = TRUE
  MaxPushes = 2
  MaxCrashes = 1
  MaxExpiries = 0
INVARIANTS
  NoPrematureDeadLetter
  LostOnlyIfCutShort
PROPERTIES
  DeliverySpec
SYMMETRY Symmetry
CHECK_DEADLOCK FALSE

SPECIFICATION FairSpec
CONSTANTS
  j1 = j1
  j2 = j2
  None = None
  Jobs <- TwoJobs
  BatchSize = 1
  MaxAttempts = 2
  MaxRetries = 2
  MaxErrors = 2
  Saturation = TRUE
  MaxFaults = 4
  MaxKills = 1
INVARIANTS
  JobAndEventTogether
  GivenUpAfterRetries
PROPERTIES
  MailboxSpec
  EventsResolved
CHECK_DEADLOCK FALSE

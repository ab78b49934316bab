SPECIFICATION FairSpec
CONSTANTS
  j1 = j1
  w1 = w1
  cancel = cancel
  delete = delete
  None = None
  Jobs <- OneJob
  Workers <- OneWorker
  Cancels <- OneCancel
  Deletes <- OneDelete
  Saturation = TRUE
  MaxRetries = 2
  MaxFaults = 2
INVARIANTS
  OutcomeIsBackedByMessage
PROPERTIES
  DecisionsHoldWhenWritten
  RecordSpec
  RunningEnds
CHECK_DEADLOCK FALSE

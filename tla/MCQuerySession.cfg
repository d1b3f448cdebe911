SPECIFICATION FairSpec
CONSTANTS
  r1 = r1
  r2 = r2
  Requests <- MCRequests
  DbFails = TRUE
\* A session ends: the task is done and nobody talks to it any more.
CHECK_DEADLOCK FALSE
INVARIANTS
  EarlyCancelWins
  OutcomeAgrees
  DoubleRecordNeedsDisconnect
PROPERTIES
  StreamEnds
  CancelAnswered
  KeepsPromise

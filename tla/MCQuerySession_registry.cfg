SPECIFICATION Spec
CONSTANTS
  r1 = r1
  r2 = r2
  Requests <- OneRequest
  DbFails = FALSE
\* A session ends: the task is done and nobody talks to it any more.
CHECK_DEADLOCK FALSE
INVARIANTS
  WorkerReleased

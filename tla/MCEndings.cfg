SPECIFICATION Endings
CONSTANTS
  a = a
  w1 = w1
  w2 = w2
  q1 = q1
  Classes <- MCClasses
  Keys <- MCKeys
  WindowSize = 4
  Threshold = 2
  MaxForced = 1
  DeadLoopWindow = 3
  Cap = 3
  MaxBatch = 2
\* A run stops, and the workers of the bound are used up.
CHECK_DEADLOCK FALSE
INVARIANTS
  ErrorsReachUserFirst
  AnswersCount
PROPERTIES
  RunEnds
  WorkerEnds

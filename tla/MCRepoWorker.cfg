SPECIFICATION Spec
CONSTANTS
  a = a
  b = b
  w1 = w1
  w2 = w2
  w3 = w3
  b1 = b1
  q1 = q1
  NoRepo = NoRepo
  NoWorker = NoWorker
  Repos <- MCRepos
  Workers <- MCWorkers
  Rebuilds <- MCRebuilds
  Requests <- MCRequests
  Slots = 2
  Events = {"rebuild", "delete", "crash", "dbError"}
\* The workers of the bound are used up.
CHECK_DEADLOCK FALSE
INVARIANTS
  RowNamesLiveWorker
  SoleWorkerVisible
  AllParsedIsPromoted
CONSTRAINT DeletionsApart
SYMMETRY Symmetry

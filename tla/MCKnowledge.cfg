SPECIFICATION All
CONSTANTS
  t = t
  u = u
  x = x
  r1 = r1
  r2 = r2
  r3 = r3
  Entries <- MCEntries
  Requests = {r1, r2}
  TypeOf <- MCTypeOf
  Related <- MCRelated
  Doomed = {x}
  Menu <- MCMenu
  Restarts = 1
  Missing <- MCMissing
  Automaton = Automaton
  TermIds = {1, 2}
  ConflictIds = {1}
  Payloads <- MCPayloads
  Routable = {1}
  Described = {1}
  RawTerms <- MCRawTerms
  Askers = {"j1"}
  Refreshes = {r1, r2}
  Fields = {"f1", "f2"}
  Enums = {"e1"}
  Matching <- MCMatching
  Suffixed = {"f1"}
  Uncovered <- MCUncovered
  Changers = {r1, r2, r3}
  BatchSize = 2
  MaxVersion = 3
  NoEnum = "none"
SYMMETRY Symmetry
\* Requests of the bound are used up.
CHECK_DEADLOCK FALSE
INVARIANTS
  VectorsFollowRows
  AutomatonFollowsRows
  OneGeneration
  CopiesAgree

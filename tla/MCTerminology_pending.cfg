SPECIFICATION Spec
CONSTANTS
  Ids = {1, 2, 3}
  Cids = {1, 2}
  Payloads <- MCPayloads
  RawTerms <- MCRaw
  Routable = {1}
  Described = {1}
  Jobs = {j1}
  Tasks = {t1, t2}
SYMMETRY Sym
INVARIANTS RefusedIsPending
CHECK_DEADLOCK FALSE

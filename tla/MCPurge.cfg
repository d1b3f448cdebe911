SPECIFICATION Spec
CONSTANTS
  r = r
  x = x
  y = y
  s1 = s1
  s2 = s2
  NoCand = NoCand
  ByUser = ByUser
  NoSession = NoSession
  Scopes <- RScope
  Ruled <- None
  Cands <- Two
  ScopeOf <- TwoOfRel
  Evidence <- None
  RepoCands <- Two
  Keys <- None
  Bare <- None
  Sessions <- TwoSessions
SYMMETRY Symmetry
PROPERTIES
  DecisionsAreKept

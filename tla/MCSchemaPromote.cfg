SPECIFICATION Both
CONSTANTS
  rel = rel
  note = note
  name = name
  code = code
  key = key
  hint = hint
  x = x
  y = y
  s1 = s1
  s2 = s2
  NoCand = NoCand
  ByUser = ByUser
  NoSession = NoSession
  Scopes <- MCScopes
  Ruled <- MCRuled
  Cands <- MCCands
  ScopeOf <- MCScopeOf
  Evidence <- MCEvidence
  RepoCands <- MCRepo
  Keys <- MCKeys
  Bare <- MCBare
  Sessions <- MCSessions
SYMMETRY Symmetry
INVARIANTS
  OneValueInForce
  EvidenceNeedsUser
  InConflictIsListed
  NobodyIsStuck
PROPERTIES
  CodeIsKept
  LockedKeepsValue

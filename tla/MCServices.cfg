SPECIFICATION MCSpec
CONSTANTS
  q1 = q1
  q2 = q2
  r1 = r1
  r2 = r2
  RawPlans <- MCRawPlans
  AgentPlans <- MCAgentPlans
  Caps = {"$facet", "$lookup.new"}
  Detected = {"$facet"}
  DefaultLimit = 2
  HardCeiling = 3
  MaxRows = 4
  Budget <- MCBudget
  Models <- MCModels
  GroupOf <- MCGroupOf
  Vers = {1, 2}
  KeyOf <- MCKeyOf
  Admins = {"a1", "a2"}
  Calls = {"c1"}
  MaxRequests = 2
  Namespaces = {"n"}
  Releases <- MCReleases
  Users = {1, 2}
  Root = 1
  Requests = {q1, q2}
  TokenRows = {1, 2}
  Tokens = {"t1"}
  Default = "t0"
  Sources = {"d1", "d2"}
  Waits = {"d1"}
  Runs = {r1, r2}
  Deleters = {"x1"}
  Above = 0
  MaxEntries = 1
  None = None
  MaxFiles = 3
  UnitSize = 2
  Slots = 2
  MaxRounds = 2
  Window = 2
  MaxBatch = 2
  Sessions = {"s1"}
  Refiners = {q1, q2}
  MaxProposals = 2
SYMMETRY Symmetry
\* Plans, calls, starts and parses end; requests of the bound are used up.
CHECK_DEADLOCK FALSE
INVARIANTS
  ParsedPlansRunInOrder
  CutsAreTold
  CallsEndWell
  SlotsFollowRows
  OneEmbedder
  StartsFromAnyRelease
  ScopesAreKept
  SuperAdminRemains
  PoolsAreClosed
  ExtractionsAreWhole
  RefinedOnce

SPECIFICATION MCSpec
CONSTANTS
  Accounts = {a1, a2}
  Uuids = {u1, u2, u3}
  Placeholder = Placeholder
  NoUuid = NoUuid
  Settings = {s1, s2}
  Jobs = {j1, j2}
  MaxRequests = 4
  Clients = {c1}
  Nothing = Nothing
  SUBSCRIPTION_TTL_SECONDS = 3
  FRESHNESS_WINDOW_SECONDS = 3
  MaxTime = 8
  P = 71
  A = 10
  Bits = 8
  BasePoint <- MCBasePoint
SYMMETRY Symmetry
INVARIANTS
  TypeOK
  StaleOnlyFromOverlap
  SoloRenderMatchesDb
  GraceKept
  PromiseKept
  KeyPairMatches
CHECK_DEADLOCK FALSE

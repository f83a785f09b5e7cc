SPECIFICATION MCSpec
CONSTANTS
  Accounts = {a1}
  Uuids = {u1, u2}
  Placeholder = Placeholder
  NoUuid = NoUuid
  Settings = {s1}
  Jobs = {j1, j2}
  MaxRequests = 3
  Clients = {}
  Nothing = Nothing
  SUBSCRIPTION_TTL_SECONDS = 1
  FRESHNESS_WINDOW_SECONDS = 1
  MaxTime = 1
  P = 71
  A = 10
  Bits = 3
  BasePoint <- MCBasePoint
INVARIANT FinishedRendersMatchDb
CHECK_DEADLOCK FALSE

SPECIFICATION SpecAll
CONSTANTS
  Accounts = {a1}
  Uuids = {u1, u2}
  Placeholder = Placeholder
  NoUuid = NoUuid
  Settings = {s1}
  Jobs = {j1, j2}
  MaxRequests = 2
  MaxSpawns = 6
  MaxRestarts = 0
  MaxCrashes = 0
  Callbacks = {k1, k2}
PROPERTY ChangeReachesClients
CHECK_DEADLOCK FALSE

SPECIFICATION Spec
CONSTANTS
  Emails = {a1, a2}
  Ips = {i1, i2}
  Procs = {p1, p2}
  Users = {u1}
  Requests = {r1, r2}
  Forms = {f1, f2}
  Commands = {c1, c2}
  a1 = a1
  a2 = a2
  i1 = i1
  i2 = i2
  p1 = p1
  p2 = p2
  u1 = u1
  r1 = r1
  r2 = r2
  f1 = f1
  f2 = f2
  c1 = c1
  c2 = c2
  LOGIN_THROTTLE_MAX_KEYS = 1
  LOGIN_THROTTLE_MAX = 1
  LOGIN_THROTTLE_WINDOW = 1
  ACCOUNT_THROTTLE_MAX = 2
  ACCOUNT_THROTTLE_WINDOW = 2
  MaxEras = 3
  MaxIssued = 2
  MaxTokens = 3
  MaxOwners = 3
  MaxSecrets = 3
  MaxQueue = 3
  MaxSent = 2
INVARIANTS
  TypeOK
  FailuresBounded
  OldPasswordsHeld
  FirstOwnerSafe
  WizardTruthful
  RowHonest
PROPERTIES
  LockEnds
CHECK_DEADLOCK FALSE

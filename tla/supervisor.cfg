SPECIFICATION Spec
CONSTANTS
  MaxSpawns = 7
  MaxWrites = 3
  MaxRestarts = 1
  MaxCrashes = 1
  Callbacks = {k1, k2, k3}
  OldKinds = {"good", "legacy", "bad"}
  Kinds = {"good", "bad"}
INVARIANT TypeOK
INVARIANT OnlyTrackedRuns
INVARIANT SettledServesFile
INVARIANT TwoSpawnsPerWrite
PROPERTY FollowsFile
PROPERTY NeverServesOlder
CHECK_DEADLOCK FALSE

SPECIFICATION Spec
CONSTANTS
  Users = {a, b, c}
  Roles = {"owner", "admin", "viewer"}
  Changes <- AllChanges
  Slots = {s1, s2}
  Clis = {c1}
  MaxRequests = 2
  Serial = TRUE
SYMMETRY Symmetry
INVARIANT TypeOK
INVARIANT AnOwnerRemains
PROPERTY PeersUntouched
PROPERTY NothingBroughtBack
CHECK_DEADLOCK FALSE

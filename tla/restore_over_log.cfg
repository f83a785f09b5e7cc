SPECIFICATION Spec
CONSTANTS
  Commits = {c1, c2, c3}
  MaxCerts = 2
SYMMETRY Symmetry
INVARIANT RestoredIsArchive

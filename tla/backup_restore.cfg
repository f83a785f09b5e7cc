SPECIFICATION Spec
CONSTANTS
  Commits = {c1, c2, c3}
  MaxCerts = 1
SYMMETRY Symmetry
INVARIANT TypeOK
INVARIANT BackupHasCommitted
INVARIANT TornOnlyIfDisturbed
INVARIANT CaddyComesBack
INVARIANT RestoredFromArchive

-------------------------- MODULE MCBackupRestore --------------------------
(* Instances of BackupRestore for TLC.                                     *)
EXTENDS BackupRestore, TLC

Symmetry == Permutations(Commits)
=============================================================================

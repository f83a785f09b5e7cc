---------------------------- MODULE MCAdminUsers ----------------------------
(* Instances of AdminUsers for TLC.                                        *)
EXTENDS AdminUsers, TLC

Symmetry == Permutations(Users) \cup Permutations(Slots)

\* A PATCH of one column at a time.
RoleChanges   == {[NoChange EXCEPT !.role = r] : r \in Roles}
StatusChanges == {[NoChange EXCEPT !.status = s] : s \in {"active", "disabled"}}
FlagChanges   == {[NoChange EXCEPT !.mustChange = f] : f \in {"yes", "no"}}

AllChanges == RoleChanges \cup StatusChanges \cup FlagChanges
=============================================================================

----------------------------- MODULE AdminUsers -----------------------------
(***************************************************************************)
(* The accounts of the admin panel: who may change whom, and who is left.  *)
(*                                                                         *)
(* A request reads the acting user once, when its session is looked up,    *)
(* and may then wait for the body and for Argon2 before it reaches the     *)
(* store.  A method of the store runs in one turn of its process, but its  *)
(* SELECTs and its UPDATE are separate statements: `ct admin users` is     *)
(* another process on the same SQLite file.                                *)
(*                                                                         *)
(* A user acts only while signed in, active and, apart from changing the   *)
(* own password, not flagged to change it; sessions are abstracted to      *)
(* that.  Names and addresses are left out, and so are requests refused    *)
(* with no effect at their first check.                                    *)
(***************************************************************************)
EXTENDS Naturals, FiniteSets

CONSTANTS
  Users,        \* user ids, none of them given twice
  Roles,        \* the roles of the instance
  Changes,      \* what a PATCH may ask for
  Slots,        \* requests to the API in flight at once
  Clis,         \* `ct admin users` processes
  MaxRequests,  \* bound: requests and commands
  Serial        \* TRUE: no process enters the store while another is inside a method

AllRoles == {"owner", "admin", "operator", "viewer"}
Change   == [role : AllRoles \cup {"same"}, status : {"active", "disabled", "same"},
             mustChange : {"yes", "no", "same"}]

ASSUME RolesAssumption == Roles \subseteq AllRoles /\ Changes \subseteq Change
ASSUME ProcessAssumption ==
  /\ IsFiniteSet(Users)
  /\ Slots \cap Clis = {}
  /\ MaxRequests \in Nat
  /\ Serial \in BOOLEAN

VARIABLES
  user,     \* the user table, with the credential of each user
  work,     \* what each process is doing
  requests  \* requests so far (bounded by MaxRequests)

vars == <<user, work, requests>>

Unborn  == [row |-> "unborn"]
Deleted == [row |-> "deleted"]
\* `password` tells who chose it: the user, or another one who reset it.
Row == [row : {"user"}, role : AllRoles, status : {"active", "disabled"},
        mustChange : BOOLEAN, password : {"own", "given"}]

Idle == [phase |-> "idle"]
\* rank: the role the actor had when the request was admitted.
\* seen: what the process has read last, its own credential or its target.
Work == [phase : {"admitted", "checked"}, op : {"update", "reset", "delete", "create", "own"},
         by : Users, rank : AllRoles, target : Users, change : Change, seen : Row]

Procs      == Slots \cup Clis
Present(u) == user[u].row = "user"
Busy(p)    == work[p] # Idle

ActiveOwners == {u \in Users : Present(u) /\ user[u].role = "owner" /\ user[u].status = "active"}
ownerCount   == Cardinality(ActiveOwners)

-----------------------------------------------------------------------------
(* Who may do what.                                                        *)

Rank(role) == CASE role = "viewer" -> 10 [] role = "operator" -> 20
                [] role = "admin" -> 30 [] role = "owner" -> 40

\* users:create, users:update, users:disable and users:reset-password
ManagerRoles == {"owner", "admin"}

\* MUTANT: an admin manages its peers.
canManageTarget_peers(rank, role) ==
  rank = "owner" \/ (rank = "admin" /\ Rank(role) <= Rank("admin"))

canManageTarget(rank, role) ==
  rank = "owner" \/ (rank = "admin" /\ Rank(role) < Rank("admin"))

canCreateRole(rank, role) ==
  rank = "owner" \/ (rank = "admin" /\ role \in {"operator", "viewer"})

\* MUTANT: a field that is absent from the PATCH is written all the same.
Updated_absent(row, change) ==
  [row EXCEPT
     !.role = change.role,
     !.status = IF change.status = "same" THEN @ ELSE change.status,
     !.mustChange = IF change.mustChange = "same" THEN @ ELSE change.mustChange = "yes"]

\* The row that an UPDATE writes: every column, the ones not asked for with
\* the values read before.
Updated(row, change) ==
  [row EXCEPT
     !.role = IF change.role = "same" THEN @ ELSE change.role,
     !.status = IF change.status = "same" THEN @ ELSE change.status,
     !.mustChange = IF change.mustChange = "same" THEN @ ELSE change.mustChange = "yes"]

\* MUTANT: the status is overlooked, an owner who is to be disabled counts as one.
assertLastOwnerPreserved_roleOnly(target, next) ==
  \/ target.role # "owner"
  \/ next # Deleted /\ next.role = "owner"
  \/ ownerCount > 1

\* next: the row the target will be, Deleted included
assertLastOwnerPreserved(target, next) ==
  \/ target.role # "owner" \/ target.status # "active"
  \/ next # Deleted /\ next.role = "owner" /\ next.status = "active"
  \/ ownerCount > 1

-----------------------------------------------------------------------------

\* Once an owner has been set up: any table with an active owner, all of whose
\* users have chosen their passwords.
Init ==
  /\ user \in [Users -> {Unborn} \cup [row : {"user"}, role : Roles, status : {"active", "disabled"},
                                      mustChange : {FALSE}, password : {"own"}]]
  /\ ActiveOwners # {}
  /\ work = [p \in Procs |-> Idle]
  /\ requests = 0

\* MUTANT: an asynchronous driver, which yields between its statements.
Turn_async(p) == TRUE

\* The event loop of the API runs one store method at a time; a CLI process is
\* kept out of it only if Serial.
Turn(p) ==
  \A q \in Procs \ {p} : Busy(q) /\ work[q].phase = "checked" => ~Serial /\ {p, q} \cap Clis # {}

Accept(p, op, a, t, change) ==
  /\ ~Busy(p) /\ Turn(p)
  /\ requests < MaxRequests
  /\ requests' = requests + 1
  /\ work' = [work EXCEPT ![p] = [phase |-> "admitted", op |-> op, by |-> a, rank |-> user[a].role,
                                  target |-> t, change |-> change, seen |-> user[a]]]
  /\ UNCHANGED user

NoChange == [role |-> "same", status |-> "same", mustChange |-> "same"]

\* requireSession and the mustChangePassword gate.
Signed(a)  == Present(a) /\ user[a].status = "active"
Allowed(a) == Signed(a) /\ ~user[a].mustChange

PatchUser(s) ==
  \E a \in Users, t \in Users, change \in Changes :
    /\ Allowed(a) /\ user[a].role \in ManagerRoles
    /\ Accept(s, "update", a, t, change)

ResetRoute(s) ==
  \E a \in Users, t \in Users :
    /\ Allowed(a) /\ user[a].role \in ManagerRoles
    /\ Accept(s, "reset", a, t, NoChange)

DeleteRoute(s) ==
  \E a \in Users, t \in Users :
    /\ Allowed(a) /\ user[a].role = "owner"
    /\ Accept(s, "delete", a, t, NoChange)

CreateRoute(s) ==
  \E a \in Users, role \in Roles, flag \in {"yes", "no"} :
    /\ Allowed(a) /\ user[a].role \in ManagerRoles
    /\ canCreateRole(user[a].role, role)
    /\ Accept(s, "create", a, a, [role |-> role, status |-> "active", mustChange |-> flag])

\* POST /api/me/password, up to the verification of the current password.
OwnPasswordRoute(s) ==
  \E a \in Users : Signed(a) /\ Accept(s, "own", a, a, NoChange)

\* `ct admin users` acts as the first active owner it finds.
CliCommand(c) ==
  \E a \in ActiveOwners, t \in Users :
    \/ \E change \in Changes : change.mustChange = "same" /\ Accept(c, "update", a, t, change)
    \/ Accept(c, "reset", a, t, NoChange)

-----------------------------------------------------------------------------
(* The methods of the store: SELECTs and guards, then the write.            *)

\* The guards of updateUser, resetPassword and deleteUser.
Permits(w, target) ==
  CASE w.op = "update" -> /\ canManageTarget(w.rank, target.role)
                          /\ Updated(target, w.change).role = "owner" => w.rank = "owner"
                          /\ assertLastOwnerPreserved(target, Updated(target, w.change))
    [] w.op = "reset"  -> canManageTarget(w.rank, target.role)
    [] w.op = "delete" -> /\ w.by # w.target
                          /\ w.rank = "owner"
                          /\ assertLastOwnerPreserved(target, Deleted)

Admitted(p) == Busy(p) /\ work[p].phase = "admitted" /\ Turn(p)
Checked(p)  == Busy(p) /\ work[p].phase = "checked" /\ Turn(p)

OnTarget(p) == work[p].op \in {"update", "reset", "delete"}
Passes(p)   == Present(work[p].target) /\ Permits(work[p], user[work[p].target])

Check(p) ==
  /\ Admitted(p) /\ OnTarget(p)
  /\ Passes(p)
  /\ work' = [work EXCEPT ![p].phase = "checked", ![p].seen = user[work[p].target]]
  /\ UNCHANGED <<user, requests>>

\* not_found, forbidden, last_owner, cannot_delete_self.
Refuse(p) ==
  /\ Admitted(p) /\ OnTarget(p)
  /\ ~Passes(p)
  /\ work' = [work EXCEPT ![p] = Idle]
  /\ UNCHANGED <<user, requests>>

\* The process is done, having written `row` over u: over no row, if u has
\* been deleted.
Write(p, u, row) ==
  /\ user' = IF Present(u) THEN [user EXCEPT ![u] = row] ELSE user
  /\ work' = [work EXCEPT ![p] = Idle]
  /\ UNCHANGED requests

updateUser(p) ==
  /\ Checked(p) /\ work[p].op = "update"
  /\ Write(p, work[p].target, Updated(work[p].seen, work[p].change))

resetPassword(p) ==
  /\ Checked(p) /\ work[p].op = "reset"
  /\ Write(p, work[p].target,
           [user[work[p].target] EXCEPT
              !.password = IF work[p].by = work[p].target THEN "own" ELSE "given",
              !.mustChange = TRUE])

deleteUser(p) ==
  /\ Checked(p) /\ work[p].op = "delete"
  /\ Write(p, work[p].target, Deleted)

\* insertUser, in a transaction and with an id of its own.
createUser(s) ==
  \E u \in Users :
    /\ Admitted(s) /\ work[s].op = "create"
    /\ user[u] = Unborn
    /\ work[s].change.role = "owner" => work[s].rank = "owner"
    /\ user' = [user EXCEPT ![u] =
         [row |-> "user", role |-> work[s].change.role, status |-> "active",
          mustChange |-> work[s].change.mustChange = "yes", password |-> "given"]]
    /\ work' = [work EXCEPT ![s] = Idle]
    /\ UNCHANGED requests

\* No check: the UPDATEs run on whatever the row is by now.
changeOwnPassword(s) ==
  /\ Admitted(s) /\ work[s].op = "own"
  /\ Write(s, work[s].by, [user[work[s].by] EXCEPT !.password = "own", !.mustChange = FALSE])

\* The body is malformed, a statement fails (SQLITE_BUSY), the process is killed.
Abort(p) ==
  /\ Busy(p)
  /\ work' = [work EXCEPT ![p] = Idle]
  /\ UNCHANGED <<user, requests>>

-----------------------------------------------------------------------------

Route(s) == PatchUser(s) \/ ResetRoute(s) \/ DeleteRoute(s) \/ CreateRoute(s) \/ OwnPasswordRoute(s)

Method(p) == Check(p) \/ Refuse(p) \/ updateUser(p) \/ resetPassword(p) \/ deleteUser(p)

Next ==
  \/ \E s \in Slots : Route(s) \/ createUser(s) \/ changeOwnPassword(s)
  \/ \E c \in Clis : CliCommand(c)
  \/ \E p \in Procs : Method(p) \/ Abort(p)

Spec == Init /\ [][Next]_vars

-----------------------------------------------------------------------------
(* Properties.                                                             *)

TypeOK ==
  /\ user \in [Users -> {Unborn, Deleted} \cup Row]
  /\ work \in [Procs -> {Idle} \cup Work]
  /\ requests \in 0..MaxRequests

\* README.md:226-227, "the last active owner cannot be removed": whatever
\* owners ask for at the same time, one of them is left.
AnOwnerRemains == ActiveOwners # {}

\* The process that made this step's write.
Writer(p) == Busy(p) /\ ~Busy(p)'

\* README.md:225-226, "admins manage only operator/viewer (never a peer admin or
\* owner)": an admin or owner is changed by itself or by an owner only, even if
\* it was promoted while the request of another admin was waiting.
PeersUntouched ==
  [][\A u \in Users :
       Present(u) /\ user[u].role \in ManagerRoles /\ user'[u] # user[u]
         => \E p \in Procs : Writer(p) /\ (work[p].by = u \/ work[p].rank = "owner")]_vars

\* A write brings nothing back that another write has changed in between: a
\* demotion is not undone by whoever enables the user, nor a disable by
\* whoever changes the role.
NothingBroughtBack ==
  [][\A u \in Users :
       Present(u) /\ Present(u)'
         => \E p \in Procs :
              /\ user'[u].role # user[u].role => Writer(p) /\ work[p].change.role = user'[u].role
              /\ user'[u].status # user[u].status => Writer(p) /\ work[p].change.status = user'[u].status]_vars

\* store.ts:205-208 and 287-290, whoever else is in the store: nobody becomes an owner, or
\* is deleted, but by what was asked for as an owner; and nobody deletes himself.
OwnersDecide ==
  [][\A u \in Users :
       /\ Present(u)' /\ user'[u].role = "owner" /\ ~(Present(u) /\ user[u].role = "owner")
            => \E p \in Procs : Writer(p) /\ work[p].rank = "owner"
       /\ Present(u) /\ ~Present(u)'
            => \E p \in Procs : Writer(p) /\ work[p].rank = "owner" /\ work[p].by # u]_vars
=============================================================================

------------------------- MODULE AdminUsers_proofs -------------------------
(***************************************************************************)
(* The safety properties of AdminUsers for any number of users, requests   *)
(* and CLI processes: those that hold when no process enters the store     *)
(* while another one is inside a method, and those that hold in any order. *)
(***************************************************************************)
EXTENDS AdminUsers, FiniteSetTheorems, TLAPS

\* No process enters the store while another one is inside a method: the API alone
\* sees to that, as its methods do not await, whatever is assumed of `ct admin users`.
TakeTurns == Serial \/ Clis = {}

Table == [Users -> {Unborn, Deleted} \cup Row]

\* Whoever is inside a method is there alone, and what it has seen is so still.
Inside(p) == Busy(p) /\ work[p].phase = "checked"

AloneAndCurrent ==
  \A p \in Procs : Inside(p) =>
    /\ \A q \in Procs : Inside(q) => q = p
    /\ OnTarget(p) /\ Passes(p)
    /\ work[p].seen = user[work[p].target]

\* A user is created with a role.
NamedRoles == \A p \in Procs : Busy(p) /\ work[p].op = "create" => work[p].change.role \in AllRoles

Inv == TypeOK /\ AnOwnerRemains /\ AloneAndCurrent /\ NamedRoles

-----------------------------------------------------------------------------
(* The table.                                                              *)

\* A user who is present has a row.
LEMMA PresentRow ==
  ASSUME user \in Table, NEW u \in Users, Present(u)
  PROVE  user[u] \in Row
BY DEF Table, Present, Unborn, Deleted

\* The active owners are users.
LEMMA ActiveOwnersSubset == ActiveOwners \subseteq Users
BY DEF ActiveOwners

\* If more than one active owner is counted, there is one beside any given user.
LEMMA AnotherOwner ==
  ASSUME ownerCount > 1, NEW u \in Users
  PROVE  \E o \in ActiveOwners : o # u
<1>1. IsFiniteSet(ActiveOwners)
  BY ActiveOwnersSubset, ProcessAssumption, FS_Subset
<1>2. SUFFICES ASSUME ActiveOwners \subseteq {u} PROVE FALSE
  OBVIOUS
<1>3. IsFiniteSet({u}) /\ Cardinality({u}) = 1
  BY FS_Singleton
<1>4. Cardinality(ActiveOwners) <= Cardinality({u})
  BY <1>2, <1>3, FS_Subset
<1>5. Cardinality(ActiveOwners) \in Nat
  BY <1>1, FS_CardinalityType
<1> QED
  BY <1>3, <1>4, <1>5 DEF ownerCount

\* An UPDATE keeps the row a row.
LEMMA UpdatedType ==
  ASSUME NEW row \in Row, NEW change \in Change
  PROVE  Updated(row, change) \in Row
BY DEF Updated, Row, Change

\* Replacing the row of one user leaves an active owner, if the guard lets it.
LEMMA OwnerStays ==
  ASSUME user \in Table, AnOwnerRemains, NEW u \in Users,
         NEW next \in {Deleted} \cup Row,
         assertLastOwnerPreserved(user[u], next),
         user' = [user EXCEPT ![u] = next]
  PROVE  AnOwnerRemains'
<1>1. SUFFICES \E o \in Users : (Present(o) /\ user[o].role = "owner" /\ user[o].status = "active")'
  BY DEF AnOwnerRemains, ActiveOwners
<1>2. ASSUME NEW o \in ActiveOwners, o # u
      PROVE  (Present(o) /\ user[o].role = "owner" /\ user[o].status = "active")' /\ o \in Users
  BY <1>2 DEF ActiveOwners, Table, Present
<1>3. CASE user[u].role # "owner" \/ user[u].status # "active"
  BY <1>2, <1>3 DEF AnOwnerRemains, ActiveOwners
<1>4. CASE next # Deleted /\ next.role = "owner" /\ next.status = "active"
  BY <1>4 DEF Table, Present, Row
<1>5. CASE ownerCount > 1
  BY <1>2, <1>5, AnotherOwner
<1> QED
  BY <1>3, <1>4, <1>5 DEF assertLastOwnerPreserved

\* What a process may do depends on its request and on the table alone.
LEMMA PassesStays ==
  ASSUME user' = user, NEW q \in Procs,
         work'[q].op = work[q].op, work'[q].by = work[q].by, work'[q].rank = work[q].rank,
         work'[q].target = work[q].target, work'[q].change = work[q].change
  PROVE  Passes(q)' <=> Passes(q)
<1>1. \A u : Present(u)' <=> Present(u)
  BY DEF Present
<1>2. ActiveOwners' = ActiveOwners
  BY <1>1 DEF ActiveOwners
<1>3. ownerCount' = ownerCount
  BY <1>2 DEF ownerCount
<1>4. \A target, next : assertLastOwnerPreserved(target, next)' <=> assertLastOwnerPreserved(target, next)
  BY <1>3 DEF assertLastOwnerPreserved
<1>5. \A target : Permits(work[q], target)' <=> Permits(work[q], target)
  BY <1>4 DEF Permits
<1> QED
  BY <1>1, <1>5 DEF Passes

-----------------------------------------------------------------------------
(* The invariant.                                                          *)

LEMMA InitInv == Init => Inv
<1> SUFFICES ASSUME Init PROVE Inv
  OBVIOUS
<1>1. user \in Table
  BY RolesAssumption DEF Init, Table, Row
<1>2. TypeOK
  BY <1>1, ProcessAssumption DEF Init, TypeOK, Table
<1>3. AnOwnerRemains
  BY DEF Init, AnOwnerRemains
<1>4. AloneAndCurrent
  BY DEF Init, AloneAndCurrent, Inside, Busy
<1>5. NamedRoles
  BY DEF Init, NamedRoles, Busy
<1> QED
  BY <1>2, <1>3, <1>4, <1>5 DEF Inv

\* Every route of the API and every command of the CLI.
LEMMA AcceptInv ==
  ASSUME Inv, NEW p \in Procs, NEW op \in {"update", "reset", "delete", "create", "own"},
         NEW a \in Users, NEW t \in Users, NEW change \in Change,
         op = "create" => change.role \in AllRoles,
         Present(a), Accept(p, op, a, t, change)
  PROVE  Inv'
<1> DEFINE w == [phase |-> "admitted", op |-> op, by |-> a, rank |-> user[a].role,
                 target |-> t, change |-> change, seen |-> user[a]]
<1>1. user \in Table /\ work \in [Procs -> {Idle} \cup Work]
  BY DEF Inv, TypeOK, Table
<1>2. user[a] \in Row
  BY <1>1, PresentRow
<1>3. w \in Work
  BY <1>2 DEF Work, Row
<1>4. work' = [work EXCEPT ![p] = w] /\ UNCHANGED user
  BY DEF Accept
<1>5. TypeOK'
  BY <1>1, <1>3, <1>4, ProcessAssumption DEF Accept, Inv, TypeOK
<1>6. AnOwnerRemains'
  BY <1>4 DEF Inv, AnOwnerRemains, ActiveOwners, Present
<1>7. AloneAndCurrent'
  <2>1. \A q \in Procs : Inside(q)' => q # p /\ Inside(q) /\ work'[q] = work[q]
    BY <1>1, <1>4 DEF Inside, Busy
  <2>2. \A q \in Procs : Inside(q)' => (Passes(q)' <=> Passes(q))
    BY <2>1, <1>4, PassesStays
  <2> QED
    BY <1>4, <2>1, <2>2 DEF Inv, AloneAndCurrent, OnTarget
<1>8. NamedRoles'
  BY <1>1, <1>4 DEF Inv, NamedRoles, Busy
<1> QED
  BY <1>5, <1>6, <1>7, <1>8 DEF Inv

\* A process that gives up, or is refused, leaves the table alone.
LEMMA LeaveInv ==
  ASSUME Inv, NEW p \in Procs, UNCHANGED <<user, requests>>, work' = [work EXCEPT ![p] = Idle]
  PROVE  Inv'
<1>1. work \in [Procs -> {Idle} \cup Work]
  BY DEF Inv, TypeOK
<1>2. TypeOK'
  BY <1>1 DEF Inv, TypeOK
<1>3. AnOwnerRemains'
  BY DEF Inv, AnOwnerRemains, ActiveOwners, Present
<1>4. \A q \in Procs : Inside(q)' => Inside(q) /\ work'[q] = work[q]
  BY <1>1 DEF Inside, Busy
<1>5. \A q \in Procs : Inside(q)' => (Passes(q)' <=> Passes(q))
  BY <1>4, PassesStays
<1>6. AloneAndCurrent'
  BY <1>4, <1>5 DEF Inv, AloneAndCurrent, OnTarget
<1>7. NamedRoles'
  BY <1>1 DEF Inv, NamedRoles, Busy
<1> QED
  BY <1>2, <1>3, <1>6, <1>7 DEF Inv

\* A process whose turn it is finds nobody else inside a method.
LEMMA TurnAlone ==
  ASSUME TakeTurns, NEW p \in Procs, Turn(p), NEW q \in Procs, Inside(q)
  PROVE  q = p
BY DEF TakeTurns, Turn, Inside

\* The SELECTs and the guards of a method.
LEMMA CheckInv ==
  ASSUME Inv, TakeTurns, NEW p \in Procs, Check(p)
  PROVE  Inv'
<1>1. work \in [Procs -> {Idle} \cup Work] /\ user \in Table
  BY DEF Inv, TypeOK, Table
<1>2. work[p] \in Work /\ Turn(p) /\ OnTarget(p) /\ Passes(p) /\ user' = user
  BY <1>1 DEF Check, Admitted, Busy
<1>3. work[p].target \in Users /\ user[work[p].target] \in Row
  BY <1>1, <1>2, PresentRow DEF Passes, Work
<1> DEFINE w == [work[p] EXCEPT !.phase = "checked", !.seen = user[work[p].target]]
<1>4. work' = [work EXCEPT ![p] = w]
  BY <1>1, <1>2 DEF Check, Work
<1>5. w \in Work /\ w.target = work[p].target /\ w.op = work[p].op /\ w.rank = work[p].rank
        /\ w.by = work[p].by /\ w.change = work[p].change /\ w.seen = user[work[p].target]
  BY <1>2, <1>3 DEF Work
<1>6. TypeOK'
  BY <1>1, <1>4, <1>5 DEF Inv, TypeOK, Check
<1>7. AnOwnerRemains'
  BY <1>2 DEF Inv, AnOwnerRemains, ActiveOwners, Present
<1>8. AloneAndCurrent'
  <2> HIDE DEF w
  <2>1. work'[p] = w
    BY <1>1, <1>4
  <2>2. \A q \in Procs : Inside(q)' => q = p
    BY <1>1, <1>2, <1>4, TurnAlone DEF Inside, Busy
  <2>3. Passes(p)' /\ OnTarget(p)' /\ work'[p].seen = user'[work'[p].target]
    BY <1>2, <1>5, <2>1, PassesStays DEF OnTarget
  <2> QED
    BY <2>2, <2>3 DEF AloneAndCurrent
<1>9. NamedRoles'
  BY <1>1, <1>4, <1>5 DEF Inv, NamedRoles, Busy, Check, Admitted
<1> QED
  BY <1>6, <1>7, <1>8, <1>9 DEF Inv

\* A write, by a process that has its turn, over a row whose loss the guard on
\* the last owner lets through.
LEMMA WriteInv ==
  ASSUME Inv, TakeTurns, NEW p \in Procs, Turn(p), NEW u \in Users, NEW row \in {Deleted} \cup Row,
         Present(u) => assertLastOwnerPreserved(user[u], row), Write(p, u, row)
  PROVE  Inv'
<1>1. work \in [Procs -> {Idle} \cup Work] /\ user \in Table
  BY DEF Inv, TypeOK, Table
<1>2. work' = [work EXCEPT ![p] = Idle] /\ requests' = requests
  BY DEF Write
<1>3. TypeOK'
  BY <1>1, <1>2 DEF Inv, TypeOK, Table, Write
<1>4. AnOwnerRemains'
  <2>1. CASE Present(u)
    BY <1>1, <2>1, OwnerStays DEF Write, Inv
  <2>2. CASE ~Present(u)
    BY <2>2 DEF Write, Inv, AnOwnerRemains, ActiveOwners, Present
  <2> QED
    BY <2>1, <2>2
<1>5. \A q \in Procs : ~Inside(q)'
  BY <1>1, <1>2, TurnAlone DEF Inside, Busy
<1>6. NamedRoles'
  BY <1>1, <1>2 DEF Inv, NamedRoles, Busy
<1> QED
  BY <1>3, <1>4, <1>5, <1>6 DEF Inv, AloneAndCurrent

\* What a process inside a method has seen is its target's row, and its guard
\* holds of it.
LEMMA InsideFacts ==
  ASSUME Inv, NEW p \in Procs, Checked(p)
  PROVE  /\ user \in Table /\ work[p] \in Work /\ Turn(p)
         /\ work[p].target \in Users /\ Present(work[p].target)
         /\ user[work[p].target] \in Row /\ work[p].seen = user[work[p].target]
         /\ Permits(work[p], user[work[p].target])
<1>1. user \in Table /\ work[p] \in Work /\ Turn(p) /\ Inside(p)
  BY DEF Inv, TypeOK, Table, Checked, Busy, Inside
<1>2. Passes(p) /\ work[p].seen = user[work[p].target] /\ work[p].target \in Users
  BY <1>1 DEF Inv, AloneAndCurrent, Work
<1> QED
  BY <1>1, <1>2, PresentRow DEF Passes

LEMMA UpdateInv ==
  ASSUME Inv, TakeTurns, NEW p \in Procs, updateUser(p)
  PROVE  Inv'
<1> DEFINE row == Updated(work[p].seen, work[p].change)
<1>1. Checked(p) /\ work[p].op = "update" /\ Write(p, work[p].target, row)
  BY DEF updateUser
<1>2. row \in Row
  BY <1>1, InsideFacts, UpdatedType DEF Work
<1>3. assertLastOwnerPreserved(user[work[p].target], row)
  BY <1>1, InsideFacts DEF Permits
<1> QED
  BY <1>1, <1>2, <1>3, InsideFacts, WriteInv

LEMMA ResetInv ==
  ASSUME Inv, TakeTurns, NEW p \in Procs, resetPassword(p)
  PROVE  Inv'
<1> DEFINE u == work[p].target
           row == [user[u] EXCEPT !.password = IF work[p].by = u THEN "own" ELSE "given",
                                  !.mustChange = TRUE]
<1>1. Checked(p) /\ Write(p, u, row)
  BY DEF resetPassword
<1>2. row \in Row /\ row.role = user[u].role /\ row.status = user[u].status /\ row # Deleted
  BY <1>1, InsideFacts DEF Row, Deleted
<1>3. assertLastOwnerPreserved(user[u], row)
  BY <1>2 DEF assertLastOwnerPreserved
<1> QED
  BY <1>1, <1>2, <1>3, InsideFacts, WriteInv

LEMMA DeleteInv ==
  ASSUME Inv, TakeTurns, NEW p \in Procs, deleteUser(p)
  PROVE  Inv'
<1>1. Checked(p) /\ work[p].op = "delete" /\ Write(p, work[p].target, Deleted)
  BY DEF deleteUser
<1>2. assertLastOwnerPreserved(user[work[p].target], Deleted)
  BY <1>1, InsideFacts DEF Permits
<1> QED
  BY <1>1, <1>2, InsideFacts, WriteInv

LEMMA CreateInv ==
  ASSUME Inv, TakeTurns, NEW s \in Procs, createUser(s)
  PROVE  Inv'
<1>1. PICK u \in Users : user[u] = Unborn
        /\ user' = [user EXCEPT ![u] =
             [row |-> "user", role |-> work[s].change.role, status |-> "active",
              mustChange |-> work[s].change.mustChange = "yes", password |-> "given"]]
  BY DEF createUser
<1>2. work' = [work EXCEPT ![s] = Idle] /\ requests' = requests
      /\ Turn(s) /\ Busy(s) /\ work[s].op = "create"
  BY DEF createUser, Admitted
<1>3. user \in Table /\ work \in [Procs -> {Idle} \cup Work] /\ work[s].change.role \in AllRoles
  BY <1>2 DEF Inv, TypeOK, Table, NamedRoles
<1>4. TypeOK'
  <2>1. user' \in Table
    BY <1>1, <1>3 DEF Table, Row
  <2> QED
    BY <1>2, <1>3, <2>1 DEF Inv, TypeOK, Table
<1>5. AnOwnerRemains'
  <2>1. \A o \in ActiveOwners : o # u /\ o \in Users /\ user'[o] = user[o]
    BY <1>1, <1>3 DEF ActiveOwners, Present, Unborn, Table
  <2> QED
    BY <2>1 DEF Inv, AnOwnerRemains, ActiveOwners, Present
<1>6. \A q \in Procs : ~Inside(q)'
  BY <1>2, <1>3, TurnAlone DEF Inside, Busy
<1>7. NamedRoles'
  BY <1>2, <1>3 DEF Inv, NamedRoles, Busy
<1> QED
  BY <1>4, <1>5, <1>6, <1>7 DEF Inv, AloneAndCurrent

LEMMA OwnPasswordInv ==
  ASSUME Inv, TakeTurns, NEW s \in Procs, changeOwnPassword(s)
  PROVE  Inv'
<1> DEFINE u == work[s].by
           row == [user[u] EXCEPT !.password = "own", !.mustChange = FALSE]
<1>1. Turn(s) /\ Busy(s) /\ Write(s, u, row)
  BY DEF changeOwnPassword, Admitted
<1>2. user \in Table /\ u \in Users
  BY <1>1 DEF Inv, TypeOK, Table, Busy, Work
<1>3. CASE Present(u)
  <2>1. row \in Row /\ row.role = user[u].role /\ row.status = user[u].status /\ row # Deleted
    BY <1>2, <1>3, PresentRow DEF Row, Deleted
  <2>2. assertLastOwnerPreserved(user[u], row)
    BY <2>1 DEF assertLastOwnerPreserved
  <2> QED
    BY <1>1, <1>2, <2>1, <2>2, WriteInv
<1>4. CASE ~Present(u)
  <2>1. Write(s, u, Deleted)
    BY <1>1, <1>4 DEF Write
  <2> QED
    BY <1>1, <1>2, <1>4, <2>1, WriteInv
<1> QED
  BY <1>3, <1>4

\* What a request may ask for.
LEMMA RequestTypes ==
  /\ Changes \subseteq Change /\ NoChange \in Change
  /\ \A role \in Roles, flag \in {"yes", "no"} :
       [role |-> role, status |-> "active", mustChange |-> flag] \in Change
BY RolesAssumption DEF Change, NoChange, AllRoles

LEMMA RouteInv ==
  ASSUME Inv, NEW s \in Slots, Route(s)
  PROVE  Inv'
<1>1. s \in Procs
  BY DEF Procs
<1>2. CASE PatchUser(s)
  BY <1>1, <1>2, AcceptInv, RequestTypes DEF PatchUser, Allowed, Signed
<1>3. CASE ResetRoute(s)
  BY <1>1, <1>3, AcceptInv, RequestTypes DEF ResetRoute, Allowed, Signed
<1>4. CASE DeleteRoute(s)
  BY <1>1, <1>4, AcceptInv, RequestTypes DEF DeleteRoute, Allowed, Signed
<1>5. CASE CreateRoute(s)
  <2>1. PICK a \in Users, role \in Roles, flag \in {"yes", "no"} :
          Allowed(a) /\ Accept(s, "create", a, a, [role |-> role, status |-> "active", mustChange |-> flag])
    BY <1>5 DEF CreateRoute
  <2> DEFINE change == [role |-> role, status |-> "active", mustChange |-> flag]
  <2>2. change \in Change /\ change.role \in AllRoles
    BY RequestTypes, RolesAssumption
  <2>3. Present(a)
    BY <2>1 DEF Allowed, Signed
  <2> QED
    BY <1>1, <2>1, <2>2, <2>3, AcceptInv
<1>6. CASE OwnPasswordRoute(s)
  BY <1>1, <1>6, AcceptInv, RequestTypes DEF OwnPasswordRoute, Signed
<1> QED
  BY <1>2, <1>3, <1>4, <1>5, <1>6 DEF Route

LEMMA CommandInv ==
  ASSUME Inv, NEW c \in Clis, CliCommand(c)
  PROVE  Inv'
<1>1. c \in Procs
  BY DEF Procs
<1>2. \A a \in ActiveOwners : a \in Users /\ Present(a)
  BY DEF ActiveOwners
<1> QED
  BY <1>1, <1>2, AcceptInv, RequestTypes DEF CliCommand

\* Every step.
LEMMA StepInv ==
  ASSUME Inv, TakeTurns, [Next]_vars
  PROVE  Inv'
<1>1. ASSUME NEW s \in Slots, Route(s) \/ createUser(s) \/ changeOwnPassword(s)
      PROVE  Inv'
  BY <1>1, RouteInv, CreateInv, OwnPasswordInv DEF Procs
<1>2. ASSUME NEW c \in Clis, CliCommand(c)
      PROVE  Inv'
  BY <1>2, CommandInv
<1>3. ASSUME NEW p \in Procs, Method(p)
      PROVE  Inv'
  <2>1. CASE Refuse(p)
    BY <2>1, LeaveInv DEF Refuse
  <2> QED
    BY <1>3, <2>1, CheckInv, UpdateInv, ResetInv, DeleteInv DEF Method
<1>4. ASSUME NEW p \in Procs, Abort(p)
      PROVE  Inv'
  BY <1>4, LeaveInv DEF Abort
<1>5. CASE UNCHANGED vars
  <2>1. \A q \in Procs : (Passes(q)' <=> Passes(q))
    BY <1>5, PassesStays DEF vars
  <2>2. TypeOK' /\ AnOwnerRemains' /\ NamedRoles'
    BY <1>5 DEF vars, Inv, TypeOK, AnOwnerRemains, ActiveOwners, Present, NamedRoles, Busy
  <2>3. AloneAndCurrent'
    BY <1>5, <2>1 DEF vars, Inv, AloneAndCurrent, Inside, Busy, OnTarget
  <2> QED
    BY <2>2, <2>3 DEF Inv
<1> QED
  BY <1>1, <1>2, <1>3, <1>4, <1>5 DEF Next

\* When processes take turns in the store, the inductive invariant holds always.
THEOREM Invariance == ASSUME TakeTurns PROVE Spec => []Inv
<1>1. Inv /\ [Next]_vars => Inv'
  BY StepInv
<1> QED
  BY <1>1, InitInv, PTL DEF Spec

\* README.md:226-227, "the last active owner cannot be removed": as long as no
\* `ct admin users` runs between the SELECTs and the UPDATE of another process,
\* whatever the owners do to themselves and to each other, one of them is left.
THEOREM AnOwnerRemainsHolds == ASSUME TakeTurns PROVE Spec => []AnOwnerRemains
<1>1. Inv => AnOwnerRemains
  BY DEF Inv
<1> QED
  BY <1>1, Invariance, PTL

-----------------------------------------------------------------------------
(* What one write may do.                                                  *)

\* The step that changes a row is a write.
LEMMA WhoWrites ==
  ASSUME [Next]_vars, user' # user
  PROVE  \E p \in Procs :
           \/ updateUser(p) \/ resetPassword(p) \/ deleteUser(p)
           \/ p \in Slots /\ (createUser(p) \/ changeOwnPassword(p))
<1>1. \A s \in Slots : ~Route(s)
  BY DEF Route, PatchUser, ResetRoute, DeleteRoute, CreateRoute, OwnPasswordRoute, Accept
<1>2. \A c \in Clis : ~CliCommand(c)
  BY DEF CliCommand, Accept
<1>3. \A p \in Procs : ~Check(p) /\ ~Refuse(p) /\ ~Abort(p)
  BY DEF Check, Refuse, Abort
<1> QED
  BY <1>1, <1>2, <1>3 DEF Next, Method, vars, Procs

\* A write is the last step of its process.
LEMMA WriterIdle ==
  ASSUME Inv, NEW p \in Procs, NEW u, NEW row, Busy(p), Write(p, u, row)
  PROVE  Writer(p)
BY DEF Inv, TypeOK, Write, Writer, Busy

\* README.md:225-226, "admins manage only operator/viewer (never a peer admin or
\* owner)": whoever writes over an admin or an owner is an owner, or that user.
THEOREM PeersUntouchedHolds == ASSUME TakeTurns PROVE Spec => PeersUntouched
<1> DEFINE Untouched ==
      \A u \in Users :
        Present(u) /\ user[u].role \in ManagerRoles /\ user'[u] # user[u]
          => \E p \in Procs : Writer(p) /\ (work[p].by = u \/ work[p].rank = "owner")
<1>1. ASSUME Inv, [Next]_vars PROVE Untouched
  <2> SUFFICES ASSUME NEW u \in Users, Present(u), user[u].role \in ManagerRoles, user'[u] # user[u]
               PROVE  \E p \in Procs : Writer(p) /\ (work[p].by = u \/ work[p].rank = "owner")
    OBVIOUS
  <2>1. user \in Table
    BY <1>1 DEF Inv, TypeOK, Table
  <2>2. PICK p \in Procs : \/ updateUser(p) \/ resetPassword(p) \/ deleteUser(p)
                           \/ p \in Slots /\ (createUser(p) \/ changeOwnPassword(p))
    BY <1>1, WhoWrites
  <2>3. \A rank : canManageTarget(rank, user[u].role) => rank = "owner"
    BY DEF canManageTarget, ManagerRoles, Rank
  <2>4. CASE updateUser(p)
    <3>1. Checked(p) /\ Busy(p) /\ work[p].op = "update" /\ Writer(p)
      BY <1>1, <2>4, WriterIdle DEF updateUser, Checked
    <3>2. work[p].target = u
      BY <2>1, <2>4 DEF updateUser, Write, Table
    <3> QED
      BY <1>1, <2>3, <3>1, <3>2, InsideFacts DEF Permits
  <2>5. CASE resetPassword(p)
    <3>1. Checked(p) /\ Busy(p) /\ work[p].op = "reset" /\ Writer(p)
      BY <1>1, <2>5, WriterIdle DEF resetPassword, Checked
    <3>2. work[p].target = u
      BY <2>1, <2>5 DEF resetPassword, Write, Table
    <3> QED
      BY <1>1, <2>3, <3>1, <3>2, InsideFacts DEF Permits
  <2>6. CASE deleteUser(p)
    <3>1. Checked(p) /\ Busy(p) /\ work[p].op = "delete" /\ Writer(p)
      BY <1>1, <2>6, WriterIdle DEF deleteUser, Checked
    <3> QED
      BY <1>1, <3>1, InsideFacts DEF Permits
  <2>7. CASE createUser(p)
    BY <2>1, <2>7 DEF createUser, Present, Unborn, Table
  <2>8. CASE changeOwnPassword(p)
    <3>1. Writer(p)
      BY <1>1, <2>8, WriterIdle DEF changeOwnPassword, Admitted
    <3>2. work[p].by = u
      BY <2>1, <2>8 DEF changeOwnPassword, Write, Table
    <3> QED
      BY <3>1, <3>2
  <2> QED
    BY <2>2, <2>4, <2>5, <2>6, <2>7, <2>8
<1>2. Inv /\ [Next]_vars => [Untouched]_vars
  BY <1>1
<1> QED
  BY <1>2, Invariance, PTL DEF Spec, PeersUntouched

\* An UPDATE changes the columns that were asked for, to what was asked for.
LEMMA UpdatedChanges ==
  ASSUME NEW row \in Row, NEW change \in Change
  PROVE  /\ Updated(row, change).role # row.role => change.role = Updated(row, change).role
         /\ Updated(row, change).status # row.status => change.status = Updated(row, change).status
BY DEF Updated, Row, Change

\* The store's UPDATE of every column, the ones not asked for with the values read
\* before: with no other process between the read and the write, it changes a role
\* or a status only to what its own request names.
THEOREM NothingBroughtBackHolds == ASSUME TakeTurns PROVE Spec => NothingBroughtBack
<1> DEFINE Named(p, u) ==
             /\ user'[u].role # user[u].role => Writer(p) /\ work[p].change.role = user'[u].role
             /\ user'[u].status # user[u].status => Writer(p) /\ work[p].change.status = user'[u].status
           Kept == \A u \in Users : Present(u) /\ Present(u)' => \E p \in Procs : Named(p, u)
<1>1. ASSUME Inv, Next PROVE Kept
  <2> SUFFICES ASSUME NEW u \in Users, Present(u), Present(u)'
               PROVE  \E p \in Procs : Named(p, u)
    OBVIOUS
  <2>1. user \in Table /\ user[u] \in Row /\ work \in [Procs -> {Idle} \cup Work]
    BY <1>1, PresentRow DEF Inv, TypeOK, Table
  <2>2. CASE user'[u] = user[u]
    <3>1. PICK p : p \in Procs
      BY <1>1 DEF Next, Procs
    <3> QED
      BY <2>2, <3>1
  <2>3. CASE user'[u] # user[u]
    <3>1. PICK p \in Procs : \/ updateUser(p) \/ resetPassword(p) \/ deleteUser(p)
                             \/ p \in Slots /\ (createUser(p) \/ changeOwnPassword(p))
      BY <1>1, <2>3, WhoWrites
    <3>2. CASE updateUser(p)
      <4>1. Checked(p) /\ Busy(p) /\ Writer(p)
        BY <1>1, <3>2, WriterIdle DEF updateUser, Checked
      <4>2. work[p].target = u
        BY <2>1, <2>3, <3>2 DEF updateUser, Write, Table
      <4>3. work[p].seen = user[u]
        BY <1>1, <4>1, <4>2, InsideFacts
      <4>4. user'[u] = Updated(user[u], work[p].change)
        BY <2>1, <3>2, <4>2, <4>3 DEF updateUser, Write, Table
      <4>5. work[p].change \in Change
        BY <2>1, <4>1 DEF Busy, Work
      <4> QED
        BY <2>1, <4>1, <4>4, <4>5, UpdatedChanges
    <3>3. CASE resetPassword(p)
      <4>1. PICK row \in {user[u]} \cup {[user[u] EXCEPT !.password = w, !.mustChange = TRUE] : w \in {"own", "given"}} :
              user'[u] = row
        BY <2>1, <3>3 DEF resetPassword, Write, Table
      <4>2. user'[u].role = user[u].role /\ user'[u].status = user[u].status
        BY <2>1, <4>1 DEF Row
      <4> QED
        BY <4>2
    <3>4. CASE deleteUser(p)
      BY <2>1, <2>3, <3>4 DEF deleteUser, Write, Table, Present, Deleted
    <3>5. CASE createUser(p)
      BY <2>1, <2>3, <3>5 DEF createUser, Present, Unborn, Table
    <3>6. CASE changeOwnPassword(p)
      <4>1. user'[u] \in {user[u], [user[u] EXCEPT !.password = "own", !.mustChange = FALSE]}
        BY <2>1, <3>6 DEF changeOwnPassword, Write, Table
      <4>2. user'[u].role = user[u].role /\ user'[u].status = user[u].status
        BY <2>1, <4>1 DEF Row
      <4> QED
        BY <4>2
    <3> QED
      BY <3>1, <3>2, <3>3, <3>4, <3>5, <3>6
  <2> QED
    BY <2>2, <2>3
<1>2. Inv /\ [Next]_vars => [Kept]_vars
  BY <1>1
<1> QED
  BY <1>2, Invariance, PTL DEF Spec, NothingBroughtBack

-----------------------------------------------------------------------------
(* In any order.  A process inside a method may find the row changed below *)
(* it, but what its guards have looked at is what it has seen.             *)

\* What the guards have let through, whatever the row is by now.
LetThrough ==
  \A p \in Procs : Inside(p) =>
    /\ OnTarget(p)
    /\ work[p].op = "update" =>
         (Updated(work[p].seen, work[p].change).role = "owner" => work[p].rank = "owner")
    /\ work[p].op = "delete" => work[p].rank = "owner" /\ work[p].by # work[p].target

AnyOrder == TypeOK /\ NamedRoles /\ LetThrough

LEMMA AnyOrderInit == Init => AnyOrder
<1>1. Init => LetThrough
  BY DEF Init, LetThrough, Inside, Busy
<1> QED BY <1>1, InitInv DEF Inv, AnyOrder

\* A step that leaves the processes inside a method, apart from `p`, as they are.
LEMMA AnyOrderWork ==
  ASSUME AnyOrder, TypeOK', NEW p \in Procs, NEW w \in {Idle} \cup Work,
         work' = [work EXCEPT ![p] = w],
         w # Idle /\ w.op = "create" => w.change.role \in AllRoles,
         w = Idle \/ w.phase = "admitted"
  PROVE  AnyOrder'
<1>1. work \in [Procs -> {Idle} \cup Work]
  BY DEF AnyOrder, TypeOK
<1>2. \A q \in Procs : Inside(q)' => Inside(q) /\ work'[q] = work[q]
  BY <1>1 DEF Inside, Busy
<1>3. LetThrough'
  BY <1>2 DEF AnyOrder, LetThrough, OnTarget
<1>4. NamedRoles'
  BY <1>1 DEF AnyOrder, NamedRoles, Busy
<1> QED BY <1>3, <1>4 DEF AnyOrder

LEMMA AnyOrderAccept ==
  ASSUME AnyOrder, NEW p \in Procs, NEW op \in {"update", "reset", "delete", "create", "own"},
         NEW a \in Users, NEW t \in Users, NEW change \in Change,
         op = "create" => change.role \in AllRoles,
         Present(a), Accept(p, op, a, t, change)
  PROVE  AnyOrder'
<1> DEFINE w == [phase |-> "admitted", op |-> op, by |-> a, rank |-> user[a].role,
                 target |-> t, change |-> change, seen |-> user[a]]
<1>1. user \in Table /\ work \in [Procs -> {Idle} \cup Work]
  BY DEF AnyOrder, TypeOK, Table
<1>2. user[a] \in Row
  BY <1>1, PresentRow
<1>3. w \in Work
  BY <1>2 DEF Work, Row
<1>4. work' = [work EXCEPT ![p] = w] /\ UNCHANGED user
  BY DEF Accept
<1>5. TypeOK'
  BY <1>1, <1>3, <1>4, ProcessAssumption DEF Accept, AnyOrder, TypeOK
<1> QED BY <1>3, <1>4, <1>5, AnyOrderWork

LEMMA AnyOrderCheck ==
  ASSUME AnyOrder, NEW p \in Procs, Check(p)
  PROVE  AnyOrder'
<1>1. work \in [Procs -> {Idle} \cup Work] /\ user \in Table
  BY DEF AnyOrder, TypeOK, Table
<1>2. work[p] \in Work /\ OnTarget(p) /\ Passes(p) /\ user' = user /\ requests' = requests
  BY <1>1 DEF Check, Admitted, Busy
<1>3. work[p].target \in Users /\ user[work[p].target] \in Row
  BY <1>1, <1>2, PresentRow DEF Passes, Work
<1> DEFINE w == [work[p] EXCEPT !.phase = "checked", !.seen = user[work[p].target]]
<1>4. work' = [work EXCEPT ![p] = w]
  BY <1>1, <1>2 DEF Check, Work
<1>5. w \in Work /\ w.target = work[p].target /\ w.op = work[p].op /\ w.rank = work[p].rank
        /\ w.by = work[p].by /\ w.change = work[p].change /\ w.seen = user[work[p].target]
  BY <1>2, <1>3 DEF Work
<1> HIDE DEF w
<1>6. TypeOK'
  BY <1>1, <1>2, <1>4, <1>5 DEF AnyOrder, TypeOK
<1>7. LetThrough'
  <2>1. work'[p] = w
    BY <1>1, <1>4
  <2>2. \A q \in Procs : q # p /\ Inside(q)' => Inside(q) /\ work'[q] = work[q]
    BY <1>1, <1>4 DEF Inside, Busy
  <2>3. ASSUME NEW q \in Procs, Inside(q)', q # p
        PROVE  /\ OnTarget(q)'
               /\ work'[q].op = "update" =>
                    (Updated(work'[q].seen, work'[q].change).role = "owner"
                       => work'[q].rank = "owner")
               /\ work'[q].op = "delete" => work'[q].rank = "owner" /\ work'[q].by # work'[q].target
    BY <2>2, <2>3 DEF AnyOrder, LetThrough, OnTarget
  <2>4. Permits(work[p], user[work[p].target])
    BY <1>2 DEF Passes
  <2>5. /\ OnTarget(p)'
        /\ w.op = "update" => (Updated(w.seen, w.change).role = "owner" => w.rank = "owner")
        /\ w.op = "delete" => w.rank = "owner" /\ w.by # w.target
    BY <1>2, <1>5, <2>1, <2>4 DEF OnTarget, Permits
  <2> QED BY <2>1, <2>3, <2>5 DEF LetThrough
<1>8. NamedRoles'
  BY <1>1, <1>4, <1>5 DEF AnyOrder, NamedRoles, Busy, Check, Admitted
<1> QED
  BY <1>6, <1>7, <1>8 DEF AnyOrder

LEMMA AnyOrderWrite ==
  ASSUME AnyOrder, NEW p \in Procs, NEW u \in Users, NEW row \in {Deleted} \cup Row,
         Write(p, u, row)
  PROVE  AnyOrder'
<1>1. user \in Table /\ work \in [Procs -> {Idle} \cup Work]
  BY DEF AnyOrder, TypeOK, Table
<1>2. work' = [work EXCEPT ![p] = Idle] /\ requests' = requests
  BY DEF Write
<1>3. TypeOK'
  BY <1>1, <1>2 DEF AnyOrder, TypeOK, Table, Write
<1> QED BY <1>2, <1>3, AnyOrderWork

\* The row a reset or a change of the own password is written over may be gone.
LEMMA AnyOrderKeepsRow ==
  ASSUME AnyOrder, NEW p \in Procs, NEW u \in Users, NEW row, Write(p, u, row),
         Present(u) => row \in Row
  PROVE  AnyOrder'
<1>1. CASE Present(u)
  BY <1>1, AnyOrderWrite
<1>2. CASE ~Present(u)
  <2>1. Write(p, u, Deleted)
    BY <1>2 DEF Write
  <2> QED BY <2>1, AnyOrderWrite
<1> QED BY <1>1, <1>2

LEMMA AnyOrderMethod ==
  ASSUME AnyOrder, NEW p \in Procs, updateUser(p) \/ resetPassword(p) \/ deleteUser(p)
  PROVE  AnyOrder'
<1>1. user \in Table /\ work[p] \in Work /\ work[p].target \in Users
  BY DEF AnyOrder, TypeOK, Table, updateUser, resetPassword, deleteUser, Checked, Busy, Work
<1>2. CASE updateUser(p)
  <2>1. Updated(work[p].seen, work[p].change) \in Row
    BY <1>1, UpdatedType DEF Work
  <2> QED BY <1>1, <1>2, <2>1, AnyOrderWrite DEF updateUser
<1>3. CASE resetPassword(p)
  <2> DEFINE u == work[p].target
             row == [user[u] EXCEPT !.password = IF work[p].by = u THEN "own" ELSE "given",
                                    !.mustChange = TRUE]
  <2>1. Present(u) => row \in Row
    BY <1>1, PresentRow DEF Row
  <2>2. Write(p, u, row)
    BY <1>3 DEF resetPassword
  <2> HIDE DEF row
  <2> QED BY <1>1, <2>1, <2>2, AnyOrderKeepsRow
<1>4. CASE deleteUser(p)
  BY <1>1, <1>4, AnyOrderWrite DEF deleteUser
<1> QED BY <1>2, <1>3, <1>4

LEMMA AnyOrderCreate ==
  ASSUME AnyOrder, NEW s \in Procs, createUser(s)
  PROVE  AnyOrder'
<1>1. PICK u \in Users : user[u] = Unborn
        /\ user' = [user EXCEPT ![u] =
             [row |-> "user", role |-> work[s].change.role, status |-> "active",
              mustChange |-> work[s].change.mustChange = "yes", password |-> "given"]]
  BY DEF createUser
<1>2. work' = [work EXCEPT ![s] = Idle] /\ requests' = requests /\ Busy(s) /\ work[s].op = "create"
  BY DEF createUser, Admitted
<1>3. user \in Table /\ work \in [Procs -> {Idle} \cup Work] /\ work[s].change.role \in AllRoles
  BY <1>2 DEF AnyOrder, TypeOK, Table, NamedRoles
<1>4. user' \in Table
  BY <1>1, <1>3 DEF Table, Row
<1>5. TypeOK'
  BY <1>2, <1>3, <1>4 DEF AnyOrder, TypeOK, Table
<1> QED BY <1>2, <1>5, AnyOrderWork

LEMMA AnyOrderOwnPassword ==
  ASSUME AnyOrder, NEW s \in Procs, changeOwnPassword(s)
  PROVE  AnyOrder'
<1> DEFINE u == work[s].by
           row == [user[u] EXCEPT !.password = "own", !.mustChange = FALSE]
<1>1. Busy(s) /\ Write(s, u, row)
  BY DEF changeOwnPassword, Admitted
<1>2. user \in Table /\ u \in Users
  BY <1>1 DEF AnyOrder, TypeOK, Table, Busy, Work
<1>3. Present(u) => row \in Row
  BY <1>2, PresentRow DEF Row
<1> HIDE DEF row
<1> QED BY <1>1, <1>2, <1>3, AnyOrderKeepsRow

LEMMA AnyOrderRequest ==
  ASSUME AnyOrder, NEW p \in Procs, Route(p) \/ CliCommand(p)
  PROVE  AnyOrder'
<1>1. CASE PatchUser(p)
  BY <1>1, AnyOrderAccept, RequestTypes DEF PatchUser, Allowed, Signed
<1>2. CASE ResetRoute(p)
  BY <1>2, AnyOrderAccept, RequestTypes DEF ResetRoute, Allowed, Signed
<1>3. CASE DeleteRoute(p)
  BY <1>3, AnyOrderAccept, RequestTypes DEF DeleteRoute, Allowed, Signed
<1>4. CASE CreateRoute(p)
  <2>1. PICK a \in Users, role \in Roles, flag \in {"yes", "no"} :
          Allowed(a) /\ Accept(p, "create", a, a, [role |-> role, status |-> "active", mustChange |-> flag])
    BY <1>4 DEF CreateRoute
  <2> DEFINE change == [role |-> role, status |-> "active", mustChange |-> flag]
  <2>2. change \in Change /\ change.role \in AllRoles
    BY RequestTypes, RolesAssumption
  <2> QED BY <2>1, <2>2, AnyOrderAccept DEF Allowed, Signed
<1>5. CASE OwnPasswordRoute(p)
  BY <1>5, AnyOrderAccept, RequestTypes DEF OwnPasswordRoute, Signed
<1>6. CASE CliCommand(p)
  <2>1. \A a \in ActiveOwners : a \in Users /\ Present(a)
    BY DEF ActiveOwners
  <2> QED BY <1>6, <2>1, AnyOrderAccept, RequestTypes DEF CliCommand
<1> QED BY <1>1, <1>2, <1>3, <1>4, <1>5, <1>6 DEF Route

LEMMA AnyOrderStep == AnyOrder /\ [Next]_vars => AnyOrder'
<1> SUFFICES ASSUME AnyOrder, [Next]_vars PROVE AnyOrder'
  OBVIOUS
<1>1. ASSUME NEW s \in Slots, Route(s) \/ createUser(s) \/ changeOwnPassword(s)
      PROVE  AnyOrder'
  BY <1>1, AnyOrderRequest, AnyOrderCreate, AnyOrderOwnPassword DEF Procs
<1>2. ASSUME NEW c \in Clis, CliCommand(c)
      PROVE  AnyOrder'
  BY <1>2, AnyOrderRequest DEF Procs
<1>3. ASSUME NEW p \in Procs, Refuse(p) \/ Abort(p)
      PROVE  AnyOrder'
  <2>1. UNCHANGED <<user, requests>> /\ work' = [work EXCEPT ![p] = Idle]
    BY <1>3 DEF Refuse, Abort
  <2>2. TypeOK'
    BY <2>1 DEF AnyOrder, TypeOK
  <2> QED BY <2>1, <2>2, AnyOrderWork
<1>4. ASSUME NEW p \in Procs, Method(p)
      PROVE  AnyOrder'
  BY <1>3, <1>4, AnyOrderCheck, AnyOrderMethod DEF Method
<1>5. CASE UNCHANGED vars
  BY <1>5 DEF vars, AnyOrder, TypeOK, NamedRoles, LetThrough, Inside, Busy, OnTarget
<1> QED
  BY <1>1, <1>2, <1>3, <1>4, <1>5 DEF Next

\* However the API and the commands interleave in the store, the variables keep
\* their types.
THEOREM TypeCorrect == Spec => []TypeOK
<1>1. AnyOrder => TypeOK
  BY DEF AnyOrder
<1> QED
  BY <1>1, AnyOrderInit, AnyOrderStep, PTL DEF Spec

\* However they interleave: nobody becomes an owner, or is deleted, but by a request
\* that was admitted from an owner, and nobody by his own.  The guards look at a row
\* that may have changed before the write, and still decide this.
THEOREM OwnersDecideHolds == Spec => OwnersDecide
<1> DEFINE Decided ==
      \A u \in Users :
        /\ Present(u)' /\ user'[u].role = "owner" /\ ~(Present(u) /\ user[u].role = "owner")
             => \E p \in Procs : Writer(p) /\ work[p].rank = "owner"
        /\ Present(u) /\ ~Present(u)'
             => \E p \in Procs : Writer(p) /\ work[p].rank = "owner" /\ work[p].by # u
<1>1. ASSUME AnyOrder, [Next]_vars PROVE Decided
  <2> SUFFICES ASSUME NEW u \in Users, user'[u] # user[u],
                      \/ /\ Present(u)' /\ user'[u].role = "owner"
                         /\ ~(Present(u) /\ user[u].role = "owner")
                      \/ Present(u) /\ ~Present(u)'
               PROVE  \E p \in Procs : /\ Writer(p) /\ work[p].rank = "owner"
                                       /\ Present(u) /\ ~Present(u)' => work[p].by # u
    BY DEF Present
  <2>1. user \in Table /\ work \in [Procs -> {Idle} \cup Work]
    BY <1>1 DEF AnyOrder, TypeOK, Table
  <2>2. PICK p \in Procs : \/ updateUser(p) \/ resetPassword(p) \/ deleteUser(p)
                           \/ p \in Slots /\ (createUser(p) \/ changeOwnPassword(p))
    BY <1>1, WhoWrites
  <2>3. ASSUME NEW v, NEW row, Busy(p), Write(p, v, row) PROVE Writer(p)
    BY <2>1, <2>3 DEF Write, Writer, Busy
  <2>4. CASE updateUser(p)
    <3> DEFINE row == Updated(work[p].seen, work[p].change)
    <3>1. Inside(p) /\ Busy(p) /\ work[p].op = "update" /\ Write(p, work[p].target, row)
      BY <2>4 DEF updateUser, Checked, Inside
    <3>2. row \in Row
      BY <2>1, <3>1, UpdatedType DEF Busy, Work
    <3> HIDE DEF row
    <3>3. user'[u] = row
      BY <2>1, <3>1 DEF Write, Table
    <3>4. Present(u)' /\ row.role = "owner"
      BY <3>2, <3>3 DEF Present, Row
    <3>5. work[p].rank = "owner"
      BY <1>1, <3>1, <3>4 DEF AnyOrder, LetThrough, row
    <3> QED BY <2>3, <3>1, <3>4, <3>5
  <2>5. CASE deleteUser(p)
    <3>1. Inside(p) /\ Busy(p) /\ work[p].op = "delete" /\ Write(p, work[p].target, Deleted)
      BY <2>5 DEF deleteUser, Checked, Inside
    <3>2. work[p].target = u
      BY <2>1, <3>1 DEF Write, Table
    <3>3. work[p].rank = "owner" /\ work[p].by # u
      BY <1>1, <3>1, <3>2 DEF AnyOrder, LetThrough
    <3> QED BY <2>3, <3>1, <3>3
  <2>6. CASE createUser(p)
    <3>1. Busy(p) /\ work' = [work EXCEPT ![p] = Idle]
          /\ (work[p].change.role = "owner" => work[p].rank = "owner")
      BY <2>6 DEF createUser, Admitted
    <3>2. user[u] = Unborn /\ Present(u)' /\ user'[u].role = work[p].change.role
      BY <2>1, <2>6 DEF createUser, Table, Present
    <3>3. Writer(p)
      BY <2>1, <3>1 DEF Writer, Busy
    <3> QED BY <3>1, <3>2, <3>3 DEF Present, Unborn
  <2>7. ASSUME NEW v \in Users, NEW row, Write(p, v, row),
               Present(v) => row \in Row /\ row.role = user[v].role
        PROVE  FALSE
    BY <2>1, <2>7 DEF Write, Table, Present, Row
  <2>8. CASE resetPassword(p)
    <3> DEFINE v == work[p].target
               row == [user[v] EXCEPT !.password = IF work[p].by = v THEN "own" ELSE "given",
                                      !.mustChange = TRUE]
    <3>1. v \in Users /\ Write(p, v, row)
      BY <2>1, <2>8 DEF resetPassword, Checked, Busy, Work
    <3>2. Present(v) => row \in Row /\ row.role = user[v].role
      BY <2>1, <3>1, PresentRow DEF Row
    <3> HIDE DEF row, v
    <3> QED BY <2>7, <3>1, <3>2
  <2>9. CASE changeOwnPassword(p)
    <3> DEFINE v == work[p].by
               row == [user[v] EXCEPT !.password = "own", !.mustChange = FALSE]
    <3>1. v \in Users /\ Write(p, v, row)
      BY <2>1, <2>9 DEF changeOwnPassword, Admitted, Busy, Work
    <3>2. Present(v) => row \in Row /\ row.role = user[v].role
      BY <2>1, <3>1, PresentRow DEF Row
    <3> HIDE DEF row, v
    <3> QED BY <2>7, <3>1, <3>2
  <2> QED BY <2>2, <2>4, <2>5, <2>6, <2>8, <2>9
<1>2. AnyOrder /\ [Next]_vars => [Decided]_vars
  BY <1>1
<1> QED
  BY <1>2, AnyOrderInit, AnyOrderStep, PTL DEF Spec, OwnersDecide
=============================================================================

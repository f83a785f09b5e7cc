-------------------------- MODULE DataPlane_proofs --------------------------
(***************************************************************************)
(* The two halves of the data plane together, for any accounts, UUIDs,     *)
(* settings, renders, restarts and crashes.  Each half was proved alone    *)
(* about any file (Supervisor) or any reader of it (RenderPipeline): here  *)
(* every step of the whole is shown to be a step of each, or a stutter,    *)
(* and what was proved about them is put together.                         *)
(***************************************************************************)
EXTENDS DataPlane, RenderPipeline_proofs, FiniteSetTheorems

\* The supervisor's half, with what is proved about it.
SupP == INSTANCE Supervisor_proofs WITH
  config <- OnDisk, OldKinds <- {"good"}, Kinds <- {"good"}

LEMMA SupervisorConstants ==
  /\ MaxSpawns \in Nat /\ MaxWrites \in Nat \ {0} /\ MaxRestarts \in Nat /\ MaxCrashes \in Nat
  /\ {"good"} \subseteq {"good", "legacy", "bad"} /\ {"good"} \subseteq {"good", "bad"}
BY DataPlaneAssumption, BoundAssumption DEF MaxWrites

-----------------------------------------------------------------------------
(* A step of the whole is a step of each half, or leaves it as it is.      *)

LEMMA SameSupervisor ==
  /\ Sup!Init <=> SupP!Init
  /\ Sup!Steps <=> SupP!Steps
  /\ Sup!ReplaceConfig <=> SupP!ReplaceConfig
  /\ Sup!vars = SupP!vars
  /\ Sup!TypeOK <=> SupP!TypeOK
<1>1. Sup!Init <=> SupP!Init
  BY Zenon DEF Sup!Init, SupP!Init, Sup!NoFile, SupP!NoFile, Sup!Dead, SupP!Dead,
     Sup!Children, SupP!Children, Sup!Waiting, SupP!Waiting
<1>2. Sup!Steps <=> SupP!Steps
  BY Zenon DEF Sup!Steps, SupP!Steps, Sup!Boot, SupP!Boot, Sup!Event, SupP!Event,
     Sup!Restart, SupP!Restart, Sup!Child, SupP!Child, Sup!BootPrepare,
     SupP!BootPrepare, Sup!BootSpawn, SupP!BootSpawn, Sup!BootWatch, SupP!BootWatch,
     Sup!BootPoll, SupP!BootPoll, Sup!DockerRestart, SupP!DockerRestart,
     Sup!BootTimeout, SupP!BootTimeout, Sup!WatchEvent, SupP!WatchEvent,
     Sup!WatchMiss, SupP!WatchMiss, Sup!PollTick, SupP!PollTick, Sup!TimerSkips,
     SupP!TimerSkips, Sup!TimerKills, SupP!TimerKills, Sup!KillDone, SupP!KillDone,
     Sup!ChildLoads, SupP!ChildLoads, Sup!ChildBinds, SupP!ChildBinds,
     Sup!ChildExits, SupP!ChildExits, Sup!ChildCrashes, SupP!ChildCrashes,
     Sup!ContainerRestart, SupP!ContainerRestart, Sup!Valid, SupP!Valid,
     Sup!SourceOf, SupP!SourceOf, Sup!CopyAfter, SupP!CopyAfter, Sup!Suspended,
     SupP!Suspended, Sup!Alive, SupP!Alive, Sup!Serving, SupP!Serving, Sup!Children,
     SupP!Children, Sup!NoFile, SupP!NoFile, Sup!Dead, SupP!Dead, Sup!Waiting,
     SupP!Waiting, Sup!Resumed, SupP!Resumed, Sup!spawnSingbox, SupP!spawnSingbox, Sup!vars, SupP!vars
<1>3. Sup!ReplaceConfig <=> SupP!ReplaceConfig
  BY Zenon DEF Sup!ReplaceConfig, SupP!ReplaceConfig
<1>4. Sup!vars = SupP!vars
  BY Zenon DEF Sup!vars, SupP!vars
<1>5. Sup!TypeOK <=> SupP!TypeOK
  BY Zenon DEF Sup!TypeOK, SupP!TypeOK, Sup!File, SupP!File, Sup!Versions,
     SupP!Versions, Sup!Sources, SupP!Sources, Sup!Children, SupP!Children
<1> QED BY <1>1, <1>2, <1>3, <1>4, <1>5

LEMMA InitSplits == InitAll => Init /\ SupP!Init
BY SameSupervisor DEF InitAll

\* A render that does not rename leaves the supervisor's half as it is, and the
\* supervisor writes nothing that the API reads.
LEMMA StepSplits ==
  [NextAll]_allVars => [Next]_vars /\ [SupP!Next]_(SupP!vars)
<1> SUFFICES ASSUME [NextAll]_allVars
             PROVE  [Next]_vars /\ [SupP!Next]_(SupP!vars)
  OBVIOUS
<1>1. UNCHANGED vars => writes' = writes
  BY DEF vars
<1>2. UNCHANGED supVars /\ raced' = raced /\ writes' = writes => UNCHANGED SupP!vars
  BY DEF supVars, SupP!vars, OnDisk
<1>3. CASE Render
  <2>1. Next /\ UNCHANGED supVars
    BY <1>3 DEF Render
  <2>2. CASE writes' # writes
    <3>1. SupP!ReplaceConfig
      BY <1>3, <2>2, SameSupervisor DEF Render
    <3> QED BY <2>1, <3>1 DEF SupP!Next
  <2>3. CASE writes' = writes
    <3>1. raced' = raced
      BY <1>3, <2>3 DEF Render
    <3> QED BY <1>2, <2>1, <2>3, <3>1
  <2> QED BY <2>2, <2>3
<1>4. CASE Supervise
  BY <1>4, SameSupervisor DEF Supervise, SupP!Next
<1>5. CASE UNCHANGED allVars
  BY <1>1, <1>2, <1>5 DEF allVars
<1> QED BY <1>3, <1>4, <1>5 DEF NextAll

-----------------------------------------------------------------------------
(* What follows for the whole.                                             *)

\* The variables of either half keep their types in the whole.
THEOREM WholeTypeCorrect == SpecAll => [](TypeOK /\ Sup!TypeOK)
<1>1. SupP!Init => SupP!Basics
  BY SupP!BasicsInit, SupervisorConstants
<1>2. SupP!Basics /\ [SupP!Next]_(SupP!vars) => SupP!Basics'
  BY SupP!BasicsStep, SupervisorConstants
<1>3. SupP!Basics => Sup!TypeOK
  BY SameSupervisor DEF SupP!Basics
<1>4. Inv => TypeOK
  BY DEF Inv
<1> QED
  BY <1>1, <1>2, <1>3, <1>4, InitInv, NextInv, InitSplits, StepSplits, PTL DEF SpecAll

\* The end of a change of an account, from the API's row to the server that clients
\* connect to: a container with nothing under way serves the file, and the file admits
\* whom the database admits, if the last render succeeded and overlapped no different
\* one.  What may stand between is a crash of the child, a restart callback overtaken
\* by another, or a render that came during the boot's own synchronous steps.
THEOREM ServesAsDbHolds == SpecAll => []ServesAsDb
<1> DEFINE Basis == SupP!Basics /\ SupP!Tracked /\ SupP!InPlace
<1>1. SupP!Init => Basis
  BY SupP!BasicsInit, SupP!TrackedInit, SupP!InPlaceInit, SupervisorConstants
<1>2. Basis /\ [SupP!Next]_(SupP!vars) => Basis'
  BY SupP!BasicsStep, SupP!TrackedStep, SupP!InPlaceStep, SupervisorConstants
<1>3. Basis /\ Inv => ServesAsDb
  <2> SUFFICES ASSUME Basis, Inv, Sup!Settled, latest.outcome = "done", Solo,
                      ~Sup!Crashed, Sup!Followed
               PROVE  Live /\ AdmitsAsDb(file)
    BY DEF ServesAsDb
  <2>1. Sup!Settled <=> SupP!Settled
    BY Zenon DEF Sup!Settled, SupP!Settled, Sup!Suspended, SupP!Suspended, Sup!Waiting,
       SupP!Waiting, Sup!Alive, SupP!Alive, Sup!Serving, SupP!Serving, Sup!Children, SupP!Children
  <2>2. (Sup!Crashed <=> SupP!Crashed) /\ (Sup!OnCurrentFile <=> SupP!OnCurrentFile)
    BY Zenon DEF Sup!Crashed, SupP!Crashed, Sup!OnCurrentFile, SupP!OnCurrentFile, Sup!Serving,
       SupP!Serving, Sup!Children, SupP!Children
  <2>3. SupP!Valid(OnDisk) /\ (Sup!Followed <=> SupP!Followed)
    <3>1. Sup!Overlapped <=> SupP!Overlapped
      BY Zenon DEF Sup!Overlapped, SupP!Overlapped, Sup!Suspended, SupP!Suspended, Sup!Waiting, SupP!Waiting
    <3> QED
      BY <3>1 DEF SupP!Valid, OnDisk, Sup!Followed, SupP!Followed
  <2>4. SupP!SettledServesFile
    BY SupP!InPlaceServes, SupervisorConstants
  <2>5. Live
    BY <2>1, <2>2, <2>3, <2>4 DEF SupP!SettledServesFile, Live
  <2>6. AdmitsAsDb(file)
    BY InvAdmits DEF SoloRenderMatchesDb
  <2> QED BY <2>5, <2>6
<1> HIDE DEF Basis
<1> QED
  BY <1>1, <1>2, <1>3, InitInv, NextInv, InitSplits, StepSplits, PTL DEF SpecAll

\* The whole takes the steps of LiveConfig, its versions being the renames of the
\* renders: whatever is rendered at once, restarted or crashes, clients are never
\* brought back to an older render than they were on, unless a restart callback has
\* overtaken another since the container started.
THEOREM NoRenderUndoneHolds == SpecAll => NoRenderUndone
<1> DEFINE Basis == SupP!Basics /\ SupP!Tracked /\ SupP!Order
<1>1. SupP!Init => Basis
  BY SupP!BasicsInit, SupP!TrackedInit, SupP!OrderInit, SupervisorConstants
<1>2. Basis /\ [SupP!Next]_(SupP!vars) => Basis'
  BY SupP!BasicsStep, SupP!TrackedStep, SupP!OrderStep, SupervisorConstants
<1>3. SupP!Init => Sup!Live!Init
  <2>1. SupP!Init => SupP!Live!Init
    BY SupP!OlderInit, SupervisorConstants
  <2> QED BY <2>1 DEF SupP!Live!Init, Sup!Live!Init, SupP!Serving, Sup!Serving, SupP!Children, Sup!Children
<1>4. Basis /\ [SupP!Next]_(SupP!vars) => [Sup!Live!Next \/ Sup!Overlapped]_(Sup!Live!vars)
  <2>1. Basis /\ [SupP!Next]_(SupP!vars) => [SupP!Live!Next \/ SupP!Overlapped]_(SupP!Live!vars)
    BY SupP!OlderStep, SupervisorConstants
  <2>2. SupP!Overlapped <=> Sup!Overlapped
    BY Zenon DEF Sup!Overlapped, SupP!Overlapped, Sup!Suspended, SupP!Suspended, Sup!Waiting, SupP!Waiting
  <2>3. [SupP!Live!Next \/ Sup!Overlapped]_(SupP!Live!vars) => [Sup!Live!Next \/ Sup!Overlapped]_(Sup!Live!vars)
    BY Zenon DEF SupP!Live!Next, Sup!Live!Next, SupP!Live!vars, Sup!Live!vars, SupP!Live!Offer,
       Sup!Live!Offer, SupP!Live!GoUp, Sup!Live!GoUp, SupP!Live!GoDown, Sup!Live!GoDown,
       SupP!Serving, Sup!Serving, SupP!Children, Sup!Children
  <2> QED BY <2>1, <2>2, <2>3
<1> HIDE DEF Basis
<1> QED
  BY <1>1, <1>2, <1>3, <1>4, InitSplits, StepSplits, PTL
     DEF SpecAll, NoRenderUndone, Sup!NeverServesOlder

-----------------------------------------------------------------------------
(* What a request may cost: each has one render, and each render one rename. *)

Flying == {j \in Jobs : InFlight(j)}

\* A render in flight may still rename, and was requested.
Owed == IsFiniteSet(Flying) /\ writes + Cardinality(Flying) <= requests + 1

LEMMA OwedInit == Init => Owed
<1> SUFFICES ASSUME Init PROVE Owed
  OBVIOUS
<1>1. Flying = {}
  BY DEF Init, Flying, InFlight
<1> QED BY <1>1, FS_EmptySet DEF Init, Owed

\* A request that starts a render, and a rename that ends one.
LEMMA OwedKept ==
  ASSUME TypeOK, TypeOK', Owed, NEW j \in Jobs,
         \/ /\ writes' = writes /\ requests' = requests + 1
            /\ ~InFlight(j) /\ Flying' \subseteq Flying \cup {j}
         \/ /\ writes' = writes + 1 /\ requests' = requests
            /\ InFlight(j) /\ Flying' \subseteq Flying \ {j}
  PROVE  Owed'
<1>1. /\ writes \in Nat /\ requests \in Nat /\ writes' \in Nat /\ requests' \in Nat
      /\ IsFiniteSet(Flying) /\ Cardinality(Flying) \in Nat
  BY BoundAssumption, FS_CardinalityType DEF TypeOK, Owed
<1>2. /\ IsFiniteSet(Flying \cup {j}) /\ Cardinality(Flying \cup {j}) <= Cardinality(Flying) + 1
      /\ Cardinality(Flying \cup {j}) \in Nat
  <2>1. IsFiniteSet(Flying \cup {j})
        /\ Cardinality(Flying \cup {j}) = IF j \in Flying THEN Cardinality(Flying)
                                          ELSE Cardinality(Flying) + 1
    BY <1>1, FS_AddElement
  <2> QED BY <1>1, <2>1
<1>3. /\ IsFiniteSet(Flying \ {j}) /\ Cardinality(Flying \ {j}) \in Nat
      /\ InFlight(j) => Cardinality(Flying \ {j}) = Cardinality(Flying) - 1
  <2>1. InFlight(j) => j \in Flying
    BY DEF Flying
  <2> QED BY <1>1, <2>1, FS_RemoveElement, FS_CardinalityType
<1>4. ASSUME NEW S, IsFiniteSet(S), Flying' \subseteq S
      PROVE  /\ IsFiniteSet(Flying') /\ Cardinality(Flying') <= Cardinality(S)
             /\ Cardinality(Flying') \in Nat
  BY <1>4, FS_Subset, FS_CardinalityType
<1>5. writes + Cardinality(Flying) <= requests + 1
  BY DEF Owed
<1>6. CASE /\ writes' = writes /\ requests' = requests + 1
           /\ ~InFlight(j) /\ Flying' \subseteq Flying \cup {j}
  BY <1>1, <1>2, <1>4, <1>5, <1>6 DEF Owed
<1>7. CASE /\ writes' = writes + 1 /\ requests' = requests
           /\ InFlight(j) /\ Flying' \subseteq Flying \ {j}
  BY <1>1, <1>3, <1>4, <1>5, <1>7 DEF Owed
<1> QED BY <1>6, <1>7

LEMMA OwedStep ==
  ASSUME Inv, Owed, [Next]_vars
  PROVE  Owed'
<1>1. TypeOK /\ TypeOK'
  BY NextInv DEF Inv
<1>2. ASSUME writes' = writes, requests' \in {requests, requests + 1}, Flying' \subseteq Flying
      PROVE  Owed'
  <2>1. /\ writes \in Nat /\ requests \in Nat /\ writes' \in Nat /\ requests' \in Nat
        /\ IsFiniteSet(Flying) /\ Cardinality(Flying) \in Nat
    BY <1>1, BoundAssumption, FS_CardinalityType DEF TypeOK, Owed
  <2>2. /\ IsFiniteSet(Flying') /\ Cardinality(Flying') <= Cardinality(Flying)
        /\ Cardinality(Flying') \in Nat
    BY <1>2, <2>1, FS_Subset, FS_CardinalityType
  <2> QED BY <1>2, <2>1, <2>2 DEF Owed
<1>3. ASSUME NEW by, NEW rows, NEW s, StartRender(by, rows, s), Request, writes' = writes
      PROVE  Owed'
  <2>1. PICK j \in Jobs : /\ ~InFlight(j)
                          /\ \A i \in Jobs : i # j => job'[i] = job[i]
    BY <1>1, <1>3 DEF StartRender, TypeOK
  <2>2. Flying' \subseteq Flying \cup {j}
    BY <2>1 DEF Flying, InFlight
  <2> QED BY <1>1, <1>3, <2>1, <2>2, OwedKept DEF Request
<1>4. ASSUME NEW a \in Accounts, Operator(a) PROVE Owed'
  <2>1. \A rows : Mutate(rows) => Owed'
    BY <1>3 DEF Mutate
  <2> QED BY <1>4, <2>1 DEF Operator, createProxyAccount, updateProxyAccount,
             regenerateProxyUuid, deleteProxyAccount
<1>5. ASSUME NEW by \in {"api", "cli"}, RenderOnDemand(by) PROVE Owed'
  BY <1>3, <1>5 DEF RenderOnDemand
<1>6. CASE updateSettings
  BY <1>2, <1>6 DEF updateSettings, Request, Flying, InFlight
<1>7. ASSUME NEW j \in Jobs, Progress(j) \/ RenderFails(j) PROVE Owed'
  <2>1. ASSUME NEW outcome, Finish(j, outcome)
        PROVE  Flying' \subseteq Flying \ {j} /\ Flying \ {j} \subseteq Flying
    BY <1>1, <2>1 DEF Finish, Flying, InFlight, TypeOK
  <2>2. CASE CompareEqual(j)
    <3>1. Flying' \subseteq Flying
      BY <2>1, <2>2 DEF CompareEqual
    <3> QED BY <1>2, <2>2, <3>1 DEF CompareEqual
  <2>3. CASE CompareDifferent(j)
    <3>1. \A i \in Jobs : job'[i] # Idle => job[i] # Idle
      BY <1>1, <2>3 DEF CompareDifferent, TypeOK, Idle
    <3>2. Flying' \subseteq Flying
      BY <3>1 DEF Flying, InFlight
    <3> QED BY <1>2, <2>3, <3>2 DEF CompareDifferent
  <2>4. CASE atomicWrite(j)
    <3>1. Flying' \subseteq Flying \ {j} /\ InFlight(j)
      BY <2>1, <2>4 DEF atomicWrite, InFlight, Idle
    <3> QED BY <1>1, <2>4, <3>1, OwedKept DEF atomicWrite
  <2>5. CASE RenderFails(j)
    <3>1. Flying' \subseteq Flying
      BY <2>1, <2>5 DEF RenderFails
    <3> QED BY <1>2, <2>5, <3>1 DEF RenderFails
  <2> QED BY <1>7, <2>2, <2>3, <2>4, <2>5 DEF Progress
<1>8. CASE ApiRestart
  <2>1. Flying' \subseteq Flying
    BY <1>1, <1>8 DEF ApiRestart, Flying, InFlight, TypeOK
  <2> QED BY <1>2, <1>8, <2>1 DEF ApiRestart
<1>9. ASSUME NEW a \in Accounts, Clock(a) PROVE Owed'
  BY <1>2, <1>9 DEF Clock, AccountExpires, GraceLapses, Flying, InFlight
<1>10. CASE UNCHANGED vars
  BY <1>2, <1>10 DEF vars, Flying, InFlight
<1> QED BY <1>4, <1>5, <1>6, <1>7, <1>8, <1>9, <1>10 DEF Next

LEMMA OwedBounds == TypeOK /\ Owed => WritesAreRequested
<1> SUFFICES ASSUME TypeOK, Owed PROVE WritesAreRequested
  OBVIOUS
<1>1. Cardinality(Flying) \in Nat /\ writes \in Nat /\ requests \in Nat
  BY BoundAssumption, FS_CardinalityType DEF Owed, TypeOK
<1> QED BY <1>1 DEF Owed, WritesAreRequested

\* The file is replaced at most once for each request: the bound of the supervisor's
\* half never stops a render of the other.
THEOREM WritesAreRequestedHolds == SpecAll => []WritesAreRequested
<1>1. Inv => TypeOK
  BY DEF Inv
<1>2. Inv /\ Owed /\ [Next]_vars => Owed'
  BY OwedStep
<1> QED
  BY <1>1, <1>2, InitInv, NextInv, OwedInit, OwedBounds, InitSplits, StepSplits, PTL DEF SpecAll

\* However requests, deadlines, restarts and crashes interleave, a request disconnects
\* the clients at most twice, once for each of the two detectors of a change.
THEOREM TwoSpawnsPerRequestHolds == SpecAll => []TwoSpawnsPerRequest
<1> DEFINE Basis == SupP!Basics /\ SupP!Budget
<1>1. SupP!Init => Basis
  BY SupP!BasicsInit, SupP!BudgetInit, SupervisorConstants
<1>2. Basis /\ [SupP!Next]_(SupP!vars) => Basis'
  BY SupP!BasicsStep, SupP!BudgetStep, SupervisorConstants
<1>3. Inv /\ Owed /\ [Next]_vars => Owed'
  BY OwedStep
<1>4. Inv /\ Owed /\ Basis => TwoSpawnsPerRequest
  <2> SUFFICES ASSUME Inv, Owed, Basis PROVE TwoSpawnsPerRequest
    OBVIOUS
  <2>1. spawns <= 2 * writes + restarts
    <3>1. SupP!TwoSpawnsPerWrite
      BY SupP!BudgetSuffices, SupervisorConstants
    <3> QED BY <3>1 DEF SupP!TwoSpawnsPerWrite, OnDisk
  <2>2. writes <= requests + 1
    BY OwedBounds DEF Inv, WritesAreRequested
  <2>3. writes \in Nat /\ requests \in Nat
    BY BoundAssumption DEF Inv, TypeOK
  <2>4. spawns \in Nat /\ restarts \in Nat
    BY SupervisorConstants DEF SupP!Basics, SupP!TypeOK
  <2> QED BY <2>1, <2>2, <2>3, <2>4 DEF TwoSpawnsPerRequest
<1> HIDE DEF Basis
<1> QED
  BY <1>1, <1>2, <1>3, <1>4, InitInv, NextInv, OwedInit, InitSplits, StepSplits, PTL DEF SpecAll
=============================================================================

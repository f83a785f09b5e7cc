------------------------------ MODULE DataPlane ------------------------------
(***************************************************************************)
(* The whole way from the admin API to the server clients connect to: the  *)
(* render pipeline writes singbox.json on the volume it shares with the    *)
(* container in which the supervisor keeps a sing-box child on that file.  *)
(* The two halves share nothing but the file, its renames being the        *)
(* versions the supervisor sees.  Whatever is rendered passes              *)
(* `sing-box check`.                                                       *)
(***************************************************************************)
EXTENDS RenderPipeline

CONSTANTS MaxSpawns, MaxRestarts, MaxCrashes, Callbacks

ASSUME DataPlaneAssumption ==
  MaxSpawns \in Nat /\ MaxRestarts \in Nat /\ MaxCrashes \in Nat

VARIABLES copy, phase, prepared, notified, lastSeen, timer, killing, child,
          spawns, tracked, served, restarts, crashes, orphans, raced

supVars == <<copy, phase, prepared, notified, lastSeen, timer, killing, child,
             spawns, tracked, served, restarts, crashes, orphans>>

allVars == <<vars, supVars, raced>>

\* Every rename is the outcome of a request, but for the file of the installation.
MaxWrites == MaxRequests + 1

OnDisk == [ver |-> writes, kind |-> "good"]

Sup == INSTANCE Supervisor WITH
  config <- OnDisk, OldKinds <- {"good"}, Kinds <- {"good"}

-----------------------------------------------------------------------------

\* `ct install` renders the first config before it starts the containers.
InitAll ==
  /\ Init
  /\ Sup!Init

\* A step of the API, of a render process or of the clock.
Render ==
  /\ Next
  /\ IF writes' # writes THEN Sup!ReplaceConfig ELSE UNCHANGED raced
  /\ UNCHANGED supVars

Supervise == UNCHANGED vars /\ Sup!Steps

NextAll == Render \/ Supervise

SpecAll == InitAll /\ [][NextAll]_allVars /\ Fairness /\ Sup!Fairness

-----------------------------------------------------------------------------
(* Properties.                                                             *)

\* Every rename is the outcome of a request, but for the file of the installation:
\* the bound of the supervisor's half stops no render.
WritesAreRequested == writes <= requests + 1

\* Clients are disconnected at most twice for a request and once for a restart,
\* however the renders overlap: a render that finds the file as it would write it
\* disturbs nobody.
TwoSpawnsPerRequest == spawns <= 2 * (requests + 1) + restarts

\* The live server authenticates by the users of the newest file.
Live == Sup!OnCurrentFile

\* Whenever nothing is under way in the container, the live server admits clients
\* as the database says, if the last render succeeded and overlapped no different
\* one, the child has not crashed, and the supervisor was not made to miss the file:
\* by overlapping restart callbacks, or by a render during its boot's own steps.
ServesAsDb ==
  Sup!Settled /\ latest.outcome = "done" /\ Solo /\ ~Sup!Crashed /\ Sup!Followed =>
    Live /\ AdmitsAsDb(file)

\* Neither a render nor a restart brings an older render back to the clients, as
\* long as no restart callback has overtaken another.
NoRenderUndone == Sup!NeverServesOlder

\* app.ts:874-880, "so the live data-plane always reflects the DB (...) so a
\* render is all that's needed": once the requests stop, clients are admitted as
\* the database says, if the last render succeeded and overlapped no different
\* one, and with the exceptions of ServesAsDb.
ChangeReachesClients ==
  <>[](latest.outcome = "done" /\ Solo /\ ~Sup!Crashed /\ Sup!Followed => Live /\ AdmitsAsDb(file))
=============================================================================

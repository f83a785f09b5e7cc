------------------------------ MODULE Settings ------------------------------
(***************************************************************************)
(* Who decides what the server runs with.  Five copies of the same         *)
(* settings exist: `.env` on the host, the environment the admin-api       *)
(* container was created with, the row of server_config, the rendered      *)
(* Caddyfile and singbox.json, and what Caddy has loaded.  Every process   *)
(* that opens the database first lays its own environment over the row     *)
(* (ensureDefaults); the panel saves into the row; a render reads the row  *)
(* and writes the Caddyfile in place, without a lock.                      *)
(*                                                                         *)
(* A domain stands for the fields the environment overwrites (the panel's  *)
(* domain is the one Caddy routes and the API trusts); a key stands for a  *)
(* Reality key pair, a field of which the row keeps the first value.       *)
(***************************************************************************)
EXTENDS Naturals, FiniteSets

CONSTANTS
  Env,        \* the contents `.env` takes: a panel domain and a Reality key pair
  Clicks,     \* requests to the admin API that render at the same time
  Commands,   \* `ct render` commands that run at the same time
  MaxRenders  \* bound: renders under way at the same time

VARIABLES
  env,        \* .env
  apiEnv,     \* the environment of the admin-api container, or NotUp
  row,        \* server_config: panelDomain and realityPublicKey
  singbox,    \* the key pair whose private half singbox.json holds
  caddyfile,  \* the domain the Caddyfile routes, or Absent, or Torn
  caddy,      \* the domain Caddy routes, or Down
  renders,    \* the renders under way
  script,     \* the command that deploys
  deploy,     \* how far it has come
  keptCaddy,  \* history: the latest deploy left Caddy as it was running
  disturbed   \* history: the latest deploy was interfered with

settingsVars ==
  <<env, apiEnv, row, singbox, caddyfile, caddy, renders, script, deploy, keptCaddy, disturbed>>

copies == <<env, apiEnv, row, singbox, caddyfile, caddy>>

Absent == "absent"
Torn == "torn"
Down == "down"
NotUp == [panel |-> Absent, key |-> Absent]
Deployer == "deployer"

Renderers == Clicks \cup Commands \cup {Deployer}

ASSUME SettingsAssumption == Deployer \notin Clicks \cup Commands

Domains == {e.panel : e \in Env}
Keys == {e.key : e \in Env}

UnderWay == {r \in Renderers : renders[r].pc # "idle"}

Idle == [pc |-> "idle", env |-> NotUp, body |-> Absent, alone |-> TRUE]

SettingsTypeOK ==
  /\ env \in Env
  /\ apiEnv \in Env \cup {NotUp}
  /\ row \in [panel : Domains \cup {Absent}, key : Keys \cup {Absent}]
  /\ singbox \in Keys \cup {Absent}
  /\ caddyfile \in Domains \cup {Absent, Torn}
  /\ caddy \in Domains \cup {Down}
  /\ renders \in [Renderers -> [pc : {"idle", "created", "defaults", "body", "differs", "writing",
                                      "written"},
                                env : Env \cup {NotUp}, body : Domains \cup {Absent},
                                alone : BOOLEAN]]
  /\ script \in {"none", "install", "update"} /\ keptCaddy \in BOOLEAN
  /\ deploy \in {"idle", "caddyfile", "singbox", "up", "reload", "done"}
  /\ disturbed \in BOOLEAN

-----------------------------------------------------------------------------

\* MUTANT: an ensureDefaults that keeps a domain it finds.
ensureDefaults_keeps(e) ==
  [row EXCEPT !.panel = IF @ = Absent THEN e.panel ELSE @,
              !.key = IF @ = Absent THEN e.key ELSE @]

\* The row after a process with environment `e` has opened the store.
ensureDefaults(e) ==
  [row EXCEPT !.panel = e.panel, !.key = IF @ = Absent THEN e.key ELSE @]

\* What a Caddy that starts on this file routes: it exits on half a file.
Loaded(file) == IF file \in Domains THEN file ELSE Down

ClicksDie == [r \in Renderers |-> IF r \in Clicks THEN Idle ELSE renders[r]]

\* A new container of the API, and of Caddy.
NewApi == apiEnv' = env /\ row' = ensureDefaults(env) /\ renders' = ClicksDie
NewCaddy == caddy' = Loaded(caddyfile) /\ keptCaddy' = FALSE

\* The deploy has compared the Caddyfile on disk with the one it wants.
DeployCompared ==
  \/ deploy \in {"singbox", "up", "reload", "done"}
  \/ renders[Deployer].pc \in {"differs", "writing", "written"}

\* Another process leaves a domain in the row which `.env` does not name, just
\* before the deploy reads it, or after the deploy has settled it; an install
\* that need not make a new API has settled it with its last render.
RowMoved ==
  /\ row'.panel # env.panel
  /\ \/ deploy = "caddyfile" /\ renders[Deployer].pc = "defaults"
     \/ /\ script = "install" /\ apiEnv = env
        /\ deploy = "up" \/ renders[Deployer].pc = "defaults"
     \/ deploy \in {"reload", "done"}

Disturb(interferes) == disturbed' = (disturbed \/ interferes)

\* A fresh host on which `.env` is filled in.
SettingsInit ==
  /\ env \in Env
  /\ apiEnv = NotUp
  /\ row = [panel |-> Absent, key |-> Absent]
  /\ singbox = Absent
  /\ caddyfile = Absent
  /\ caddy = Down
  /\ renders = [r \in Renderers |-> Idle]
  /\ script = "none" /\ deploy = "idle"
  /\ keptCaddy = FALSE /\ disturbed = TRUE

-----------------------------------------------------------------------------
(* The operator and the panel.                                             *)

EditEnv ==
  /\ env' \in Env \ {env}
  /\ Disturb(deploy # "idle")
  /\ UNCHANGED <<apiEnv, row, singbox, caddyfile, caddy, renders, script, deploy, keptCaddy>>

\* PATCH /api/settings; it renders nothing.
updateSettings ==
  /\ apiEnv # NotUp
  /\ \E d \in Domains : row' = [row EXCEPT !.panel = d]
  /\ Disturb(RowMoved)
  /\ UNCHANGED <<env, apiEnv, singbox, caddyfile, caddy, renders, script, deploy, keptCaddy>>

\* `ct admin ...` opens the store on the host, with the `.env` of the moment.
AdminCommand ==
  /\ row' = ensureDefaults(env)
  /\ UNCHANGED <<env, apiEnv, singbox, caddyfile, caddy, renders, script, deploy, keptCaddy, disturbed>>

\* `ct doctor` opens the store in the admin-api container.
Doctor ==
  /\ apiEnv # NotUp
  /\ row' = ensureDefaults(apiEnv)
  /\ Disturb(RowMoved)
  /\ UNCHANGED <<env, apiEnv, singbox, caddyfile, caddy, renders, script, deploy, keptCaddy>>

\* The API dies and Docker starts the same container: the same environment.
ApiRestarts ==
  /\ apiEnv # NotUp
  /\ row' = ensureDefaults(apiEnv)
  /\ renders' = ClicksDie
  /\ Disturb(RowMoved)
  /\ UNCHANGED <<env, apiEnv, singbox, caddyfile, caddy, script, deploy, keptCaddy>>

-----------------------------------------------------------------------------
(* Rendering.                                                              *)

\* render-singbox by the API: after a change to an account, or on demand.  It
\* writes the private key of its own environment, not the one of the row.
ApiRendersSingbox ==
  /\ apiEnv # NotUp
  /\ singbox' = apiEnv.key
  /\ Disturb(deploy = "up" /\ apiEnv.key # env.key)
  /\ UNCHANGED <<env, apiEnv, row, caddyfile, caddy, renders, script, deploy, keptCaddy>>

\* renderScript, by `ct render` or a deploy: a container is made for one render,
\* with the `.env` of that moment ...
renderScript(r) ==
  /\ r = Deployer => deploy \in {"caddyfile", "singbox"}
  /\ renders[r].pc = "idle" /\ Cardinality(UnderWay) < MaxRenders
  /\ renders' = [renders EXCEPT ![r].pc = "created", ![r].env = env]
  /\ UNCHANGED <<copies, script, deploy, keptCaddy, disturbed>>

\* ... and opens the store first.
OpenStore(r) ==
  /\ renders[r].pc = "created"
  /\ row' = ensureDefaults(renders[r].env)
  /\ renders' = [renders EXCEPT ![r].pc = "defaults"]
  /\ Disturb(RowMoved)
  /\ UNCHANGED <<env, apiEnv, singbox, caddyfile, caddy, script, deploy, keptCaddy>>

\* render-singbox in such a container, with the key of its environment.
RenderSingbox(r) ==
  /\ renders[r].pc = "defaults" /\ (r = Deployer => deploy = "singbox")
  /\ singbox' = renders[r].env.key
  /\ renders' = [renders EXCEPT ![r] = Idle]
  /\ deploy' = IF r = Deployer THEN "up" ELSE deploy
  /\ Disturb(r # Deployer /\ deploy \in {"up", "reload", "done"} /\ singbox' # env.key)
  /\ UNCHANGED <<env, apiEnv, row, caddyfile, caddy, script, keptCaddy>>

\* renderCaddyfile: the settings are read, the template is awaited; of the
\* environment nothing more is needed.
ReadSettings(r) ==
  /\ \/ /\ r \in Clicks /\ apiEnv # NotUp
        /\ renders[r].pc = "idle" /\ Cardinality(UnderWay) < MaxRenders
     \/ renders[r].pc = "defaults" /\ (r = Deployer => deploy = "caddyfile")
  /\ renders' = [renders EXCEPT ![r].pc = "body", ![r].body = row.panel, ![r].env = NotUp]
  /\ UNCHANGED <<copies, script, deploy, keptCaddy, disturbed>>

\* A render whose file is written: of what it read only a hash is still used, for show.
HasFile == [Idle EXCEPT !.pc = "written"]

\* The body is compared with the file.
CompareFile(r) ==
  /\ renders[r].pc = "body"
  /\ renders' = [renders EXCEPT
                   ![r] = IF caddyfile = @.body THEN HasFile
                          ELSE [@ EXCEPT !.pc = "differs", !.alone = TRUE]]
  /\ UNCHANGED <<copies, script, deploy, keptCaddy, disturbed>>

\* The renders when `r` has come to `x` by a write: another that has compared the
\* file and not yet written it is no longer alone.
Touched(r, x) ==
  [s \in Renderers |-> IF s = r THEN x
     ELSE [renders[s] EXCEPT !.alone = renders[s].pc \notin {"differs", "writing"}]]

\* Bun.write truncates the file ...
BeginWrite(r) ==
  /\ renders[r].pc = "differs"
  /\ caddyfile' = Torn
  /\ renders' = Touched(r, [renders[r] EXCEPT !.pc = "writing"])
  /\ Disturb(r # Deployer /\ DeployCompared)
  /\ UNCHANGED <<env, apiEnv, row, singbox, caddy, script, deploy, keptCaddy>>

\* ... and fills it; what two writers at once leave behind may be a mixture.
EndWrite(r) ==
  /\ renders[r].pc = "writing"
  /\ caddyfile' \in {renders[r].body} \cup (IF renders[r].alone THEN {} ELSE {Torn})
  /\ renders' = Touched(r, HasFile)
  /\ Disturb(r # Deployer /\ DeployCompared)
  /\ UNCHANGED <<env, apiEnv, row, singbox, caddy, script, deploy, keptCaddy>>

\* The hash of the body is saved, for the settings page to show, and the render
\* reports success.
Report(r) ==
  /\ renders[r].pc = "written"
  /\ renders' = [renders EXCEPT ![r] = Idle]
  /\ deploy' = IF r = Deployer THEN "singbox" ELSE deploy
  /\ UNCHANGED <<copies, script, keptCaddy, disturbed>>

\* A `ct render` is interrupted; half a file stays half a file.
CommandDies(r) ==
  /\ renders[r].pc # "idle"
  /\ renders' = [renders EXCEPT ![r] = Idle]
  /\ UNCHANGED <<copies, script, deploy, keptCaddy, disturbed>>

-----------------------------------------------------------------------------
(* Caddy reads the file when it starts, and when it is told to reload.     *)

\* The panel's restart-services, or Caddy died: Docker starts it again, and
\* goes on starting it while it exits.
CaddyRestarts ==
  /\ apiEnv # NotUp
  /\ NewCaddy
  /\ UNCHANGED <<env, apiEnv, row, singbox, caddyfile, renders, script, deploy, disturbed>>

-----------------------------------------------------------------------------
(* `ct install`, `ct update`: the database, the Caddyfile and singbox.json *)
(* (by renderScript and the steps that follow it), then the containers.    *)

migrateSqlite ==
  /\ deploy \in {"idle", "done"}
  /\ script' \in {"install", "update"}
  /\ row' = ensureDefaults(env)
  /\ deploy' = "caddyfile"
  /\ keptCaddy' = FALSE /\ disturbed' = FALSE
  /\ UNCHANGED <<env, apiEnv, singbox, caddyfile, caddy, renders>>

\* `ct install`: compose up makes a container again whose image or environment
\* has changed; one that runs unchanged goes on.  `.env` is the environment of
\* the API, and no part of Caddy's.
startStack ==
  /\ script = "install" /\ deploy = "up"
  /\ NewApi \/ (apiEnv = env /\ UNCHANGED <<apiEnv, row, renders>>)
  /\ NewCaddy \/ (caddy # Down /\ keptCaddy' = TRUE /\ UNCHANGED caddy)
  /\ deploy' = "done" /\ script' = "none"
  /\ UNCHANGED <<env, singbox, caddyfile, disturbed>>

\* `ct update`: compose up --force-recreate.
Recreate ==
  /\ script = "update" /\ deploy = "up"
  /\ NewApi /\ NewCaddy
  /\ deploy' = "reload"
  /\ UNCHANGED <<env, singbox, caddyfile, script, disturbed>>

\* `ct update`: caddy reload; a failure is a warning.
ReloadCaddy ==
  /\ deploy = "reload"
  /\ caddy' = IF caddyfile \in Domains THEN caddyfile ELSE caddy
  /\ deploy' = "done" /\ script' = "none"
  /\ UNCHANGED <<env, apiEnv, row, singbox, caddyfile, renders, keptCaddy, disturbed>>

DeployDies ==
  /\ deploy \notin {"idle", "done"}
  /\ deploy' = "idle" /\ script' = "none"
  /\ renders' = [renders EXCEPT ![Deployer] = Idle]
  /\ keptCaddy' = FALSE /\ disturbed' = TRUE
  /\ UNCHANGED copies

-----------------------------------------------------------------------------

SettingsNext ==
  \/ EditEnv \/ updateSettings \/ AdminCommand \/ Doctor \/ ApiRestarts
  \/ ApiRendersSingbox \/ CaddyRestarts
  \/ \E r \in Commands \cup {Deployer} : renderScript(r)
  \/ \E r \in Renderers :
       \/ OpenStore(r) \/ RenderSingbox(r) \/ ReadSettings(r)
       \/ CompareFile(r) \/ BeginWrite(r) \/ EndWrite(r) \/ Report(r)
  \/ \E r \in Commands : CommandDies(r)
  \/ migrateSqlite \/ startStack \/ Recreate \/ ReloadCaddy \/ DeployDies

SettingsSpec == SettingsInit /\ [][SettingsNext]_settingsVars

-----------------------------------------------------------------------------
(* Properties.                                                             *)

\* A deploy ends with all the copies in agreement: the API trusts the domain
\* Caddy routes, and sing-box holds the key of `.env`.  An install that found
\* Caddy running may leave it on the file it had loaded (install.ts:72-86), until
\* Caddy restarts; all else agrees then too.  A deploy may fail to agree only if
\* `.env` was edited meanwhile, another process put another domain in the row
\* between the ensureDefaults and the read of the deploy's own render or after
\* the API had settled it, another render wrote the Caddyfile once the deploy had
\* compared it, or a render from an older environment wrote its key after the
\* deploy did.  Restarts, `ct doctor`, and saved settings at any other time do no
\* harm.
DeployAgrees ==
  (deploy = "done" /\ ~disturbed) =>
    /\ apiEnv = env
    /\ row.panel = env.panel
    /\ caddyfile = env.panel
    /\ caddy = env.panel \/ keptCaddy
    /\ singbox = env.key

\* What docs/operations.md says of rotated Reality keys: once the server is
\* re-rendered, a client that imports its subscription again has the key that
\* sing-box answers to.
ReimportWorks == (deploy = "done" /\ ~disturbed) => row.key = singbox
=============================================================================

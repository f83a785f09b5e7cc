----------------------------- MODULE Deployment -----------------------------
(***************************************************************************)
(* Releases on their way to the containers: `ct install`, `ct update` and  *)
(* the unattended `ct auto-update`.                                        *)
(*                                                                         *)
(* A release is a tag on origin/main, a checkout, a bundle of images and   *)
(* what runs from them.  Each command is a process that may fail or be     *)
(* killed between any two of its steps; the kernel then releases its lock. *)
(* The steps of install and update run under the operation lock.  The      *)
(* auto-update tick has a lock of its own: it looks at the versions and    *)
(* pulls outside the operation lock, and only its child `ct update` takes  *)
(* that one.                                                               *)
(*                                                                         *)
(* Left out: redis, whose image no release brings, the reload of Caddy     *)
(* after its container was recreated, and the checks of network and free   *)
(* space, which only let a command fail early.                             *)
(***************************************************************************)
EXTENDS Naturals

CONSTANTS
  Images,      \* images of the bundle, each tagged :latest when it is loaded
  Services,    \* services of the compose file
  ImageOf,     \* the image each service runs
  Terminals,   \* where an operator may type a command
  Child,       \* the `ct update` an auto-update tick starts
  MaxVersion   \* bound: releases

ASSUME ServicesAssumption == ImageOf \in [Services -> Images] /\ "admin-api" \in Services
ASSUME RunsAssumption     == Child \notin Terminals /\ "nobody" \notin Terminals \cup {Child}
ASSUME VersionAssumption  == MaxVersion \in Nat \ {0}

VARIABLES
  tag,        \* the latest release on origin/main
  bundles,    \* releases whose image bundle is published
  checkout,   \* the release in the working tree
  binary,     \* the release of the installed operator binary
  env,        \* .env: needs migration, cut short by a crash, or current
  images,     \* the release each local image is of; 0: no such image
  schema,     \* the schema of the database
  rendered,   \* the release that rendered each config
  running,    \* the release each service runs; 0: it does not run
  opLock,     \* the holder of the operation lock
  run,        \* what each install or update is doing
  cron,       \* the auto-update tick
  lastDone    \* history: the release of the last command that reported success

host == <<env, images, schema, rendered, running>>
vars == <<tag, bundles, checkout, binary, env, images, schema, rendered, running,
          opLock, run, cron, lastDone>>

Versions == 1 .. MaxVersion
Targets  == {"caddyfile", "singbox"}
Runs     == Terminals \cup {Child}
Nobody   == "nobody"

NotRunning == [pc |-> "idle"]
Pcs == {"preflight", "pull", "env", "envwrite", "fetch", "wait", "load", "migrate",
        "caddyfile", "singbox", "up", "health", "done"}
\* binary: the release of the process itself.  want: the release it deploys, read from
\* package.json when it fetches the bundle.  pending: images still to be loaded.
Run == [cmd : {"install", "update"}, pc : Pcs, binary : Versions,
        want : 0 .. MaxVersion, pending : SUBSET Images]

CronPcs == {"idle", "probe", "uptodate", "preflight", "pull", "update"}
\* tried: history: the release an earlier tick pulled and did not deploy.
Cron == [pc : CronPcs, latest : 0 .. MaxVersion, tried : 0 .. MaxVersion]

TypeOK ==
  /\ tag \in Versions /\ bundles \subseteq 1 .. tag
  /\ checkout \in 1 .. tag /\ binary \in 1 .. checkout
  /\ env \in {"legacy", "torn", "current"}
  /\ images \in [Images -> 0 .. checkout]
  /\ schema \in 0 .. checkout
  /\ rendered \in [Targets -> 0 .. checkout]
  /\ running \in [Services -> 0 .. checkout]
  /\ run \in [Runs -> Run \cup {NotRunning}]
  /\ opLock \in Runs \cup {Nobody}
  /\ \A p \in Runs : run[p] # NotRunning <=> opLock = p
  /\ cron \in Cron
  /\ lastDone \in 0 .. checkout

Larger(a, b) == IF a > b THEN a ELSE b
stackUp      == \A s \in Services : running[s] # 0

\* A host with nothing but the checkout, or one where the first release runs.
Init ==
  /\ tag = 1 /\ bundles = {1} /\ checkout = 1 /\ binary = 1
  /\ env \in {"legacy", "current"}
  /\ lastDone \in {0, 1}
  /\ images = [i \in Images |-> lastDone]
  /\ schema = lastDone
  /\ rendered = [t \in Targets |-> lastDone]
  /\ running = [s \in Services |-> lastDone]
  /\ opLock = Nobody
  /\ run = [p \in Runs |-> NotRunning]
  /\ cron = [pc |-> "idle", latest |-> 0, tried |-> 0]

-----------------------------------------------------------------------------
(* The world.                                                              *)

Release ==
  /\ tag < MaxVersion
  /\ tag' = tag + 1
  /\ UNCHANGED <<bundles, checkout, binary, host, opLock, run, cron, lastDone>>

\* The images are built, and published, minutes after the tag.
PublishBundle ==
  /\ \E v \in 1 .. tag : v \notin bundles /\ bundles' = bundles \cup {v}
  /\ UNCHANGED <<tag, checkout, binary, host, opLock, run, cron, lastDone>>

\* The operator stops a service, between two commands.
StopService ==
  /\ opLock = Nobody
  /\ \E s \in Services : running[s] # 0 /\ running' = [running EXCEPT ![s] = 0]
  /\ UNCHANGED <<tag, bundles, checkout, binary, env, images, schema, rendered,
                 opLock, run, cron, lastDone>>

-----------------------------------------------------------------------------
(* ct install and ct update.                                               *)

At(p, pc)    == run[p].pc = pc
Go(p, pc)    == run' = [run EXCEPT ![p].pc = pc]
Step(p, a, b) == At(p, a) /\ Go(p, b)

\* The ct script, before the lock: it replaces a binary that is not of the release
\* checked out.  When the download fails it goes on with the old one.
operator_bootstrap_if_skewed ==
  /\ binary # checkout
  /\ binary' = checkout
  /\ UNCHANGED <<tag, bundles, checkout, host, opLock, run, cron, lastDone>>

acquireOpLock(p, cmd) ==
  /\ opLock = Nobody
  /\ opLock' = p
  /\ run' = [run EXCEPT ![p] = [cmd |-> cmd, pc |-> "preflight", binary |-> binary,
                                want |-> 0, pending |-> {}]]

StartCommand(p) ==
  /\ \E cmd \in {"install", "update"} : acquireOpLock(p, cmd)
  /\ UNCHANGED <<tag, bundles, checkout, binary, host, cron, lastDone>>

\* When space is tight, `docker system prune -af`: an image stays if the container of
\* a service that runs was made from it.
runAutoTempClean ==
  [i \in Images |-> IF \E s \in Services : ImageOf[s] = i /\ running[s] = images[i]
                   THEN images[i] ELSE 0]

\* Only update cleans; a stack that is down only makes it warn.
preflight(p) ==
  /\ At(p, "preflight")
  /\ IF run[p].cmd = "update"
     THEN Step(p, "preflight", "pull") /\ images' \in {images, runAutoTempClean}
     ELSE Step(p, "preflight", "fetch") /\ UNCHANGED images
  /\ UNCHANGED <<tag, bundles, checkout, binary, env, schema, rendered, running,
                 opLock, cron, lastDone>>

\* A pull that fails leaves the checkout as it is, with a warning.
gitPullFfOnly(p) ==
  /\ Step(p, "pull", "env")
  /\ checkout' \in {checkout, tag}
  /\ UNCHANGED <<tag, bundles, binary, host, opLock, cron, lastDone>>

\* Bun.write truncates .env and then writes it; the migration of a file cut short adds
\* defaults and brings no secret back.
migrateEnvFile(p) ==
  /\ At(p, "env")
  /\ IF env = "legacy"
     THEN env' = "torn" /\ Go(p, "envwrite")
     ELSE UNCHANGED env /\ Go(p, "fetch")
  /\ UNCHANGED <<tag, bundles, checkout, binary, images, schema, rendered, running,
                 opLock, cron, lastDone>>

WriteEnv(p) ==
  /\ Step(p, "envwrite", "fetch")
  /\ env' = "current"
  /\ UNCHANGED <<tag, bundles, checkout, binary, images, schema, rendered, running,
                 opLock, cron, lastDone>>

\* fetch_image_bundle.sh deploys the version package.json has when the script starts,
ReadVersion(p) ==
  /\ At(p, "fetch")
  /\ run' = [run EXCEPT ![p].pc = "wait", ![p].want = checkout]
  /\ UNCHANGED <<tag, bundles, checkout, binary, host, opLock, cron, lastDone>>

\* and polls until its bundle is published.
FetchBundle(p) ==
  /\ At(p, "wait") /\ run[p].want \in bundles
  /\ run' = [run EXCEPT ![p].pc = "load", ![p].pending = Images]
  /\ UNCHANGED <<tag, bundles, checkout, binary, host, opLock, cron, lastDone>>

\* MUTANT: the script goes on when a component could not be loaded.
load_image_bom_lenient(p) ==
  /\ At(p, "load")
  /\ \E i \in run[p].pending, loads \in BOOLEAN :
       /\ images' = IF loads THEN [images EXCEPT ![i] = run[p].want] ELSE images
       /\ run' = [run EXCEPT ![p].pending = @ \ {i},
                             ![p].pc = IF run[p].pending = {i} THEN "migrate" ELSE "load"]
  /\ UNCHANGED <<tag, bundles, checkout, binary, env, schema, rendered, running,
                 opLock, cron, lastDone>>

\* The images are loaded, and tagged :latest, one by one.
load_image_bom(p) ==
  /\ At(p, "load")
  /\ \E i \in run[p].pending :
       /\ images' = [images EXCEPT ![i] = run[p].want]
       /\ run' = [run EXCEPT ![p].pending = @ \ {i},
                             ![p].pc = IF run[p].pending = {i} THEN "migrate" ELSE "load"]
  /\ UNCHANGED <<tag, bundles, checkout, binary, env, schema, rendered, running,
                 opLock, cron, lastDone>>

\* By the code of the process itself; a configuration without secrets is refused.
migrateAndReport(p) ==
  /\ env # "torn"
  /\ Step(p, "migrate", "caddyfile")
  /\ schema' = Larger(schema, run[p].binary)
  /\ UNCHANGED <<tag, bundles, checkout, binary, env, images, rendered, running,
                 opLock, cron, lastDone>>

\* `docker compose run admin-api`: the new image migrates and renders.
renderScript(p, target, next) ==
  /\ Step(p, target, next)
  /\ \E v \in {images[ImageOf["admin-api"]]} :
       /\ rendered' = [rendered EXCEPT ![target] = v]
       /\ schema' = Larger(schema, v)
  /\ UNCHANGED <<tag, bundles, checkout, binary, env, images, running, opLock, cron, lastDone>>

\* MUTANT: only the services that still run are recreated.
ComposeUp_running(p) ==
  /\ Step(p, "up", IF run[p].cmd = "install" THEN "done" ELSE "health")
  /\ running' = [s \in Services |-> IF running[s] = 0 THEN 0 ELSE images[ImageOf[s]]]
  /\ lastDone' = IF run[p].cmd = "install" THEN run[p].want ELSE lastDone
  /\ UNCHANGED <<tag, bundles, checkout, binary, env, images, schema, rendered, opLock, cron>>

\* compose up recreates every service from the local images; install is then done.
ComposeUp(p) ==
  /\ Step(p, "up", IF run[p].cmd = "install" THEN "done" ELSE "health")
  /\ running' = [s \in Services |-> images[ImageOf[s]]]
  /\ lastDone' = IF run[p].cmd = "install" THEN run[p].want ELSE lastDone
  /\ UNCHANGED <<tag, bundles, checkout, binary, env, images, schema, rendered, opLock, cron>>

waitForRuntimeReady(p) ==
  /\ stackUp
  /\ Step(p, "health", "done")
  /\ lastDone' = run[p].want
  /\ UNCHANGED <<tag, bundles, checkout, binary, host, opLock, cron>>

Return(p) ==
  /\ At(p, "done")
  /\ run' = [run EXCEPT ![p] = NotRunning]
  /\ opLock' = Nobody
  /\ UNCHANGED <<tag, bundles, checkout, binary, host, cron, lastDone>>

\* MUTANT: the lock outlives its holder.
Die_locked(p) ==
  /\ run' = [run EXCEPT ![p] = NotRunning]
  /\ UNCHANGED <<tag, bundles, checkout, binary, env, images, schema, rendered, opLock, cron, lastDone>>

Die(p) ==
  /\ run' = [run EXCEPT ![p] = NotRunning]
  /\ opLock' = Nobody
  /\ UNCHANGED <<tag, bundles, checkout, binary, env, images, schema, rendered, cron, lastDone>>

\* MUTANT: the wait for the bundle has no deadline.
GivesUp_patient(p) ==
  /\ At(p, "health") \/ (At(p, "migrate") /\ env = "torn")
  /\ Die(p) /\ UNCHANGED running

\* Waits that the code bounds, and the refusal of a configuration without secrets.
GivesUp(p) ==
  /\ At(p, "wait") \/ At(p, "health") \/ (At(p, "migrate") /\ env = "torn")
  /\ Die(p) /\ UNCHANGED running

\* compose up fails half-way: some services are recreated, others are down.
ComposeUpFails(p) ==
  /\ At(p, "up")
  /\ \E new, down \in SUBSET Services :
       running' = [s \in Services |-> IF s \in new THEN images[ImageOf[s]]
                                      ELSE IF s \in down THEN 0 ELSE running[s]]
  /\ Die(p)

\* A step fails, or the process is killed.
RunDies(p) ==
  /\ run[p] # NotRunning
  /\ Die(p) /\ UNCHANGED running

Advance(p) ==
  \/ preflight(p) \/ gitPullFfOnly(p) \/ migrateEnvFile(p) \/ WriteEnv(p)
  \/ ReadVersion(p) \/ FetchBundle(p) \/ load_image_bom(p) \/ migrateAndReport(p)
  \/ renderScript(p, "caddyfile", "singbox") \/ renderScript(p, "singbox", "up")
  \/ ComposeUp(p) \/ waitForRuntimeReady(p) \/ Return(p) \/ GivesUp(p)

-----------------------------------------------------------------------------
(* ct auto-update.  The lock of the ticks makes them one process.          *)

CronAt(a, b) == cron.pc = a /\ cron' = [cron EXCEPT !.pc = b]
Skip         == cron' = [cron EXCEPT !.pc = "idle", !.latest = 0]

Tick ==
  /\ CronAt("idle", "probe")
  /\ UNCHANGED <<tag, bundles, checkout, binary, host, opLock, run, lastDone>>

\* "Deployed" is the version of package.json.
probeVersions ==
  /\ cron.pc = "probe"
  /\ cron' = [cron EXCEPT !.latest = tag, !.pc = IF tag # checkout THEN "preflight" ELSE "uptodate"]
  /\ UNCHANGED <<tag, bundles, checkout, binary, host, opLock, run, lastDone>>

SayUpToDate ==
  /\ cron.pc = "uptodate"
  /\ Skip
  /\ UNCHANGED <<tag, bundles, checkout, binary, host, opLock, run, lastDone>>

preflightStackHealthy ==
  /\ stackUp
  /\ CronAt("preflight", "pull")
  /\ UNCHANGED <<tag, bundles, checkout, binary, host, opLock, run, lastDone>>

\* git pull, outside the operation lock.
CronPull ==
  /\ cron.pc = "pull"
  /\ checkout' = tag
  /\ cron' = [cron EXCEPT !.pc = "update", !.tried = tag]
  /\ UNCHANGED <<tag, bundles, binary, host, opLock, run, lastDone>>

\* MUTANT: the update of a tick runs without the operation lock.
CronUpdate_unlocked ==
  /\ cron.pc = "update"
  /\ run[Child] = NotRunning
  /\ Skip
  /\ run' = [run EXCEPT ![Child] = [cmd |-> "update", pc |-> "preflight", binary |-> binary,
                                    want |-> 0, pending |-> {}]]
  /\ UNCHANGED <<tag, bundles, checkout, binary, host, opLock, lastDone>>

\* The child finds the operation lock free, or exits at once and the tick fails.
CronUpdate ==
  /\ cron.pc = "update"
  /\ Skip
  /\ IF opLock = Nobody THEN acquireOpLock(Child, "update") ELSE UNCHANGED <<opLock, run>>
  /\ UNCHANGED <<tag, bundles, checkout, binary, host, lastDone>>

\* Any refusal, failure or kill of the tick.
CronStops ==
  /\ cron.pc \notin {"idle", "uptodate"}
  /\ Skip
  /\ UNCHANGED <<tag, bundles, checkout, binary, host, opLock, run, lastDone>>

runAutoUpdate ==
  \/ Tick \/ probeVersions \/ SayUpToDate \/ preflightStackHealthy
  \/ CronPull \/ CronUpdate \/ CronStops

-----------------------------------------------------------------------------
Next ==
  \/ Release \/ PublishBundle \/ StopService \/ operator_bootstrap_if_skewed
  \/ \E p \in Terminals : StartCommand(p)
  \/ \E p \in Runs : Advance(p) \/ ComposeUpFails(p) \/ RunDies(p)
  \/ runAutoUpdate

\* A process that has started goes on; what it waits for it waits for with a deadline.
\* Nobody has to release, to publish or to type a command.
Fairness == \A p \in Runs : WF_vars(Advance(p))

Spec == Init /\ [][Next]_vars /\ Fairness

-----------------------------------------------------------------------------
(* Properties.                                                             *)

\* A command reports success only when the release it fetched is the one all images are
\* of, both configs are rendered by and all services run, whatever earlier commands
\* left half done, other terminals did and the ticks pulled meanwhile.
Delivers ==
  \A p \in Runs : At(p, "done") =>
    /\ \A i \in Images   : images[i] = run[p].want
    /\ \A t \in Targets  : rendered[t] = run[p].want
    /\ \A s \in Services : running[s] = run[p].want
    /\ schema >= run[p].want
    /\ env # "torn"

\* A release once deployed stays deployed until the checkout moves: a second command
\* that fails or is killed anywhere takes services down at most, and the images of no
\* service that runs; it brings none of them back to another release.
DoneSticks ==
  lastDone = checkout =>
    /\ \A i \in Images   : images[i] \in {checkout, 0}
    /\ \A s \in Services : running[s] # 0 => running[s] = checkout /\ images[ImageOf[s]] = checkout

\* A service is recreated only when the images of one whole release are loaded.
NoMixedRelease ==
  [][\A s \in Services : running'[s] \notin {0, running[s]} =>
       \A i \in Images : images[i] = running'[s]]_vars

\* Every command comes to an end, also when its bundle is never published.
RunsEnd == \A p \in Runs : run[p] # NotRunning ~> run[p] = NotRunning

\* ct:194, of auto-update: "Idempotent: re-running mid-upgrade picks up where it left
\* off."  A tick that has nothing to do must then find the release deployed that an
\* earlier tick has pulled.
PicksUpWhereItLeft ==
  cron.pc = "uptodate" /\ cron.tried = cron.latest /\ opLock = Nobody =>
    \A s \in Services : running[s] \in {cron.latest, 0}
=============================================================================

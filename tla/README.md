# A TLA+ model of cool-tunnel-server

This directory holds a specification of the parts of cool-tunnel-server whose
correctness depends on order, concurrency and failure, the TLC configurations
that check small instances of it, and TLAPS proofs of the results that should
hold for every instance. Paths below are relative to the repository root.

## 1. The system

| Component | State it keeps | Operations | Talks to |
|---|---|---|---|
| Proxy accounts (`packages/db/src/store.ts`, `apps/api/src/app.ts`) | rows of `proxy_account`: current and previous UUID, grace deadline, expiry, enabled | create, update, enable, disable, rotate, delete | spawns the renderer after each mutation |
| Renderer (`apps/api/src/core-boundary.ts`, `singbox-core/src/subcommands/render-server.ts`) | `singbox.json` on a shared volume | snapshot, compare, replace by rename | the file is watched by the supervisor |
| Supervisor (`singbox-core/src/subcommands/supervise.ts`) | the child it tracks, debounce timer, poller baseline | boot, watch, poll, validate, kill, respawn | sing-box child processes, Docker's restart policy |
| Admin users (`store.ts`, `app.ts`, `packages/shared/src/index.ts`, `operator/src/tasks/admin.ts`) | `user`, `account`, `session` rows | create, change, reset, delete, own password; the same from `ct admin users` | two kinds of processes on one SQLite file |
| Sign-in (`apps/api/src/auth.ts`, `app.ts`) | sessions, attempt counters in memory, TOTP secrets | sign in, two factors, lockout | Better Auth |
| Bootstrap (`store.ts`, `admin.ts`) | setup tokens | create token, first owner by form or CLI | both may run at once |
| Settings (`store.ts`) | the row `server_config` | PATCH, `ensureDefaults` at each start | rendered into both configs |
| Subscription (`app.ts`) | none | signed manifest of one account | reads the database, not the live config |
| Core actions (`core-boundary.ts`, `docker-proxy.ts`) | `Caddyfile` | render, restart containers, doctor, backup | Docker through an allow-list proxy |
| Jobs (`apps/api/src/jobs`) | repeatable jobs in Redis | audit retention | deletes old `audit_log` rows |
| Operator (`ct`, `operator/*.ts`) | checkout, `.env`, database file, volumes, lock files | install, update, auto-update, backup, restore | Docker, git, SQLite |
| Image bundles (`scripts/*.sh`) | cache of parts, loaded images | wait, download, verify, load | GitHub releases, Docker |
| ct-protocol (`core/ct-protocol`) | none | types; `check_freshness` | client and server |
| reality-keygen (`singbox-core`) | none | a key pair | `.env`, by the operator |
| Preflight and doctor (`operator/src`) | none | look at Docker, the disk, the database, the API | open the store |
| Admin web (`apps/web`) | React state of a page | server actions, wizards, buttons | the API |
| Build, release | none of their own | - | - |

How the parts meet. A change in the panel is a request to the API, which commits
it to SQLite, snapshots the accounts and spawns `singbox-core render-server` in
the same turn of its event loop, and then awaits it. The child replaces
`singbox.json`. In another container the supervisor learns of the rename from
`fs.watch` or from its own poll of the mtime, validates the file, stops its
sing-box child and spawns a new one. The two halves share nothing but the file.
`ct render` and `ct admin users` are further processes on the same database and
the same volume; no lock is common to them and to the API. The commands that
change the host (`install`, `update`, `backup`, `restore`) exclude each other by a
lock file whose lock the kernel releases with the process. The panel, Docker's
restart policy, `ct admin` and the auto-update tick take no part in it.

What is hard:

- several renders are in flight at once, and nothing orders their writes;
- a commit and its render are not one step: the render may fail, or the API die;
- the supervisor waits (for a dying child, a debounce, its boot) while the file
  goes on changing, and reads it again after it has validated it;
- a request reads who is acting, awaits a body or Argon2, and writes later;
- the store's guards and its writes are separate statements of two processes;
- deadlines (grace, expiry) pass without any event;
- a command on the host is a chain of steps that may fail or be killed anywhere,
  and the next command, or the next night's tick, starts from what it left;
- a backup copies a database and a volume that go on changing;
- a Docker command that fails is in several places read as an answer ("not
  running", "no volumes");
- the same settings exist in five copies, and several processes overwrite them;
- a client holds what it fetched for days, with a clock of its own;
- an answer reaches a page that has moved on.

What makes each part correct: the file follows the database; the live server
follows the file; nobody is left running that nobody tracks; an owner remains;
nobody is changed by one who may not change him; no write undoes another; a
command that reports success has deployed one whole release, or restored one
whole archive; an archive misses no earlier commit; a client that was told a lifetime or a
grace period has it; a replaced password lets nobody in; a deploy leaves one configuration
everywhere; what a page or a report says is so.

The list of hazards, each with the line where it bites and the properties that
watch it, is in `PROJECT.json`.

## 2. Modules

| Module | Models | Extends / instantiates |
|---|---|---|
| `RenderPipeline` | accounts, settings, render processes, the config file | - |
| `ClientView` | the subscription of an account and the client that uses it | extends `RenderPipeline` |
| `Freshness` | how long a client trusts a manifest, by two clocks | - |
| `RealityKeys` | `reality-keygen` and its Montgomery ladder | - |
| `LiveConfig` | abstract: what clients may observe of the live server | - |
| `Supervisor` | `supervise`: boot, detectors, restart callbacks, children | `LiveConfig` (refinement) |
| `DataPlane` | the render pipeline and the supervisor over the shared file | extends `RenderPipeline`, instantiates `Supervisor` |
| `AdminUsers` | the user table, requests and CLI commands upon it | - |
| `LoginThrottle` | the two attempt counters of the sign-in form | - |
| `SignIn` | passwords, second factors, sessions, the forced rotation | - |
| `FirstOwner` | setup tokens, the setup form, `create-owner` | - |
| `TwoFactorPanel` | the two wizards of the page /me and their server actions | - |
| `RowActions` | the buttons and the form of a user in the admin web | - |
| `Access` | the five above, which share no state, each moving alone | extends them |
| `Settings` | the copies of the settings and who moves them | - |
| `Retention` | the repeatable job in Redis and the API that registers it | - |
| `EnvFile` | the migration of an old `.env`, as functions over its lines | - |
| `ImageLoad` | abstract: what a caller of `fetch_image_bundle.sh` may rely on | - |
| `ImageBundle` | `fetch_image_bundle.sh` over parts, hashes and `docker load` | `ImageLoad` (refinement) |
| `Health` | containers, and who reads their state: update, doctor, dashboard | - |
| `Host` | `Settings` to `Health`, which share no state, each moving alone | extends them |
| `BackupRestore` | `ct backup` and `ct restore` beside the stack they copy | - |
| `Deployment` | releases on their way to the containers: install, update, auto-update | - |
| `RenderPipeline_proofs` | theorems on `RenderPipeline`, `ClientView` and `Freshness` | extends them and `TLAPS` |
| `DataPlane_proofs` | theorems on `DataPlane` | extends it and `RenderPipeline_proofs`, instantiates `Supervisor_proofs` |
| `Access_proofs` | theorems on `Access` and each of its parts | extends it and `TLAPS` |
| `Host_proofs` | theorems on `Host` and each of its parts | extends it and `TLAPS` |
| `Supervisor_proofs`, `AdminUsers_proofs`, `BackupRestore_proofs`, `Deployment_proofs` | theorems on the module of that name | extend it and `TLAPS` |
| `MC...` | instances for TLC, `MCSupervisor` for `Supervisor` and so on: symmetry and sets of inputs | extend their modules |

Definitions named `..._something` under a comment `MUTANT` are a faulty variant
of the definition that follows; no specification uses them. They show, one per
checked property, that the property can tell the code from a plausible mistake.

Three runs check several components that share no state: a variable chosen in the
first state says which of them moves, and the others stay at rest. `Access` joins what
guards and shows the panel (`LoginThrottle`, `SignIn`, `FirstOwner`, `TwoFactorPanel`,
`RowActions`), `Host` what the containers are started on (`Settings`, `Retention`,
`EnvFile`, `ImageBundle`, `Health`), and `MCRenderPipeline` the path from the panel to a
client (`RenderPipeline`, `ClientView`, `Freshness`, `RealityKeys`).

### RenderPipeline

`account` holds one row per id. The handlers `createProxyAccount`,
`updateProxyAccount` (also enable and disable), `regenerateProxyUuid` and
`deleteProxyAccount` commit the row and start a render on the new rows in one
action, `Mutate`: in the code there is no await between the commit and the
spawn. `updateSettings` commits and starts nothing, as in the code.
`RenderOnDemand` is the panel's action and the CLI. A render process compares
its output with the file (`CompareEqual`, `CompareDifferent`) and renames
(`atomicWrite`), or fails at any point (`RenderFails`). `ApiRestart` kills the
renders the API has spawned. Time is the two events `AccountExpires` and
`GraceLapses`. A config is the set of UUIDs it admits and the settings.
`latest` is a history variable: the render started last, its outcome, and the
inputs of those in flight when it started.

### ClientView

A client has the URL the operator revealed, an answer under way, and the profile
it last imported. `Fetch` is the whole handler of the subscription: its awaits wait
for nothing, so it answers in one step, from the database. `Import` may come at
any time later, after rotations too. `rotated` and `open` are the history of the
UUID a manifest carries: how often it was rotated away, and whether the ten minutes
of the first rotation still run. A row draws UUID and subscription secret together,
so one value stands for both, and the HMAC of a token is the pair it signs.

### Freshness

Two clocks, each of which may be set at any time, and the manifest the client holds.
The lifetime is a constant of the TypeScript server, the window one of the Rust crate;
that the two are equal is an assumption, `TtlAssumption`, read off both programs.
`MaxTime` is `u64::MAX`: the constructor of the crate saturates there, the server does not.

### RealityKeys

WebCrypto's answer is the multiple of the base point by the clamped key, added by chord
and tangent on the curve. The fallback is the ladder of the code, one action per turn
of the loop, over a field of 71 elements with a curve of the same shape (cofactor eight, base
point of prime order). `LadderTracks` is its loop invariant.

### Supervisor

One action per handler of the event loop up to its next await: the phases of
`runSupervise`, `WatchEvent`, `PollTick`, the debounce callback before
(`TimerKills`, `TimerSkips`) and after (`KillDone`) its wait for the child, and
the steps of sing-box itself, taken as external: it reads its file some time
after the spawn, binds the port or loses it to another child, exits after a
signal, or crashes. Watch events may be lost (`WatchMiss`). `DockerRestart`
and `ContainerRestart` are `restart: unless-stopped` and `ct restart`. A config
is a version and a kind (good, legacy, bad); the migrated copy of a legacy file
is a file of its own.

`killing[k]` is a restart callback that waits for its child to exit, which may take up to the
grace of 5 s; the debounce is 250 ms, so another callback may come to wait meanwhile (`Callbacks` is
how many may). When the child exits they all go on in one turn of the event loop (`Resumed`), and each
spawns: of these children only the last is tracked. `orphans` remembers those that were started while
another callback was suspended, `raced` the file that came during the boot's own synchronous steps,
between which the loop does not turn but another container may rename.

No assumption is made on how fast children exit or when files come. `OnlyTrackedRuns` holds without
exception: who is not tracked is one of the `orphans`. What an orphan does afterwards the code does not
limit: it holds :443 with an old file, every child started later finds the port taken, and
`killChild` only reaches the latter. The three properties that relate the child to the file are therefore stated up to it
(`Overlapped`), and the first two up to a `raced` file: the poller takes its baseline after the
spawn, so a replacement between the child's read and that baseline goes unnoticed. Both cases contradict
comments of the code (section 3).

### DataPlane

`OnDisk` is the bridge: the number of renames is the file's version, and what
the renderer writes passes `sing-box check`. Each half takes its own
steps; a rename is at the same time the supervisor's `ReplaceConfig`. `ServesAsDb` is what
holds whenever the container is at rest, `ChangeReachesClients` that it gets there.

### AdminUsers

`work[p]` is what process `p` is doing. A route admits a request with the actor
as the session showed him (`Accept`); later `Check` or `Refuse` runs the SELECTs
and guards of a store method, and `updateUser`, `resetPassword` or `deleteUser`
its write, with the row `Check` has seen (the UPDATE writes every column).
`createUser` is a transaction, `changeOwnPassword` has no check. `Turn` is the
event loop of the API: no two of its requests are inside the store at once. A CLI
process is another process and is kept out only if `Serial`. `password` records
whether the user chose it or was given it.

A request is judged by the role its session had when it was admitted, as in the code: what an actor sends
before being demoted or disabled may take effect afterwards, and the properties speak of that role.
The routes of Better Auth itself, which `app.ts:229` passes everything under `/api/auth/` to, change rows as
well. What signing in, two-factor and sessions do is in `SignIn` and `TwoFactorPanel`; its general update of
the signed-in user is an external library's and no action of this module (`auth.ts:67-82` declares role,
status and the forced change as additional fields of the user), so nothing here is said of it.

### LoginThrottle and SignIn

A JavaScript `Map` keeps its keys in the order of insertion, and the cap drops the
first: a map of counters is a set of entries, each of which knows its place. `attempt[p]` is a request between the check
of the counters and Better Auth's answer, a password hash later.

In `SignIn` a password is the number of times it was set, and an era of a user ends
when the password is set or the user disabled; every session remembers the era its
password was proved in. A sign-in reads and compares the hash, passes the hook of
`auth.ts`, and inserts its row, in three steps; with a second factor it leaves a
cookie that one code turns into a session. Resets, changes and disables come from
elsewhere at any time. `Admitted` is the two gates every API request passes.

### FirstOwner

`createBootstrapToken`, `create-owner` and the form each ask whether there is an owner
and then wait for a hash. The form's transaction asks again; the command does not. `raced`
remembers that a command had asked before the first owner came.

### TwoFactorPanel and RowActions

The components keep state in React hooks, and Next.js sends the server actions of a page
one after the other; `queue` and `sent` are those not answered yet. Closing the enrol wizard
starts a timer that resets it, while its actions go on (`ResetWizard`, `VerifyAnswered`).
Better Auth's `enable` replaces the stored secret at once and turns two-factor on only with
the first right code. Another browser (`Elsewhere`) or administrator (`SomebodyElse`) may act
at any time. Assumed: nobody types a password within the 200 ms of the timer.

### Settings

`.env`, the environment a container was created with, the row `server_config`, the
Caddyfile, `singbox.json` and what Caddy has loaded: every process that opens the store first
lays its own environment over the row (`ensureDefaults`), the panel saves into the row, and
a render reads the row and rewrites the Caddyfile in place (`BeginWrite`, `EndWrite`). A render by
command or deploy runs in a container of its own, with the `.env` of the moment it was made
(`renderScript`, `OpenStore`). `script` is which of the two commands deploys: `ct update` makes every
container anew and reloads Caddy (`Recreate`, `ReloadCaddy`), `ct install` runs a plain `compose up`
(`startStack`), which may leave the API and Caddy running: `.env` is the API's environment, so a change of
it makes a new API, and no part of Caddy's. `keptCaddy` says that the latest deploy left Caddy as it was. One domain
stands for the fields the environment overwrites, one key pair for a field that keeps its
first value. `disturbed` records what the deploy cannot be blamed for.

### Retention

The schedule and its payload live in Redis, which saves them now and then and comes back with
what it had saved. That a registration replaces an earlier one of the same key is what the
comment in `queue.ts` says of BullMQ; it is not checked against the library.

### EnvFile

`migrateEnv` is the composition of its four phases, as functions from a sequence of lines to
another; lines are told apart by what the phases look for. A file may be anything that gives
no key twice, of up to `MaxLines` lines: four in the run, any number in the theorem. It is
migrated three times.

### ImageLoad and ImageBundle

A release publishes a bill of materials and the parts of one archive per image, or one full
archive. Files in the bundle directory keep their names over releases and are told apart by their
hash. Each part is downloaded, verified, streamed into `docker load` and removed; `docker load` may
have tagged the image before the hash of the whole is known. `set -e` has no effect left of
`||`, so a part that is missing is left out and the stream goes on: only the hash at the end
notices. The script may be killed anywhere. `load` maps it onto `ImageLoad`.

### Health

Docker, the processes and the health checks move the containers; `ct update` asks `docker compose
ps` before and after, `ct doctor` runs its sixteen checks one by one, the dashboard inspects each
container. Checks of things outside the stack (DNS, the certificate, egress, memory) may answer anything;
two of them start programs that may be absent, and throw.

### BackupRestore

The database is two sets of commits: `file` (`admin.sqlite`) and `frames`
(`admin.sqlite-wal`). A commit goes to the log, a checkpoint copies the log into
the file, the next commit after it starts the log again. The last connection to
close removes the log; the API never closes its own, however it exits, so the log
outlives it. Whoever opens the file reads both. `./data/admin` is a directory of the
host, which `docker compose down -v` leaves alone. `caddy_data` is a volume; what is
in it is the number of the newest certificate.

`runBackup` and `runRestore` have one action per step of the code that another
process could see. A Docker command whose failure the code reads as an answer
(`serviceRunning`, the two refusals of restore) or ignores (`stop` and `start` of
Caddy) may fail. Both commands may die anywhere. `restartServices` is the
panel's, `AdminCommand` is `ct admin`; neither looks at the lock.
`ComposeDown` and `StartStack` are what a person types, with `lock` free.

Abstracted: one archive, the last one written, and `.env`, manifests and template as
one item. The copy of the database file onto the host is atomic. The archive's file comes from VACUUM, which
numbers its pages anew, while a log holds images of pages of the file before: restored beside a log, or
under an API that has the file open, the database holds the log's commits and any part
of the archive's (`lost`, chosen by `CopyDatabase`; `rs.mixed` says that it was so). A file that
SQLite refuses as malformed counts as one that has lost everything; that the API then fails to start is
not modelled, nor what connections that were open go on to write over the new file.

### Deployment

A release is a number: of the tag on origin/main, of the checkout, the operator
binary, each local image, the schema, each rendered config, each running service.
`run[p]` is an install or update between two of its steps, with the release of its
own binary, the release `fetch_image_bundle.sh` read from `package.json`, and
the images not loaded yet. `cron` is the tick: it has its own lock (so it is one
process), compares and pulls outside the operation lock, and starts `ct update` as
the process `Child`. `.env` is first cut short and then written. The cleanup before an
update is `docker system prune -af`: it removes the images of a stopped stack. Every step
may fail or be killed; what it has done stays.

Left out: redis (no release brings its image), the reload of Caddy after its
container was recreated (it is in `Settings`), checks of network and disk (they only
refuse early), and a rollback by hand with `git checkout`. `StopService` happens only
between two commands. A process that dies takes its own subprocesses with it.

## 3. Runs

| Run | Instance | Shows | Properties besides `TypeOK` |
|---|---|---|---|
| `render_pipeline` | 2 accounts, 3 UUIDs, 2 settings, 2 processes, 4 requests; with a client 1 account and 3 requests; clocks up to 8, lifetime 3; curve over 71 elements, keys of 8 bits | the file is stale only through an overlap of renders; a rotation drops no client early; manifests live as long as promised; key pairs match | `StaleOnlyFromOverlap`, `SoloRenderMatchesDb`, `GraceKept`, `PromiseKept`, `KeyPairMatches` |
| `supervisor` | 3 versions, 3 callbacks, 1 crash, 1 restart, old files of every kind | orphans only from overlapping callbacks; without them the child ends on the newest file, and no old config comes back: refinement of `LiveConfig` | `OnlyTrackedRuns`, `SettledServesFile`, `TwoSpawnsPerWrite`, `FollowsFile`, `NeverServesOlder` |
| `data_plane` | 1 account, 2 UUIDs, 2 render processes, 2 callbacks, 2 requests | a change reaches the clients | `ChangeReachesClients` |
| `admin_users` | 3 users, 3 roles, 2 requests and 1 CLI command in flight, `Serial` | an owner remains, peers untouched, nothing brought back | `AnOwnerRemains`, `PeersUntouched`, `NothingBroughtBack` |
| `access` | 2 addresses, 2 e-mails, 2 attempts; 1 user, 2 sign-ins, 3 eras; 2 forms, 2 commands, 3 tokens; 3 secrets, 3 queued actions; 1 user with 2 queued actions | guesses bounded, locks end, old passwords held, first owner alone, wizard and buttons truthful | `FailuresBounded`, `OldPasswordsHeld`, `FirstOwnerSafe`, `LockEnds`, `WizardTruthful`, `RowHonest` |
| `host` | 2 contents of `.env`, a click, a command, a deploy by install or update, two of which render at once; 3 retentions; files of 4 lines; 2 images of 1 and of 2 parts, 2 releases; 2 containers, 2 probes | one configuration after a deploy, pruning as configured, the migration settles, refinement of `ImageLoad`, outages seen | `DeployAgrees`, `PruneFollowsConfig`, `EnvSettles`, `KeepsPromise`, `HealthSeen` |
| `backup_restore` | 3 commits, a certificate and its renewal | archives are complete, Caddy comes back, success means restored, if no log lay beside the file | `BackupHasCommitted`, `TornOnlyIfDisturbed`, `CaddyComesBack`, `RestoredFromArchive` |
| `deployment` | 2 releases, 2 images, 3 services, 1 terminal and the tick | success means one whole release; none undoes it; every command ends | `Delivers`, `DoneSticks`, `NoMixedRelease`, `RunsEnd` |

The bounds. Two renders in flight are needed for an overlap, and with four
requests two may overlap after two others have set the scene; a third process
adds rivals of the same kind. With a client three requests are a creation and two
rotations, and three UUIDs one for each. A lifetime of 3 in 8 seconds leaves room for a
manifest before, in and after its window, and next to the last second. Eight bits are
three that clamping clears, one that it sets, and four for the ladder to err in; the ladder is checked for every
key. Two versions after a legacy one let a
replacement fall into a restart that is itself due to a replacement, and three callbacks can be suspended at once, one more
than make an orphan; `MaxSpawns` is what `TwoSpawnsPerWrite` allows for them, so no spawn is cut off. With
four versions, two callbacks and `MaxSpawns = 9` the same was checked once (1.3 million states). In
`data_plane` no restart and no crash come, which `supervisor` has.
Three users are an actor, a target and the one who interferes; of the two
middle roles admin is the one with rights over others, and operator differs
from viewer in no rule on users. In `access` two attempts in flight pass one check, a map that holds one key
forgets the other, and three eras let a sign-in be overtaken twice. Three secrets are the
one scanned, the one that replaced it and one of another browser. In
`host` one click and one command are the two kinds of processes that render beside a
deploy; `MaxRenders` lets two of the three write at once. Four
lines are a domain, a definition and two references, in any order. Of the two containers one
has a health check and one has none. Three commits let one be in the archive, one in
the log beside it and one be made after the restore; one renewal tears a copy. Two releases are an old and a
new one; the safety properties of `Deployment` were also checked once with three (10 million
states). Two of the three services share an image, as `admin-api` and
`docker-proxy` do. The constants named `Max...` are the only bounds on counters, and
`InClient` in `MCRenderPipeline` bounds the client's part.
Deadlock is checked for `BackupRestore` and `Deployment`, where somebody may
always type a command. The other models may come to rest once their bounds are used
up, as the real system does whenever nobody sends a request.

Runs that end in a violation, each of a sentence in the repository:

| Run | Property | Sentence | What happens |
|---|---|---|---|
| `overlapping_renders` | `FinishedRendersMatchDb` | `app.ts:874-875` | two renders write in the wrong order |
| `reality_rotation` | `ReimportWorks` | `docs/operations.md:300-302` | after a change of the key pair the server has the new key and subscriptions carry the old one |
| `restore_over_log` | `RestoredIsArchive` | `docs/operations.md:239-240` | the log of the old stack is applied to the restored file |
| `auto_update_gives_up` | `PicksUpWhereItLeft` | `ct:194` | after a tick that pulled and failed, every later tick is "up to date" |

Further sentences that the models, as they stand, do not bear out. They have no run of their
own; each was seen in a run of the module named.

- `RenderPipeline`: `docs/restrictive-networks.md:110-112`, saving the settings "re-renders the live
  config automatically": it starts no render, and the DoH resolver is no input of one.
- `ClientView`: `core-boundary.ts:147-149`, a rotation does not "instantly reject" old clients: a second
  one within ten minutes overwrites `previousUuid` and drops the first UUID at once.
- `Supervisor`: `supervise.ts:9-10`, any change of the file leads to a kill and a respawn, and `supervise.ts:356-360`, the poll
  "closes the 'rendered file changed, live sing-box process still old' drift window". Two callbacks that wait for
  the same child (a change found by the watcher, then by the poller, and a child slow to exit) both spawn;
  the first new child has no name any more, binds :443, and serves its file for ever, while every
  later child finds the port taken and exits. And a file that is replaced between the first child's read and
  the poller's baseline is not noticed before the next. `OnlyTrackedRuns` shows that there is no third way to
  an orphan, `FollowsFile` that without these two the window closes.
- `AdminUsers` without `Serial`: `README.md:226-227` (API and CLI together remove the last
  owner) and `admin.ts:212` (a change of the own password undoes a reset).
- `AdminUsers`: `app.ts:523-526`, an admin may promote a viewer to admin.
- `Settings`: `operator/help.ts:122-123` and `doctor.ts:5`, the doctor does not "modify state": two of its
  checks call `ensureDefaults`, which puts the environment over what the panel saved. The settings
  the panel accepts for these fields last until the next start, command or doctor.
- `Settings`: `docs/operations.md:396` and `operator/help.ts:32` call `ct install` idempotent: run again with another domain
  in `.env`, it renders the new Caddyfile and makes a new API, leaves a running Caddy as it is, and exits 0.
- `Retention`: `.env.example:58-60`, "Set to 0 to disable cleanup": the job registered before goes on.
- `EnvFile`: the header of `env-migrate.ts`, phase 2 relocates `PANEL_DOMAIN` to before the first
  reference: phase 3 may make a reference after phase 2 has run, which only the next update repairs; the
  definition goes behind `DOMAIN=`, wherever that is, and is lost in a file without such a line.
- `Health`: `docs/operations.md:68-70`, "Any FAIL row comes with a one-line hint": the row of a check that
  throws has none. A container that restarts in a loop and has no health check may be seen running by the
  update's gate, and the doctor exits 0 with sing-box down (a WARN).
- `TwoFactorPanel`: `two-factor-panel.tsx:82`, "Reset for next open": an answer that comes after the
  reset leaves the closed wizard at "done", and after two-factor was disabled "Set up" opens with "Two-factor
  authentication enabled." `WizardTruthful` names that case (`late`) and excludes it.
- `RowActions`: the form sends the status it was rendered with, so a form opened before may enable a user
  who was disabled since; a 401 inside a server action becomes the message NEXT_REDIRECT.
- `Deployment`: `docs/operations.md:149`, the cleanup runs `docker system prune -f`: it runs `-af`, which removes
  the images of a stopped stack as well.

## 4. Fairness

Only what a running process does by itself is fair: a spawned renderer runs to
its end, the event loop of the supervisor turns, its poll comes every two
seconds, Docker restarts an exited container, a child reads its file, binds and
exits when signalled. Requests, watch events, crashes and restarts need
never come.
In `Deployment` a command that has started goes on, and its waits end: each
has a deadline in the code (`GivesUp`). Nobody has to release, to publish a bundle, to
type a command, and no tick has to come. In `access` the one fair action is `ThrottleTick`: time
passes. Attempts, answers and sign-outs need never come. The other modules have
safety properties only and no fairness.

## 5. Proofs

Each theorem holds for every value of the constants that satisfies the assumptions named in
the model's module, the bounds `Max...` included. Each proof has the same shape: an inductive
invariant, that the first states have it, that every action keeps it (a lemma per action or
group of actions, a step per conjunct the action can disturb), and that it implies the property.
The invariants were checked by TLC before they were proved. What follows says what each
adds to the property and why that is needed.

`RenderPipeline_proofs`: `TypeOK`, `StaleOnlyFromOverlap`, `LatestRenderCoversDb`,
`SoloRenderMatchesDb`. The invariant adds `InFlightIsRival`: while the latest render has not
written, what is in flight beside it is among the rivals it remembers, and when it has finished
whatever may still write is among them. Without it the step `atomicWrite`
of an older render could put anything into the file. `SoloRenderMatchesDb`
follows from the other three. For `GraceKept` it is joined by `UuidsSpent` and `ManifestsTell`: what a
client holds, or is about to, names the row's present UUID if that was never rotated since, and its
previous one if it was once and the grace still runs. Assumptions: the placeholder UUID is none
that is drawn, the value that stands for no manifest is none, and `MaxRequests` is a number.

In the same module, for any window, any last second and any movement of the two clocks,
`PromiseKept`. The invariant is that a lifetime starts with the issue and is no longer than the
window, saturated or not. Assumption: the lifetime is the window, as in the code.

`Supervisor_proofs`, with no assumption but that at least one version may be written and that only an old file is
legacy: `TypeOK` and
`TwoSpawnsPerWrite`, by way of `Basics` (where the boot stands and what versions are known) and
`Budget` (spawns made and spawns that armed timers, suspended callbacks and unseen versions may
still make are together within the bound). `OnlyTrackedRuns`, for any number of callbacks, by way of `Overtaken`: a
callback that waits for another child than the tracked one knows the tracked one as an orphan.
For the others `Tracked` says what holds until callbacks overlap: at most one process is alive, and at most one
callback waits, for that one; `Monotone`, that only a new container forgets an overlap. From it follow
the refinement of `LiveConfig` (`NeverServesOlder`), by way of `Order` (a migrated copy is read only while
nothing newer has been served: a legacy file is never more than the first version), and
`SettledServesFile`, by way of `InPlace`: unless a detector has still to see it, or it is `raced`, the tracked child
is on the file or was started from it. The two exceptions are part of the properties, and section 2 says
why the code needs them.

`DataPlane_proofs`: every step of the whole is a step of `RenderPipeline` and one of `Supervisor`, or
a stutter there (`StepSplits`), so the invariants of both hold together. From them: every variable
keeps its type (`WholeTypeCorrect`). Whenever the container is at rest, the live server admits clients as the
database says, unless the last render failed or overlapped a different one, the child has crashed, callbacks
have overlapped or the file is `raced` (`ServesAsDb`). The whole implements `LiveConfig`, with the renames as its
versions, up to an overlap of callbacks (`NoRenderUndone`). A request replaces the file at most once (`WritesAreRequested`), over
`Owed`, which counts the renders in flight that may still rename, and so disconnects the clients at
most twice (`TwoSpawnsPerRequest`). The first of the last two also shows that `MaxWrites`, a bound of the
supervisor's half, stops no render. These four properties were checked with TLC on the instance of
`data_plane` (465,159 states) and are kept as theorems, not in the run.

`AdminUsers_proofs`, for any finite set of users. Two groups of theorems:

- If processes take turns in the store (`TakeTurns`: `Serial`, or there is no CLI process, so the API by
  itself needs no assumption), `AnOwnerRemains` holds always and no step violates `PeersUntouched` or
  `NothingBroughtBack`. The invariant adds `AloneAndCurrent` (whoever is between its guards and its write is
  there alone, the row it has read is still the row, and its guards still hold) and `NamedRoles`. The owner
  count enters through one lemma: if more than one active owner is counted there is one beside any
  given user. `NothingBroughtBack` rests on `AloneAndCurrent`: the write puts back every column, and those
  that were not asked for are still what they were.
- In any order, API and CLI together: `TypeOK`, and `OwnersDecide`, that nobody becomes an owner or is deleted but
  by what was asked for as an owner, and nobody deletes himself. The row may change between the guards and the
  write, so the invariant (`LetThrough`) speaks of what the process has seen: the role it will write was
  judged with it. `OwnersDecide` was checked with TLC on the instance of `admin_users` without `Serial`
  (151,895 states) and is kept as a theorem, not in the run.

`Access_proofs`, one part per component:

- `FailuresBounded`, for any finite set of requests in flight, over `ThrottleInv`. For each e-mail it
  says what its live entry has counted: exactly the failures since its window began (`Counted`),
  the first of which is as old as the window, so that it leaves `recent` when the entry lapses. What was
  counted and what is in flight stay within the limit together, because a request is let in only below it
  (`Flights`), and the failures from before that window are as few. Without the first half nothing ties
  the history to the counters, without the second nothing bounds what the requests past the check add.
- `OldPasswordsHeld`, over `AllHeld`: the password that any session, half sign-in or request past its
  hash was proved with is the present one, or from before the user was let in anew, or the
  forced rotation is on.
- `FirstOwnerSafe`, over `CreatorsRaced` (a command that asked before there was an owner knows that it
  was overtaken) and `FilesOpen` (the token in the file, or on its way there, is in the database).
- `RowHonest`, over `OneCommand`, `Messages` (whose answer the message is, and whose the timer) and
  `ShowsKnown`.
- `WizardTruthful`, over eight facts on the queue of server actions and the two dialogs. The
  hard case is a "disable" that overtakes the wizard: `DisableSent` and `DisableOpen` say that when it is
  sent no step of the wizard relies on two-factor and nothing queued before it will bring one, except late.
- `ThrottleTypeOK`, `SessionTypeOK`, `SetupTypeOK`, `PanelTypeOK`.
- `Access` implements the specification of each part (`AccessIsItsParts`), so `TypeOK` and
  all of the above hold of it: these are what the run `access` checks.

`Host_proofs`, one part per component:

- `BundleSpec` implies `ImageLoad`'s specification (`FetchKeepsPromise`), under the mapping of `pc` to `load`:
  the first state maps to a first state and every step to a step or a stutter. The step that exits
  with success needs `DoneIsLoaded`: whatever is no longer to be done is of the release that is loaded, and
  a stream that ended whole has tagged its image. `PartsBounded` bounds the disk: besides what killed
  runs have left, there is one part at a time. A release has at least one part per image.
- `DeployAgrees`, over `SoFar`: which copies the deploy has brought into agreement at each of its steps,
  by install or by update, kept up as long as nobody has interfered. The deploy is none of the clicks and commands.
- `PruneFollowsConfig`, over `JobIsConfigured`.
- `HealthSeen`: that update, doctor and dashboard judge a container alike is a lemma about their
  operators (`VerdictsAgreeHolds`, with `DisksAgreeHolds` for the thresholds), for any containers in any
  state; the rest is over `Verdicts` (what a container answered before it was called healthy) and `Outages`.
- `EnvSettles`, for files of any length, over `MigrationInv`: which phases have nothing left to do. After one
  update `PANEL_DOMAIN` is derived, the address corrected and the direct settings are set; after two the
  definition is in its place as well. `Migrates` composes a lemma per phase, each of which says what its phase
  establishes, that it undoes nothing the others have done but the place of the definition, and that it
  leaves alone a file that needs nothing. They rest on what inserting, removing, replacing and appending a line
  do to the first line of a kind. One argument by induction, `LeastIndex`, uses that the naturals
  are well-founded, which the library states of a relation.
- `BundleTypeOK`, `SettingsTypeOK`, `EnvFileTypeOK`.
- `Host` implements the specification of each part (`HostIsItsParts`), so `TypeOK` and all of
  the above that the run `host` checks hold of it.

`BackupRestore_proofs`: `TypeOK`, `BackupHasCommitted`, `TornOnlyIfDisturbed`, `CaddyComesBack`,
`RestoredFromArchive` (the database part unless the copy was `mixed` with a log), for any set of commits. `SnapshotHasDue` follows the commits due from the
database into the copy, `TarUndisturbed` a disturbance into the copy's own record of it, and `Replaced` says
which items are the archive's after each step of the restore.

`Deployment_proofs`: `TypeOK`, `Delivers`, `DoneSticks`, `NoMixedRelease`, for any terminals, images, services and
number of releases. `Progress` says how far each step of a command has brought the host, and
that a release in hand is the checkout's once that is deployed; the mutual exclusion of the
commands is the operation lock's. Assumption: the tick's child, the terminals and "nobody" are apart.

Only model-checked, with the reason:

- The liveness properties `FollowsFile`, `ChangeReachesClients`, `LockEnds`, `RunsEnd`: the prover has no fairness.
- `KeyPairMatches`: a fact about every key of one small curve; for Curve25519 it would need the theory of
  the curve.

## 6. Not modelled, and the plan

Not modelled, with the reason:

- `ct`'s dispatch, help texts, terminal output; the wording of manifests, pages and reports: no property
  is about them.
- Hashing, validators, redaction, reading of the environment: pure functions over strings.
- The pages of the admin web that only show what the API answers, and the clipboard hook, whose
  comment (`use-clipboard.ts:31`) says that messages clear by themselves; errors do not.
- The Docker proxy's allow-list, a table, and the restart of several containers, a loop that stops at the
  first error.
- `mergeDockerDaemonIpv4Only` and what belongs to it in `preflight.ts`: nothing calls it.
- `pin-images`, the SBOM and the build scripts: they run on a build machine and keep no state.
- What `docs/cross-platform-clients.md` says of a `client_runtime` section and its key: the API of this repository
  does not produce it. The manifest's `flow` is empty (`app.ts:964`) while the server's users have
  `xtls-rprx-vision` (`render.ts:88`): whether a client may connect with it is a matter of sing-box, which
  is not modelled.
- Schema migrations: idempotent CREATE and ALTER statements; their crash behaviour is SQLite's.

Still to come: the restarts of several containers from the panel, and the throttle of the subscription
endpoint, as far as it differs from that of the sign-in form.

------------------------------ MODULE Supervisor -----------------------------
(***************************************************************************)
(* `singbox-core supervise`: one process that keeps a sing-box child on    *)
(* the config file that somebody else replaces.                            *)
(*                                                                         *)
(* The supervisor is one event loop: a handler up to its next await is one *)
(* action.  Three things may happen between two of its actions, or inside  *)
(* the synchronous steps of its boot: the file is replaced, a child makes  *)
(* progress (reads its config, binds :443, exits), the container stops.    *)
(*                                                                         *)
(* A config is a version number and a kind: "good" passes `sing-box check` *)
(* and is run from its own path; "legacy" was written by an old release    *)
(* and passes after a migration that writes a runtime copy; "bad" does not *)
(* parse or does not pass.                                                 *)
(***************************************************************************)
EXTENDS Naturals, FiniteSets

CONSTANTS
  MaxSpawns,    \* bound: children spawned over all incarnations of the container
  MaxWrites,    \* bound: replacements of the file
  MaxRestarts,  \* bound: container restarts
  MaxCrashes,   \* bound: children that die by themselves
  Callbacks,    \* restart callbacks that may be suspended in killChild at once
  OldKinds,     \* kinds of config that may be there already when the model starts
  Kinds         \* kinds of config the writer may produce

ASSUME BoundsAssumption ==
  MaxSpawns \in Nat /\ MaxWrites \in Nat \ {0} /\ MaxRestarts \in Nat /\ MaxCrashes \in Nat
ASSUME KindsAssumption ==
  OldKinds \subseteq {"good", "legacy", "bad"} /\ Kinds \subseteq {"good", "bad"}

VARIABLES
  config,    \* the file: [ver, kind]; ver 0 is "no file", and counts the renames
  copy,      \* /tmp/singbox-core-supervise/singbox.json, the migrated copy
  phase,     \* where runSupervise is
  prepared,  \* boot: where the child will read its config from
  notified,  \* version of the file at the last fs.watch event (delivered or lost)
  lastSeen,  \* lastSeenMtime of the poller
  timer,     \* restartPending # null
  killing,   \* the callbacks suspended in killChild
  child,     \* the sing-box processes
  spawns,    \* children spawned so far: the name of the newest one
  tracked,   \* state.child
  served,    \* history: version that was last put into service
  restarts,  \* container restarts so far (bounded by MaxRestarts)
  crashes,   \* crashes so far (bounded by MaxCrashes)
  orphans,   \* history: children that a callback of this container started while
             \* another callback was suspended
  raced      \* history: the version put there during the latest boot's own
             \* synchronous steps, or 0

vars == <<config, copy, phase, prepared, notified, lastSeen, timer, killing,
          child, spawns, tracked, served, restarts, crashes, orphans, raced>>

Children == 1..MaxSpawns
Sources  == {"path", "copy"}
Versions == 0..MaxWrites
File     == [ver : Versions, kind : OldKinds \cup Kinds \cup {"absent"}]

NoFile == [ver |-> 0, kind |-> "absent"]
Waiting == [target |-> 0, source |-> "path"]   \* a callback that is not suspended
Dead == [state |-> "dead", source |-> "path", signalled |-> FALSE, conf |-> NoFile]

Alive(c)   == child[c].state \notin {"dead", "crashed"}
Serving(c) == child[c].state = "serving"
Suspended(k) == killing[k] # Waiting

\* The callbacks whose child has exited resume in one turn of the event loop,
\* before its next timer or event: none is left that waits for a child which
\* state.child no longer names.
Resumed == \A k \in Callbacks : Suspended(k) => killing[k].target = tracked

\* prepareAndValidateConfig: does the check pass, and on which file?
Valid(f)  == f.kind \in {"good", "legacy"}
SourceOf(f) == IF f.kind = "legacy" THEN "copy" ELSE "path"
CopyAfter(f) == IF f.kind = "legacy" THEN f ELSE copy

-----------------------------------------------------------------------------

Init ==
  /\ config \in {NoFile} \cup {[ver |-> 1, kind |-> k] : k \in OldKinds}
  /\ copy = NoFile
  /\ phase = "waiting"
  /\ prepared = "path"
  /\ notified = 0
  /\ lastSeen = 0
  /\ timer = FALSE
  /\ killing = [k \in Callbacks |-> Waiting]
  /\ child = [c \in Children |-> Dead]
  /\ spawns = 0
  /\ tracked = 0
  /\ served = 0
  /\ restarts = 0
  /\ crashes = 0
  /\ orphans = {}
  /\ raced = 0

\* render-server's rename; it may come between two steps of the boot.
ReplaceConfig ==
  /\ config.ver < MaxWrites
  /\ \E k \in Kinds : config' = [ver |-> config.ver + 1, kind |-> k]
  /\ raced' = IF phase \in {"checked", "spawned", "watching"} THEN config.ver + 1 ELSE raced
  /\ UNCHANGED <<copy, phase, prepared, notified, lastSeen, timer, killing,
                 child, spawns, tracked, served, restarts, crashes, orphans>>

\* spawnSingbox: the child reads its config only after exec.
spawnSingbox(source) ==
  /\ spawns < MaxSpawns
  /\ spawns' = spawns + 1
  /\ child' = [child EXCEPT ![spawns + 1] =
                 [state |-> "loading", source |-> source, signalled |-> FALSE, conf |-> NoFile]]
  /\ tracked' = spawns + 1

-----------------------------------------------------------------------------
(* runSupervise: boot.                                                     *)

\* MUTANT: a runtime copy left by an earlier boot is used again.
BootPrepare_cached ==
  /\ phase = "waiting"
  /\ Valid(config)
  /\ phase' = "checked"
  /\ prepared' = IF copy = NoFile THEN SourceOf(config) ELSE "copy"
  /\ copy' = CopyAfter(config)
  /\ raced' = 0
  /\ UNCHANGED <<config, notified, lastSeen, timer, killing, child, spawns, tracked, served, restarts, crashes, orphans>>

\* Every 2 s: the file exists and passes the check.
BootPrepare ==
  /\ phase = "waiting"
  /\ Valid(config)
  /\ phase' = "checked"
  /\ prepared' = SourceOf(config)
  /\ copy' = CopyAfter(config)
  /\ raced' = 0
  /\ UNCHANGED <<config, notified, lastSeen, timer, killing, child, spawns, tracked, served, restarts, crashes, orphans>>

BootSpawn ==
  /\ phase = "checked"
  /\ phase' = "spawned"
  /\ spawnSingbox(prepared)
  /\ UNCHANGED <<config, copy, prepared, notified, lastSeen, timer, killing, served, restarts, crashes, orphans, raced>>

\* watch(dirname): renames from now on will be reported.
BootWatch ==
  /\ phase = "spawned"
  /\ phase' = "watching"
  /\ notified' = config.ver
  /\ UNCHANGED <<config, copy, prepared, lastSeen, timer, killing, child, spawns, tracked, served, restarts, crashes, orphans, raced>>

\* startConfigPoller takes its baseline; then the event loop runs.
BootPoll ==
  /\ phase = "watching"
  /\ phase' = "running"
  /\ lastSeen' = config.ver
  /\ UNCHANGED <<config, copy, prepared, notified, timer, killing, child, spawns, tracked, served, restarts, crashes, orphans, raced>>

\* MUTANT: the process lingers in a phase nobody restarts.
BootTimeout_hangs ==
  /\ phase = "waiting"
  /\ ~Valid(config)
  /\ phase' = "stuck"
  /\ UNCHANGED <<config, copy, prepared, notified, lastSeen, timer, killing,
                 child, spawns, tracked, served, restarts, crashes, orphans, raced>>

\* boot_timeout: no valid file within 60 s, exit 1.
BootTimeout ==
  /\ phase = "waiting"
  /\ ~Valid(config)
  /\ phase' = "exited"
  /\ UNCHANGED <<config, copy, prepared, notified, lastSeen, timer, killing,
                 child, spawns, tracked, served, restarts, crashes, orphans, raced>>

\* MUTANT: restart: "no".
DockerRestart_never ==
  /\ FALSE
  /\ UNCHANGED vars

\* Docker starts the container again (restart: unless-stopped).
DockerRestart ==
  /\ phase = "exited"
  /\ phase' = "waiting"
  /\ UNCHANGED <<config, copy, prepared, notified, lastSeen, timer, killing,
                 child, spawns, tracked, served, restarts, crashes, orphans, raced>>

-----------------------------------------------------------------------------
(* The event loop.                                                         *)

\* fs.watch reports a rename: scheduleRestart (re)arms the one timer.
WatchEvent ==
  /\ phase = "running" /\ Resumed
  /\ notified # config.ver
  /\ notified' = config.ver
  /\ timer' = TRUE
  /\ UNCHANGED <<config, copy, phase, prepared, lastSeen, killing, child, spawns, tracked, served, restarts, crashes, orphans, raced>>

\* "provider kernels/filesystems occasionally miss the directory event"
WatchMiss ==
  /\ phase = "running"
  /\ notified # config.ver
  /\ notified' = config.ver
  /\ UNCHANGED <<config, copy, phase, prepared, lastSeen, timer, killing, child, spawns, tracked, served, restarts, crashes, orphans, raced>>

\* MUTANT: the tick moves its baseline and restarts nothing.
PollTick_silent ==
  /\ phase = "running" /\ Resumed
  /\ lastSeen # config.ver
  /\ lastSeen' = config.ver
  /\ UNCHANGED <<config, copy, phase, prepared, notified, timer, killing, child, spawns, tracked, served, restarts, crashes, orphans, raced>>

\* MUTANT: the tick does not move its baseline.
PollTick_forgets ==
  /\ phase = "running" /\ Resumed
  /\ lastSeen # config.ver
  /\ timer' = TRUE
  /\ UNCHANGED <<config, copy, phase, prepared, notified, lastSeen, killing, child, spawns, tracked, served, restarts, crashes, orphans, raced>>

\* A poller tick that finds another mtime.
PollTick ==
  /\ phase = "running" /\ Resumed
  /\ lastSeen # config.ver
  /\ lastSeen' = config.ver
  /\ timer' = TRUE
  /\ UNCHANGED <<config, copy, phase, prepared, notified, killing, child, spawns, tracked, served, restarts, crashes, orphans, raced>>

\* The debounce timer fires and the check fails: restart_skipped_invalid_config.
TimerSkips ==
  /\ phase = "running" /\ timer /\ Resumed
  /\ ~Valid(config)
  /\ timer' = FALSE
  /\ UNCHANGED <<config, copy, phase, prepared, notified, lastSeen, killing,
                 child, spawns, tracked, served, restarts, crashes, orphans, raced>>

\* The debounce timer fires and the check passes: SIGTERM for state.child, and
\* the callback is suspended until that child has exited; others may still be.
TimerKills(k) ==
  /\ phase = "running" /\ timer /\ Resumed
  /\ ~Suspended(k)
  /\ Valid(config)
  /\ timer' = FALSE
  /\ copy' = CopyAfter(config)
  /\ killing' = [killing EXCEPT ![k] = [target |-> tracked, source |-> SourceOf(config)]]
  /\ child' = [child EXCEPT ![tracked].signalled = Alive(tracked)]
  /\ UNCHANGED <<config, phase, prepared, notified, lastSeen, spawns, tracked, served, restarts, crashes,
                 orphans, raced>>

\* MUTANT: the new child is not stored in state.child.
KillDone_untracked(k) ==
  /\ phase = "running"
  /\ Suspended(k)
  /\ ~Alive(killing[k].target)
  /\ killing' = [killing EXCEPT ![k] = Waiting]
  /\ spawns < MaxSpawns
  /\ spawns' = spawns + 1
  /\ child' = [child EXCEPT ![spawns + 1].state = "loading"]
  /\ UNCHANGED <<config, copy, phase, prepared, notified, lastSeen, timer, tracked, served, restarts, crashes, orphans, raced>>

\* killChild returns: whatever state.child is by now, it is overwritten.
KillDone(k) ==
  /\ phase = "running"
  /\ Suspended(k)
  /\ ~Alive(killing[k].target)
  /\ killing' = [killing EXCEPT ![k] = Waiting]
  /\ spawnSingbox(killing[k].source)
  /\ orphans' = IF \E i \in Callbacks \ {k} : Suspended(i) THEN orphans \cup {spawns + 1} ELSE orphans
  /\ UNCHANGED <<config, copy, phase, prepared, notified, lastSeen, timer, served, restarts, crashes, raced>>

-----------------------------------------------------------------------------
(* The children.                                                           *)

\* sing-box reads its config, and exits if that is bad by now.
ChildLoads(c) ==
  LET f == IF child[c].source = "copy" THEN copy ELSE config IN
  /\ child[c].state = "loading"
  /\ child' = [child EXCEPT ![c] = IF Valid(f) THEN [@ EXCEPT !.state = "loaded", !.conf = f]
                                   ELSE Dead]
  /\ UNCHANGED <<config, copy, phase, prepared, notified, lastSeen, timer, killing,
                 spawns, tracked, served, restarts, crashes, orphans, raced>>

\* It binds :443, or exits because another child holds the port.
ChildBinds(c) ==
  /\ child[c].state = "loaded"
  /\ IF \E d \in Children : Serving(d)
     THEN child' = [child EXCEPT ![c] = Dead] /\ UNCHANGED served
     ELSE child' = [child EXCEPT ![c].state = "serving"] /\ served' = child[c].conf.ver
  /\ UNCHANGED <<config, copy, phase, prepared, notified, lastSeen, timer, killing,
                 spawns, tracked, restarts, crashes, orphans, raced>>

\* SIGTERM, or SIGKILL after the grace of 5 s, has its effect.
ChildExits(c) ==
  /\ Alive(c) /\ child[c].signalled
  /\ child' = [child EXCEPT ![c] = Dead]
  /\ UNCHANGED <<config, copy, phase, prepared, notified, lastSeen, timer, killing,
                 spawns, tracked, served, restarts, crashes, orphans, raced>>

\* A child dies by itself.  onExit logs it and does nothing else.
ChildCrashes(c) ==
  /\ Serving(c)
  /\ crashes < MaxCrashes
  /\ crashes' = crashes + 1
  /\ child' = [child EXCEPT ![c] = [Dead EXCEPT !.state = "crashed"]]
  /\ UNCHANGED <<config, copy, phase, prepared, notified, lastSeen, timer, killing,
                 spawns, tracked, served, restarts, orphans, raced>>

\* `ct restart`, the restart action of the panel, a recreate: onSignal kills
\* state.child and exits, the container's other processes die with it, and
\* runSupervise starts over.
ContainerRestart ==
  /\ restarts < MaxRestarts
  /\ restarts' = restarts + 1
  /\ phase' = "waiting"
  /\ child' = [c \in Children |-> Dead]
  /\ killing' = [k \in Callbacks |-> Waiting]
  /\ timer' = FALSE
  /\ tracked' = 0
  /\ orphans' = {}
  /\ UNCHANGED <<config, copy, prepared, notified, lastSeen, spawns, served, crashes, raced>>

-----------------------------------------------------------------------------

Boot == BootPrepare \/ BootSpawn \/ BootWatch \/ BootPoll \/ DockerRestart

Event == WatchEvent \/ WatchMiss \/ PollTick \/ TimerSkips

Restart(k) == TimerKills(k) \/ KillDone(k)

Child(c) == ChildLoads(c) \/ ChildBinds(c) \/ ChildExits(c)

Steps ==
  \/ Boot
  \/ BootTimeout
  \/ Event
  \/ \E k \in Callbacks : Restart(k)
  \/ \E c \in Children : Child(c) \/ ChildCrashes(c)
  \/ ContainerRestart

Next == ReplaceConfig \/ Steps

\* The event loop keeps turning and every process keeps running.  Neither a
\* watch event nor a crash or a restart of the container need ever come.
Fairness ==
  /\ WF_vars(Boot) /\ WF_vars(PollTick) /\ WF_vars(TimerSkips)
  /\ WF_vars(\E k \in Callbacks : TimerKills(k))
  /\ \A k \in Callbacks : WF_vars(KillDone(k))
  /\ \A c \in Children : WF_vars(Child(c))

Spec == Init /\ [][Next]_vars /\ Fairness

-----------------------------------------------------------------------------
(* Properties.                                                             *)

TypeOK ==
  /\ config \in File /\ copy \in File
  /\ phase \in {"waiting", "checked", "spawned", "watching", "running", "exited"}
  /\ prepared \in Sources
  /\ notified \in Versions /\ lastSeen \in Versions /\ served \in Versions
  /\ timer \in BOOLEAN
  /\ killing \in [Callbacks -> [target : 0..MaxSpawns, source : Sources]]
  /\ child \in [Children -> [state : {"loading", "loaded", "serving", "dead", "crashed"},
                             source : Sources, signalled : BOOLEAN, conf : File]]
  /\ spawns \in 0..MaxSpawns /\ tracked \in 0..MaxSpawns
  /\ restarts \in 0..MaxRestarts /\ crashes \in 0..MaxCrashes
  /\ orphans \subseteq Children /\ raced \in Versions

\* The restart callback (supervise.ts:267-280): every sing-box that has not been
\* told to stop is the one the supervisor will stop at the next change, or was
\* started by a callback while another was suspended.  The second of the two starts a
\* child of its own, and the first is nobody's: no other way leads to an orphan, by
\* crash, replacement or restart, and what follows an overlap adds none.
OnlyTrackedRuns ==
  \A c \in Children : Alive(c) /\ ~child[c].signalled => c = tracked \/ c \in orphans

\* Nothing is under way that could still bring a change to the child.
Settled ==
  /\ phase = "running" /\ ~timer
  /\ notified = config.ver /\ lastSeen = config.ver
  /\ \A k \in Callbacks : ~Suspended(k)
  /\ \A c \in Children : Alive(c) => Serving(c) /\ ~child[c].signalled

OnCurrentFile == tracked \in Children /\ Serving(tracked) /\ child[tracked].conf = config

Crashed == tracked \in Children /\ child[tracked].state = "crashed"

\* Two callbacks are suspended, or were in this container.
Overlapped ==
  orphans # {} \/ \E i, k \in Callbacks : i # k /\ Suspended(i) /\ Suspended(k)

\* The version in place is one the detectors are bound to bring to the child: it
\* did not come in the boot's own synchronous steps, which take their baselines
\* after the spawn, and no callback has been overtaken by another.
Followed == ~Overlapped /\ raced # config.ver

\* When all is settled and the file is valid, the tracked child serves that very
\* file, also after replacements during the validation, the kill and the start
\* of the child, and after a bad file in between; but for a crash, overlapping
\* callbacks, and a file replaced in the synchronous steps of the boot.
SettledServesFile == Settled /\ Valid(config) /\ ~Crashed /\ Followed => OnCurrentFile

\* supervise.ts:356-360, polling "closes the rendered file changed, live sing-box
\* process still old drift window": once the writer is done, a valid file is
\* served for ever, with the same three exceptions.
FollowsFile == <>[](Valid(config) /\ ~Crashed /\ Followed => OnCurrentFile)

\* What clients see: a server that is down, or up on some version of the file.
Live == INSTANCE LiveConfig WITH
  offered <- config.ver,
  live <- [up |-> \E c \in Children : Serving(c), ver |-> served]

\* A restart never brings an older config back than one that was served before:
\* what clients see takes the steps of LiveConfig only, as long as no callback has
\* overtaken another (two children of theirs may bind :443 in either order).
NeverServesOlder == Live!Init /\ [][Live!Next \/ Overlapped]_(Live!vars)

\* Clients are disconnected at most twice for one replacement of the file, once
\* for each of the two detectors (a watch event does not move the poller's
\* baseline): nothing makes the supervisor restart on and on.
TwoSpawnsPerWrite == spawns <= 2 * config.ver + restarts
=============================================================================

-------------------------- MODULE Deployment_proofs --------------------------
(***************************************************************************)
(* What `ct install` and `ct update` deliver, for any images, services,    *)
(* terminals and number of releases, wherever a command fails or is        *)
(* killed and whatever the ticks of auto-update pull meanwhile.            *)
(***************************************************************************)
EXTENDS Deployment, TLAPS

Fetched  == {"wait", "load", "migrate", "caddyfile", "singbox", "up", "health", "done"}
Loaded   == {"migrate", "caddyfile", "singbox", "up", "health", "done"}
Migrated == {"caddyfile", "singbox", "up", "health", "done"}

\* How far a command has brought the host towards the release it deploys.  That release
\* may fall behind the checkout, but not behind one that is deployed already.
Progress(r) ==
  /\ r # NotRunning => r.binary <= checkout
  /\ r.pc \in Fetched => r.want \in 1 .. checkout /\ (lastDone = checkout => r.want = checkout)
  /\ r.pc = "load" => \A i \in Images \ r.pending : images[i] = r.want
  /\ r.pc \in Loaded => \A i \in Images : images[i] = r.want
  /\ r.pc \in Migrated => env # "torn"
  /\ r.pc \in {"singbox", "up", "health", "done"} => rendered["caddyfile"] = r.want /\ schema >= r.want
  /\ r.pc \in {"up", "health", "done"} => rendered["singbox"] = r.want
  /\ r.pc \in {"health", "done"} => \A s \in Services : running[s] = r.want

RunsProgress == \A p \in Runs : Progress(run[p])

IInv == TypeOK /\ RunsProgress /\ DoneSticks

-----------------------------------------------------------------------------
(* The processes, and what a step of one of them leaves of the others.     *)

USE DEF host

RunOf(cmd, pc, bin, want, pending) ==
  [cmd |-> cmd, pc |-> pc, binary |-> bin, want |-> want, pending |-> pending]

Become(p, r) == run' = [run EXCEPT ![p] = r]

WorldOK ==
  /\ tag \in Versions /\ bundles \subseteq 1 .. tag
  /\ checkout \in 1 .. tag /\ binary \in 1 .. checkout
  /\ env \in {"legacy", "torn", "current"}
  /\ images \in [Images -> 0 .. checkout]
  /\ schema \in 0 .. checkout
  /\ rendered \in [Targets -> 0 .. checkout]
  /\ running \in [Services -> 0 .. checkout]
  /\ cron \in Cron
  /\ lastDone \in 0 .. checkout

RunsOK ==
  /\ run \in [Runs -> Run \cup {NotRunning}]
  /\ opLock \in Runs \cup {Nobody}
  /\ \A p \in Runs : run[p] # NotRunning <=> opLock = p

LEMMA TypeParts == TypeOK <=> WorldOK /\ RunsOK
BY DEF TypeOK, WorldOK, RunsOK

LEMMA TypePartsNext == ASSUME WorldOK', RunsOK' PROVE TypeOK'
BY DEF TypeOK, WorldOK, RunsOK

LEMMA Running ==
  ASSUME RunsOK, NEW p \in Runs, run[p].pc # "idle"
  PROVE  /\ run[p] \in Run /\ run[p].pc \in Pcs /\ opLock = p
         /\ \A q \in Runs : q # p => run[q] = NotRunning
         /\ \E c \in {"install", "update"}, b \in Versions, w \in 0 .. MaxVersion,
               d \in SUBSET Images : run[p] = RunOf(c, run[p].pc, b, w, d)
<1>1. run[p] \in Run /\ run[p] # NotRunning
  BY DEF RunsOK, NotRunning
<1>2. opLock = p
  BY <1>1 DEF RunsOK
<1>3. \A q \in Runs : q # p => run[q] = NotRunning
  BY <1>2 DEF RunsOK
<1>4. run[p] = RunOf(run[p].cmd, run[p].pc, run[p].binary, run[p].want, run[p].pending)
  BY <1>1 DEF Run, RunOf
<1> QED
  BY <1>1, <1>2, <1>3, <1>4 DEF Run

LEMMA RunOfType ==
  ASSUME NEW c \in {"install", "update"}, NEW pc \in Pcs, NEW b \in Versions,
         NEW w \in 0 .. MaxVersion, NEW d \in SUBSET Images
  PROVE  /\ RunOf(c, pc, b, w, d) \in Run /\ RunOf(c, pc, b, w, d) # NotRunning
         /\ RunOf(c, pc, b, w, d).pc = pc /\ RunOf(c, pc, b, w, d).binary = b
         /\ RunOf(c, pc, b, w, d).want = w /\ RunOf(c, pc, b, w, d).pending = d
         /\ RunOf(c, pc, b, w, d).cmd = c
BY DEF RunOf, Run, Pcs, NotRunning

\* Only the holder of the operation lock steps, and its own progress is all there is.
LEMMA HolderMoves ==
  ASSUME RunsOK, NEW p \in Runs, run[p].pc # "idle",
         NEW r \in Run, r # NotRunning, Progress(r)',
         Become(p, r), opLock' = opLock
  PROVE  RunsOK' /\ RunsProgress'
<1>1. \A q \in Runs : run'[q] = IF q = p THEN r ELSE run[q]
  BY DEF RunsOK, Become
<1>2. opLock = p /\ \A q \in Runs : q # p => run[q] = NotRunning
  BY Running
<1>3. RunsOK'
  BY <1>1, <1>2 DEF RunsOK, Become
<1>4. Progress(NotRunning)'
  BY DEF Progress, NotRunning, Fetched, Loaded, Migrated
<1> QED
  BY <1>1, <1>2, <1>3, <1>4 DEF RunsProgress

\* A process that ends lets go of the lock, and none is left.
LEMMA HolderEnds ==
  ASSUME RunsOK, NEW p \in Runs, run[p] # NotRunning,
         run' = [run EXCEPT ![p] = NotRunning], opLock' = Nobody
  PROVE  RunsOK' /\ RunsProgress'
<1>1. \A q \in Runs : run'[q] = NotRunning
  BY DEF RunsOK
<1>a. Nobody \notin Runs
  BY RunsAssumption DEF Nobody, Runs
<1>2. Progress(NotRunning)'
  BY DEF Progress, NotRunning, Fetched, Loaded, Migrated
<1> QED
  BY <1>1, <1>2, <1>a DEF RunsOK, RunsProgress

\* Where no process steps, the checkout may move on: past a release that is deployed
\* already, so that nothing is deployed any more.
LEMMA StillProgress ==
  ASSUME TypeOK, RunsProgress, RunsOK',
         UNCHANGED <<run, images, rendered, schema, env, lastDone>>,
         running' = running \/ \A p \in Runs : run[p] = NotRunning,
         checkout' \in Nat, checkout' >= checkout
  PROVE  RunsProgress'
<1> SUFFICES ASSUME NEW p \in Runs
             PROVE  Progress(run[p])'
  BY DEF RunsProgress
<1>1. checkout \in Nat /\ checkout <= checkout /\ lastDone \in 0 .. checkout
  BY VersionAssumption DEF TypeOK, Versions
<1>2. Progress(run[p])
  BY DEF RunsProgress
<1>3. CASE run[p].pc = "idle"
  <2>1. run[p] = NotRunning
    BY <1>3 DEF TypeOK, Run, Pcs
  <2> QED
    BY <2>1 DEF Progress, NotRunning, Fetched, Loaded, Migrated
<1>4. CASE run[p].pc # "idle"
  <2>1. run[p] # NotRunning /\ running' = running
    BY <1>4 DEF NotRunning
  <2>2. run[p].binary \in Nat /\ run[p].want \in Nat
    BY <1>4, TypeParts, Running, VersionAssumption DEF Run, Versions
  <2> QED
    BY <1>1, <1>2, <2>1, <2>2 DEF Progress
<1> QED
  BY <1>3, <1>4

-----------------------------------------------------------------------------
(* What each step leaves of the invariant.                                 *)

LEMMA InitIInv == Init => IInv
<1> SUFFICES ASSUME Init
             PROVE  IInv
  OBVIOUS
<1>1. WorldOK
  BY VersionAssumption, ServicesAssumption DEF Init, WorldOK, Versions, Cron, CronPcs
<1>2. RunsOK
  BY RunsAssumption DEF Init, RunsOK, Nobody, Runs
<1>3. RunsProgress
  BY DEF Init, RunsProgress, Progress, NotRunning, Fetched, Loaded, Migrated
<1>4. DoneSticks
  BY ServicesAssumption DEF Init, DoneSticks
<1> QED
  BY <1>1, <1>2, <1>3, <1>4, TypeParts DEF IInv

\* The world, the ct script before the lock and the ticks of auto-update.
LEMMA OthersKeep ==
  ASSUME IInv, \/ Release \/ PublishBundle \/ operator_bootstrap_if_skewed
               \/ Tick \/ probeVersions \/ SayUpToDate \/ preflightStackHealthy
               \/ CronPull \/ CronStops
  PROVE  IInv'
<1>1. TypeOK /\ RunsProgress /\ DoneSticks /\ WorldOK /\ RunsOK
  BY TypeParts DEF IInv
<1>2. /\ UNCHANGED <<run, opLock, images, rendered, schema, env, lastDone, running>>
      /\ checkout' = checkout \/ checkout' = tag
  BY DEF Release, PublishBundle, operator_bootstrap_if_skewed, Tick, probeVersions,
         SayUpToDate, preflightStackHealthy, CronPull, CronStops
<1>3. checkout \in Nat /\ tag \in Nat /\ checkout <= tag /\ lastDone \in 0 .. checkout
  BY <1>1, VersionAssumption DEF WorldOK, Versions
<1>4. tag' \in Versions /\ bundles' \subseteq 1 .. tag' /\ checkout' \in 1 .. tag'
  BY <1>1, VersionAssumption DEF WorldOK, Versions, Release, PublishBundle, operator_bootstrap_if_skewed,
         Tick, probeVersions, SayUpToDate, preflightStackHealthy, CronPull, CronStops
<1>5. binary' \in 1 .. checkout'
  BY <1>1, <1>3 DEF WorldOK, Versions, Release, PublishBundle, operator_bootstrap_if_skewed,
         Tick, probeVersions, SayUpToDate, preflightStackHealthy, CronPull, CronStops
<1>6. cron' \in Cron
  <2>1. cron \in Cron /\ tag \in 0 .. MaxVersion
    BY <1>1, VersionAssumption DEF WorldOK, Versions
  <2>2. \A pc \in CronPcs :
          /\ [cron EXCEPT !.pc = pc] \in Cron
          /\ \A l \in 0 .. MaxVersion : /\ [cron EXCEPT !.latest = l, !.pc = pc] \in Cron
                                      /\ [cron EXCEPT !.pc = pc, !.latest = l] \in Cron
                                      /\ [cron EXCEPT !.pc = pc, !.tried = l] \in Cron
    BY <2>1 DEF Cron
  <2>3. CASE Release \/ PublishBundle \/ operator_bootstrap_if_skewed
    BY <2>1, <2>3 DEF Release, PublishBundle, operator_bootstrap_if_skewed
  <2>4. CASE Tick \/ preflightStackHealthy
    BY <2>1, <2>2, <2>4 DEF Tick, preflightStackHealthy, CronAt, CronPcs
  <2>5. CASE probeVersions
    BY <2>1, <2>2, <2>5 DEF probeVersions, CronPcs
  <2>6. CASE SayUpToDate \/ CronStops
    <3>1. cron' = [cron EXCEPT !.pc = "idle", !.latest = 0]
      BY <2>6 DEF SayUpToDate, CronStops, Skip
    <3>2. 0 \in 0 .. MaxVersion /\ "idle" \in CronPcs
      BY VersionAssumption DEF CronPcs
    <3> QED
      BY <2>2, <3>1, <3>2
  <2>7. CASE CronPull
    BY <2>1, <2>2, <2>7 DEF CronPull, CronPcs
  <2> QED
    BY <2>3, <2>4, <2>5, <2>6, <2>7
<1>7. WorldOK'
  BY <1>1, <1>2, <1>3, <1>4, <1>5, <1>6 DEF WorldOK
<1>8. RunsOK'
  BY <1>1, <1>2 DEF RunsOK
<1>9. RunsProgress'
  BY <1>1, <1>2, <1>3, <1>8, StillProgress
<1>10. DoneSticks'
  BY <1>1, <1>2, <1>3 DEF DoneSticks
<1> QED
  BY <1>7, <1>8, <1>9, <1>10, TypePartsNext DEF IInv

LEMMA StopKeeps == ASSUME IInv, StopService PROVE IInv'
<1>1. TypeOK /\ RunsProgress /\ DoneSticks /\ WorldOK /\ RunsOK
  BY TypeParts DEF IInv
<1>2. /\ UNCHANGED <<tag, bundles, checkout, binary, cron, run, opLock, images, rendered, schema, env, lastDone>>
      /\ opLock = Nobody
  BY DEF StopService
<1>3. PICK s \in Services : running' = [running EXCEPT ![s] = 0]
  BY DEF StopService
<1>4. WorldOK'
  BY <1>1, <1>2, <1>3, VersionAssumption DEF WorldOK, Versions
<1>5. RunsOK'
  BY <1>1, <1>2 DEF RunsOK
<1>6. \A p \in Runs : run[p] = NotRunning
  BY <1>1, <1>2, RunsAssumption DEF RunsOK, Nobody, Runs
<1>7. RunsProgress'
  BY <1>1, <1>2, <1>5, <1>6, StillProgress, VersionAssumption DEF WorldOK, Versions
<1>8. DoneSticks'
  BY <1>1, <1>2, <1>3 DEF DoneSticks, WorldOK
<1> QED
  BY <1>4, <1>5, <1>7, <1>8, TypePartsNext DEF IInv

\* A command begins with nothing brought forward, under the lock it found free.
LEMMA AcquireKeeps ==
  ASSUME IInv, NEW p \in Runs, NEW cmd \in {"install", "update"}, acquireOpLock(p, cmd),
         UNCHANGED <<tag, bundles, checkout, binary, host, lastDone>>, cron' \in Cron
  PROVE  IInv'
<1>1. TypeOK /\ RunsProgress /\ DoneSticks /\ WorldOK /\ RunsOK
  BY TypeParts DEF IInv
<1>2. WorldOK' /\ DoneSticks'
  BY <1>1 DEF WorldOK, DoneSticks
<1>3. binary \in Versions /\ binary <= checkout /\ 0 \in 0 .. MaxVersion
  BY <1>1, VersionAssumption DEF WorldOK, Versions
<1> DEFINE r == RunOf(cmd, "preflight", binary, 0, {})
<1>4. r \in Run /\ r # NotRunning /\ r.pc = "preflight" /\ r.binary = binary
  BY <1>3, RunOfType DEF Pcs
<1>5. run' = [run EXCEPT ![p] = r] /\ opLock = Nobody /\ opLock' = p
  BY DEF acquireOpLock, RunOf
<1>6. \A q \in Runs : q # p => run'[q] = NotRunning
  BY <1>1, <1>5, RunsAssumption DEF RunsOK, Nobody, Runs
<1>7. run'[p] = r
  BY <1>1, <1>5 DEF RunsOK
<1> HIDE DEF r
<1>8. RunsOK'
  BY <1>1, <1>4, <1>5, <1>6, <1>7 DEF RunsOK
<1>9. Progress(run[p])'
  BY <1>3, <1>4, <1>7 DEF Progress, Fetched, Loaded, Migrated
<1>10. \A q \in Runs : q # p => Progress(run[q])'
  BY <1>6 DEF Progress, NotRunning, Fetched, Loaded, Migrated
<1> QED
  BY <1>2, <1>8, <1>9, <1>10, TypePartsNext DEF IInv, RunsProgress

LEMMA CronUpdateKeeps == ASSUME IInv, CronUpdate PROVE IInv'
<1>1. TypeOK /\ RunsProgress /\ DoneSticks /\ WorldOK /\ RunsOK
  BY TypeParts DEF IInv
<1>2. UNCHANGED <<tag, bundles, checkout, binary, host, lastDone>>
  BY DEF CronUpdate
<1>3. cron' \in Cron
  <2>1. cron \in Cron /\ 0 \in 0 .. MaxVersion /\ "idle" \in CronPcs
    BY <1>1, VersionAssumption DEF WorldOK, CronPcs
  <2>2. cron' = [cron EXCEPT !.pc = "idle", !.latest = 0]
    BY DEF CronUpdate, Skip
  <2> QED
    BY <2>1, <2>2 DEF Cron
<1>4. CASE opLock = Nobody
  <2>1. acquireOpLock(Child, "update") /\ Child \in Runs
    BY <1>4 DEF CronUpdate, Runs
  <2> QED
    BY <1>2, <1>3, <2>1, AcquireKeeps
<1>5. CASE opLock # Nobody
  <2>1. UNCHANGED <<opLock, run>>
    BY <1>5 DEF CronUpdate
  <2>2. WorldOK' /\ RunsOK' /\ DoneSticks'
    BY <1>1, <1>2, <1>3, <2>1 DEF WorldOK, RunsOK, DoneSticks
  <2>3. RunsProgress'
    BY <1>1, <1>2, <2>1, <2>2, StillProgress, VersionAssumption DEF WorldOK, Versions
  <2> QED
    BY <2>2, <2>3, TypePartsNext DEF IInv
<1> QED
  BY <1>4, <1>5

-----------------------------------------------------------------------------
(* The steps of a command.  Each is given the command as a record of its   *)
(* fields: where it was, and where it goes.                                *)

\* What holds of the command a step is taken by.
LEMMA Fields ==
  ASSUME IInv, NEW p \in Runs, run[p].pc # "idle"
  PROVE  \E c \in {"install", "update"}, b \in Versions, w \in 0 .. MaxVersion,
            d \in SUBSET Images :
           /\ run[p] = RunOf(c, run[p].pc, b, w, d) /\ run[p].cmd = c /\ run[p].binary = b
           /\ run[p].want = w /\ run[p].pending = d
           /\ b <= checkout /\ Progress(run[p])
<1>1. TypeOK /\ RunsProgress /\ RunsOK
  BY TypeParts DEF IInv
<1>2. PICK c \in {"install", "update"}, b \in Versions, w \in 0 .. MaxVersion,
           d \in SUBSET Images : run[p] = RunOf(c, run[p].pc, b, w, d)
  BY <1>1, Running
<1>3. run[p].pc \in Pcs
  BY <1>1, Running
<1>4. run[p].cmd = c /\ run[p].binary = b /\ run[p].want = w /\ run[p].pending = d /\ run[p] # NotRunning
  BY <1>2, <1>3, RunOfType
<1>5. Progress(run[p])
  BY <1>1 DEF RunsProgress
<1> QED
  BY <1>2, <1>4, <1>5 DEF Progress

LEMMA Goes ==
  ASSUME RunsOK, NEW p \in Runs, NEW a, NEW pc, NEW c, NEW b, NEW w, NEW d,
         run[p] = RunOf(c, a, b, w, d), Go(p, pc)
  PROVE  Become(p, RunOf(c, pc, b, w, d))
<1>1. [RunOf(c, a, b, w, d) EXCEPT !.pc = pc] = RunOf(c, pc, b, w, d)
  BY DEF RunOf
<1>2. run' = [run EXCEPT ![p] = [run[p] EXCEPT !.pc = pc]]
  BY DEF Go
<1> QED
  BY <1>1, <1>2 DEF Become

\* A step that only moves on, and perhaps cleans images of services that do not run.
LEMMA PreflightKeeps == ASSUME IInv, NEW p \in Runs, preflight(p) PROVE IInv'
<1>1. TypeOK /\ RunsProgress /\ DoneSticks /\ WorldOK /\ RunsOK /\ run[p].pc = "preflight"
  BY TypeParts DEF IInv, preflight, At
<1>2. PICK c \in {"install", "update"}, b \in Versions, w \in 0 .. MaxVersion, d \in SUBSET Images :
        run[p] = RunOf(c, "preflight", b, w, d) /\ b <= checkout
  BY <1>1, Fields
<1>a. PICK pc \in {"pull", "fetch"} : Go(p, pc)
  BY DEF preflight, Step
<1>3. Become(p, RunOf(c, pc, b, w, d))
  BY <1>1, <1>2, <1>a, Goes
<1>4. RunOf(c, pc, b, w, d) \in Run /\ RunOf(c, pc, b, w, d) # NotRunning
      /\ RunOf(c, pc, b, w, d).pc = pc /\ RunOf(c, pc, b, w, d).binary = b
  BY RunOfType DEF Pcs
<1>5. UNCHANGED <<tag, bundles, checkout, binary, env, schema, rendered, running, opLock, cron, lastDone>>
  BY DEF preflight
<1>6. images' = images \/ images' = runAutoTempClean
  BY DEF preflight
<1>7. WorldOK'
  BY <1>1, <1>5, <1>6, VersionAssumption DEF WorldOK, Versions, runAutoTempClean
<1>8. Progress(RunOf(c, pc, b, w, d))'
  BY <1>2, <1>4, <1>5 DEF Progress, Fetched, Loaded, Migrated
<1>9. RunsOK' /\ RunsProgress'
  BY <1>1, <1>3, <1>4, <1>5, <1>8, HolderMoves
<1>10. DoneSticks'
  BY <1>1, <1>5, <1>6, ServicesAssumption DEF DoneSticks, runAutoTempClean
<1> QED
  BY <1>7, <1>9, <1>10, TypePartsNext DEF IInv

LEMMA PullKeeps == ASSUME IInv, NEW p \in Runs, gitPullFfOnly(p) PROVE IInv'
<1>1. TypeOK /\ RunsProgress /\ DoneSticks /\ WorldOK /\ RunsOK /\ run[p].pc = "pull"
  BY TypeParts DEF IInv, gitPullFfOnly, Step, At
<1>2. PICK c \in {"install", "update"}, b \in Versions, w \in 0 .. MaxVersion, d \in SUBSET Images :
        /\ run[p] = RunOf(c, "pull", b, w, d) /\ b <= checkout /\ Progress(run[p])
        /\ run[p].cmd = c /\ run[p].binary = b /\ run[p].want = w /\ run[p].pending = d
  BY <1>1, Fields
<1>3. Become(p, RunOf(c, "env", b, w, d))
  BY <1>1, <1>2, Goes DEF gitPullFfOnly, Step
<1> DEFINE r == RunOf(c, "env", b, w, d)
<1>4. r \in Run /\ r # NotRunning /\ r.pc = "env" /\ r.binary = b /\ r.want = w /\ r.pending = d
  BY RunOfType DEF Pcs
<1> HIDE DEF r
<1>5. UNCHANGED <<tag, bundles, binary, host, opLock, cron, lastDone>>
  BY DEF gitPullFfOnly
<1>6. WorldOK'
  BY <1>1, <1>5, VersionAssumption DEF WorldOK, Versions, gitPullFfOnly
<1>7. Progress(r)'
  <2>1. b <= checkout'
    BY <1>1, <1>2, VersionAssumption DEF WorldOK, Versions, gitPullFfOnly
  <2> QED
    BY <1>4, <2>1 DEF Progress, Fetched, Loaded, Migrated
<1>8. RunsOK' /\ RunsProgress'
  <2>1. Become(p, r)
    BY <1>3 DEF r
  <2> QED
    BY <1>1, <1>4, <1>5, <1>7, <2>1, HolderMoves
<1>9. DoneSticks'
  <2>1. checkout' = checkout \/ lastDone' # checkout'
    BY <1>1, <1>5, VersionAssumption DEF WorldOK, Versions, gitPullFfOnly
  <2> QED
    BY <1>1, <1>5, <2>1 DEF DoneSticks
<1> QED
  BY <1>6, <1>8, <1>9, TypePartsNext DEF IInv

LEMMA WriteEnvKeeps == ASSUME IInv, NEW p \in Runs, WriteEnv(p) PROVE IInv'
<1>1. TypeOK /\ RunsProgress /\ DoneSticks /\ WorldOK /\ RunsOK /\ run[p].pc = "envwrite"
  BY TypeParts DEF IInv, WriteEnv, Step, At
<1>2. PICK c \in {"install", "update"}, b \in Versions, w \in 0 .. MaxVersion, d \in SUBSET Images :
        /\ run[p] = RunOf(c, "envwrite", b, w, d) /\ b <= checkout /\ Progress(run[p])
        /\ run[p].cmd = c /\ run[p].binary = b /\ run[p].want = w /\ run[p].pending = d
  BY <1>1, Fields
<1>3. Become(p, RunOf(c, "fetch", b, w, d))
  BY <1>1, <1>2, Goes DEF WriteEnv, Step
<1> DEFINE r == RunOf(c, "fetch", b, w, d)
<1>4. r \in Run /\ r # NotRunning /\ r.pc = "fetch" /\ r.binary = b /\ r.want = w /\ r.pending = d
  BY RunOfType DEF Pcs
<1> HIDE DEF r
<1>5. UNCHANGED <<tag, bundles, checkout, binary, images, schema, rendered, running, opLock, cron, lastDone>>
  BY DEF WriteEnv
<1>6. WorldOK'
  BY <1>1, <1>5 DEF WorldOK, WriteEnv
<1>7. Progress(r)'
  BY <1>2, <1>4, <1>5 DEF Progress, Fetched, Loaded, Migrated
<1>8. RunsOK' /\ RunsProgress'
  <2>1. Become(p, r)
    BY <1>3 DEF r
  <2> QED
    BY <1>1, <1>4, <1>5, <1>7, <2>1, HolderMoves
<1>9. DoneSticks'
  BY <1>1, <1>5 DEF DoneSticks
<1> QED
  BY <1>6, <1>8, <1>9, TypePartsNext DEF IInv

LEMMA MigrateKeeps == ASSUME IInv, NEW p \in Runs, migrateAndReport(p) PROVE IInv'
<1>1. TypeOK /\ RunsProgress /\ DoneSticks /\ WorldOK /\ RunsOK /\ run[p].pc = "migrate"
  BY TypeParts DEF IInv, migrateAndReport, Step, At
<1>2. PICK c \in {"install", "update"}, b \in Versions, w \in 0 .. MaxVersion, d \in SUBSET Images :
        /\ run[p] = RunOf(c, "migrate", b, w, d) /\ b <= checkout /\ Progress(run[p])
        /\ run[p].cmd = c /\ run[p].binary = b /\ run[p].want = w /\ run[p].pending = d
  BY <1>1, Fields
<1>3. Become(p, RunOf(c, "caddyfile", b, w, d))
  BY <1>1, <1>2, Goes DEF migrateAndReport, Step
<1> DEFINE r == RunOf(c, "caddyfile", b, w, d)
<1>4. r \in Run /\ r # NotRunning /\ r.pc = "caddyfile" /\ r.binary = b /\ r.want = w /\ r.pending = d
  BY RunOfType DEF Pcs
<1> HIDE DEF r
<1>5. UNCHANGED <<tag, bundles, checkout, binary, env, images, rendered, running, opLock, cron, lastDone>>
  BY DEF migrateAndReport
<1>6. WorldOK'
  BY <1>1, <1>2, <1>5, VersionAssumption DEF WorldOK, Versions, migrateAndReport, Larger
<1>7. Progress(r)'
  <2>1. env # "torn" /\ run[p].pc = "migrate"
    BY <1>1 DEF migrateAndReport
  <2> QED
    BY <1>2, <1>4, <1>5, <2>1 DEF Progress, Fetched, Loaded, Migrated
<1>8. RunsOK' /\ RunsProgress'
  <2>1. Become(p, r)
    BY <1>3 DEF r
  <2> QED
    BY <1>1, <1>4, <1>5, <1>7, <2>1, HolderMoves
<1>9. DoneSticks'
  BY <1>1, <1>5 DEF DoneSticks
<1> QED
  BY <1>6, <1>8, <1>9, TypePartsNext DEF IInv

LEMMA MigrateEnvKeeps == ASSUME IInv, NEW p \in Runs, migrateEnvFile(p) PROVE IInv'
<1>1. TypeOK /\ RunsProgress /\ DoneSticks /\ WorldOK /\ RunsOK /\ run[p].pc = "env"
  BY TypeParts DEF IInv, migrateEnvFile, At
<1>2. PICK c \in {"install", "update"}, b \in Versions, w \in 0 .. MaxVersion, d \in SUBSET Images :
        /\ run[p] = RunOf(c, "env", b, w, d) /\ b <= checkout /\ Progress(run[p])
        /\ run[p].cmd = c /\ run[p].binary = b /\ run[p].want = w /\ run[p].pending = d
  BY <1>1, Fields
<1>a. PICK pc \in {"envwrite", "fetch"} : Go(p, pc)
  BY DEF migrateEnvFile
<1> DEFINE r == RunOf(c, pc, b, w, d)
<1>3. Become(p, r)
  BY <1>1, <1>2, <1>a, Goes
<1>4. r \in Run /\ r # NotRunning /\ r.pc = pc /\ r.binary = b /\ r.want = w /\ r.pending = d
  BY RunOfType DEF Pcs
<1> HIDE DEF r
<1>5. UNCHANGED <<tag, bundles, checkout, binary, images, schema, rendered, running, opLock, cron, lastDone>>
  BY DEF migrateEnvFile
<1>6. WorldOK'
  BY <1>1, <1>5 DEF WorldOK, migrateEnvFile
<1>7. Progress(r)'
  BY <1>2, <1>4, <1>5 DEF Progress, Fetched, Loaded, Migrated
<1>8. RunsOK' /\ RunsProgress'
  BY <1>1, <1>3, <1>4, <1>5, <1>7, HolderMoves
<1>9. DoneSticks'
  BY <1>1, <1>5 DEF DoneSticks
<1> QED
  BY <1>6, <1>8, <1>9, TypePartsNext DEF IInv

LEMMA ReadVersionKeeps == ASSUME IInv, NEW p \in Runs, ReadVersion(p) PROVE IInv'
<1>1. TypeOK /\ RunsProgress /\ DoneSticks /\ WorldOK /\ RunsOK /\ run[p].pc = "fetch"
  BY TypeParts DEF IInv, ReadVersion, At
<1>2. PICK c \in {"install", "update"}, b \in Versions, w \in 0 .. MaxVersion, d \in SUBSET Images :
        /\ run[p] = RunOf(c, "fetch", b, w, d) /\ b <= checkout /\ Progress(run[p])
        /\ run[p].cmd = c /\ run[p].binary = b /\ run[p].want = w /\ run[p].pending = d
  BY <1>1, Fields
<1>a. PICK v \in 0 .. MaxVersion : v = checkout /\ v \in 1 .. checkout
  BY <1>1, VersionAssumption DEF WorldOK, Versions
<1> DEFINE r == RunOf(c, "wait", b, v, d)
<1>3. Become(p, r)
  <2>1. [RunOf(c, "fetch", b, w, d) EXCEPT !.pc = "wait"] = RunOf(c, "wait", b, w, d)
    BY DEF RunOf
  <2>2. [RunOf(c, "wait", b, w, d) EXCEPT !.want = v] = RunOf(c, "wait", b, v, d)
    BY DEF RunOf
  <2>3. run' = [run EXCEPT ![p] = [[run[p] EXCEPT !.pc = "wait"] EXCEPT !.want = v]]
    BY <1>1, <1>a DEF ReadVersion, RunsOK
  <2>4. [[run[p] EXCEPT !.pc = "wait"] EXCEPT !.want = v] = RunOf(c, "wait", b, v, d)
    BY <1>2, <2>1, <2>2
  <2> QED
    BY <2>3, <2>4 DEF Become
<1>4. r \in Run /\ r # NotRunning /\ r.pc = "wait" /\ r.binary = b /\ r.want = v /\ r.pending = d
  BY <1>a, RunOfType DEF Pcs
<1> HIDE DEF r
<1>5. UNCHANGED <<tag, bundles, checkout, binary, host, opLock, cron, lastDone>>
  BY DEF ReadVersion
<1>6. WorldOK'
  BY <1>1, <1>5 DEF WorldOK
<1>7. Progress(r)'
  BY <1>2, <1>4, <1>5, <1>a DEF Progress, Fetched, Loaded, Migrated
<1>8. RunsOK' /\ RunsProgress'
  BY <1>1, <1>3, <1>4, <1>5, <1>7, HolderMoves
<1>9. DoneSticks'
  BY <1>1, <1>5 DEF DoneSticks
<1> QED
  BY <1>6, <1>8, <1>9, TypePartsNext DEF IInv

LEMMA FetchKeeps == ASSUME IInv, NEW p \in Runs, FetchBundle(p) PROVE IInv'
<1>1. TypeOK /\ RunsProgress /\ DoneSticks /\ WorldOK /\ RunsOK /\ run[p].pc = "wait"
  BY TypeParts DEF IInv, FetchBundle, At
<1>2. PICK c \in {"install", "update"}, b \in Versions, w \in 0 .. MaxVersion, d \in SUBSET Images :
        /\ run[p] = RunOf(c, "wait", b, w, d) /\ b <= checkout /\ Progress(run[p])
        /\ run[p].cmd = c /\ run[p].binary = b /\ run[p].want = w /\ run[p].pending = d
  BY <1>1, Fields
<1> DEFINE r == RunOf(c, "load", b, w, Images)
<1>3. Become(p, r)
  <2>1. [RunOf(c, "wait", b, w, d) EXCEPT !.pc = "load"] = RunOf(c, "load", b, w, d)
    BY DEF RunOf
  <2>2. [RunOf(c, "load", b, w, d) EXCEPT !.pending = Images] = RunOf(c, "load", b, w, Images)
    BY DEF RunOf
  <2>3. run' = [run EXCEPT ![p] = [[run[p] EXCEPT !.pc = "load"] EXCEPT !.pending = Images]]
    BY <1>1 DEF FetchBundle, RunsOK
  <2>4. [[run[p] EXCEPT !.pc = "load"] EXCEPT !.pending = Images] = RunOf(c, "load", b, w, Images)
    BY <1>2, <2>1, <2>2
  <2> QED
    BY <2>3, <2>4 DEF Become
<1>4. r \in Run /\ r # NotRunning /\ r.pc = "load" /\ r.binary = b /\ r.want = w /\ r.pending = Images
  BY RunOfType DEF Pcs
<1> HIDE DEF r
<1>5. UNCHANGED <<tag, bundles, checkout, binary, host, opLock, cron, lastDone>>
  BY DEF FetchBundle
<1>6. WorldOK'
  BY <1>1, <1>5 DEF WorldOK
<1>7. Progress(r)'
  BY <1>1, <1>2, <1>4, <1>5 DEF Progress, Fetched, Loaded, Migrated
<1>8. RunsOK' /\ RunsProgress'
  BY <1>1, <1>3, <1>4, <1>5, <1>7, HolderMoves
<1>9. DoneSticks'
  BY <1>1, <1>5 DEF DoneSticks
<1> QED
  BY <1>6, <1>8, <1>9, TypePartsNext DEF IInv

LEMMA LoadKeeps == ASSUME IInv, NEW p \in Runs, load_image_bom(p) PROVE IInv'
<1>1. TypeOK /\ RunsProgress /\ DoneSticks /\ WorldOK /\ RunsOK /\ run[p].pc = "load"
  BY TypeParts DEF IInv, load_image_bom, At
<1>2. PICK c \in {"install", "update"}, b \in Versions, w \in 0 .. MaxVersion, d \in SUBSET Images :
        /\ run[p] = RunOf(c, "load", b, w, d) /\ b <= checkout /\ Progress(run[p])
        /\ run[p].cmd = c /\ run[p].binary = b /\ run[p].want = w /\ run[p].pending = d
  BY <1>1, Fields
<1>a. PICK i \in d : /\ images' = [images EXCEPT ![i] = w]
                    /\ run' = [run EXCEPT ![p].pending = @ \ {i},
                                          ![p].pc = IF d = {i} THEN "migrate" ELSE "load"]
  BY <1>2 DEF load_image_bom
<1>b. w \in 1 .. checkout /\ (lastDone = checkout => w = checkout)
  BY <1>1, <1>2 DEF Progress, Fetched
<1>c. \A j \in Images \ (d \ {i}) : images'[j] = w
  BY <1>1, <1>2, <1>a DEF Progress, WorldOK
<1> DEFINE pc == IF d = {i} THEN "migrate" ELSE "load"
<1> DEFINE r == RunOf(c, pc, b, w, d \ {i})
<1>3. Become(p, r)
  <2>1. [RunOf(c, "load", b, w, d) EXCEPT !.pending = d \ {i}] = RunOf(c, "load", b, w, d \ {i})
    BY DEF RunOf
  <2>2. [RunOf(c, "load", b, w, d \ {i}) EXCEPT !.pc = pc] = RunOf(c, pc, b, w, d \ {i})
    BY DEF RunOf
  <2>3. run' = [run EXCEPT ![p] = [[run[p] EXCEPT !.pending = d \ {i}] EXCEPT !.pc = pc]]
    BY <1>1, <1>2, <1>a DEF RunsOK
  <2>4. [[run[p] EXCEPT !.pending = d \ {i}] EXCEPT !.pc = pc] = RunOf(c, pc, b, w, d \ {i})
    BY <1>2, <2>1, <2>2
  <2> QED
    BY <2>3, <2>4 DEF Become
<1>4. r \in Run /\ r # NotRunning /\ r.pc = pc /\ r.binary = b /\ r.want = w /\ r.pending = d \ {i}
  BY RunOfType DEF Pcs
<1> HIDE DEF r
<1>5. UNCHANGED <<tag, bundles, checkout, binary, env, schema, rendered, running, opLock, cron, lastDone>>
  BY DEF load_image_bom
<1>6. WorldOK'
  BY <1>1, <1>5, <1>a, <1>b, VersionAssumption DEF WorldOK, Versions
<1>7. Progress(r)'
  BY <1>1, <1>2, <1>4, <1>5, <1>b, <1>c DEF Progress, Fetched, Loaded, Migrated
<1>8. RunsOK' /\ RunsProgress'
  BY <1>1, <1>3, <1>4, <1>5, <1>7, HolderMoves
<1>9. DoneSticks'
  BY <1>1, <1>5, <1>a, <1>b DEF DoneSticks, WorldOK
<1> QED
  BY <1>6, <1>8, <1>9, TypePartsNext DEF IInv

LEMMA RenderCaddyKeeps == ASSUME IInv, NEW p \in Runs, renderScript(p, "caddyfile", "singbox") PROVE IInv'
<1>1. TypeOK /\ RunsProgress /\ DoneSticks /\ WorldOK /\ RunsOK /\ run[p].pc = "caddyfile"
  BY TypeParts DEF IInv, renderScript, Step, At
<1>2. PICK c \in {"install", "update"}, b \in Versions, w \in 0 .. MaxVersion, d \in SUBSET Images :
        /\ run[p] = RunOf(c, "caddyfile", b, w, d) /\ b <= checkout /\ Progress(run[p])
        /\ run[p].cmd = c /\ run[p].binary = b /\ run[p].want = w /\ run[p].pending = d
  BY <1>1, Fields
<1>a. w \in 1 .. checkout /\ (lastDone = checkout => w = checkout) /\ \A i \in Images : images[i] = w
  BY <1>1, <1>2 DEF Progress, Fetched, Loaded
<1>b. rendered' = [rendered EXCEPT !["caddyfile"] = w] /\ schema' = Larger(schema, w)
  BY <1>a, ServicesAssumption DEF renderScript
<1>c. schema' \in 0 .. checkout /\ schema' >= w /\ schema' >= schema
  BY <1>1, <1>a, <1>b, VersionAssumption DEF WorldOK, Versions, Larger
<1>d. rendered' \in [Targets -> 0 .. checkout] /\ rendered'["caddyfile"] = w
      /\ \A t \in Targets : t # "caddyfile" => rendered'[t] = rendered[t]
  BY <1>1, <1>a, <1>b, VersionAssumption DEF WorldOK, Targets, Versions
<1>e. Go(p, "singbox")
  BY DEF renderScript, Step
<1> DEFINE r == RunOf(c, "singbox", b, w, d)
<1>3. Become(p, r)
  BY <1>1, <1>2, <1>e, Goes
<1>4. r \in Run /\ r # NotRunning /\ r.pc = "singbox" /\ r.binary = b /\ r.want = w /\ r.pending = d
  BY RunOfType DEF Pcs
<1> HIDE DEF r
<1>5. UNCHANGED <<tag, bundles, checkout, binary, env, images, running, opLock, cron, lastDone>>
  BY DEF renderScript
<1>6. WorldOK'
  BY <1>1, <1>5, <1>c, <1>d DEF WorldOK
<1>7. Progress(r)'
  BY <1>1, <1>2, <1>4, <1>5, <1>a, <1>c, <1>d DEF Targets, Progress, Fetched, Loaded, Migrated
<1>8. RunsOK' /\ RunsProgress'
  BY <1>1, <1>3, <1>4, <1>5, <1>7, HolderMoves
<1>9. DoneSticks'
  BY <1>1, <1>5 DEF DoneSticks
<1> QED
  BY <1>6, <1>8, <1>9, TypePartsNext DEF IInv

LEMMA RenderSingboxKeeps == ASSUME IInv, NEW p \in Runs, renderScript(p, "singbox", "up") PROVE IInv'
<1>1. TypeOK /\ RunsProgress /\ DoneSticks /\ WorldOK /\ RunsOK /\ run[p].pc = "singbox"
  BY TypeParts DEF IInv, renderScript, Step, At
<1>2. PICK c \in {"install", "update"}, b \in Versions, w \in 0 .. MaxVersion, d \in SUBSET Images :
        /\ run[p] = RunOf(c, "singbox", b, w, d) /\ b <= checkout /\ Progress(run[p])
        /\ run[p].cmd = c /\ run[p].binary = b /\ run[p].want = w /\ run[p].pending = d
  BY <1>1, Fields
<1>a. w \in 1 .. checkout /\ (lastDone = checkout => w = checkout) /\ \A i \in Images : images[i] = w
  BY <1>1, <1>2 DEF Progress, Fetched, Loaded
<1>b. rendered' = [rendered EXCEPT !["singbox"] = w] /\ schema' = Larger(schema, w)
  BY <1>a, ServicesAssumption DEF renderScript
<1>c. schema' \in 0 .. checkout /\ schema' >= w /\ schema' >= schema
  BY <1>1, <1>a, <1>b, VersionAssumption DEF WorldOK, Versions, Larger
<1>d. rendered' \in [Targets -> 0 .. checkout] /\ rendered'["singbox"] = w
      /\ \A t \in Targets : t # "singbox" => rendered'[t] = rendered[t]
  BY <1>1, <1>a, <1>b, VersionAssumption DEF WorldOK, Targets, Versions
<1>e. Go(p, "up")
  BY DEF renderScript, Step
<1> DEFINE r == RunOf(c, "up", b, w, d)
<1>3. Become(p, r)
  BY <1>1, <1>2, <1>e, Goes
<1>4. r \in Run /\ r # NotRunning /\ r.pc = "up" /\ r.binary = b /\ r.want = w /\ r.pending = d
  BY RunOfType DEF Pcs
<1> HIDE DEF r
<1>5. UNCHANGED <<tag, bundles, checkout, binary, env, images, running, opLock, cron, lastDone>>
  BY DEF renderScript
<1>6. WorldOK'
  BY <1>1, <1>5, <1>c, <1>d DEF WorldOK
<1>7. Progress(r)'
  BY <1>1, <1>2, <1>4, <1>5, <1>a, <1>c, <1>d DEF Targets, Progress, Fetched, Loaded, Migrated
<1>8. RunsOK' /\ RunsProgress'
  BY <1>1, <1>3, <1>4, <1>5, <1>7, HolderMoves
<1>9. DoneSticks'
  BY <1>1, <1>5 DEF DoneSticks
<1> QED
  BY <1>6, <1>8, <1>9, TypePartsNext DEF IInv

LEMMA ComposeUpKeeps == ASSUME IInv, NEW p \in Runs, ComposeUp(p) PROVE IInv'
<1>1. TypeOK /\ RunsProgress /\ DoneSticks /\ WorldOK /\ RunsOK /\ run[p].pc = "up"
  BY TypeParts DEF IInv, ComposeUp, Step, At
<1>2. PICK c \in {"install", "update"}, b \in Versions, w \in 0 .. MaxVersion, d \in SUBSET Images :
        /\ run[p] = RunOf(c, "up", b, w, d) /\ b <= checkout /\ Progress(run[p])
        /\ run[p].cmd = c /\ run[p].binary = b /\ run[p].want = w /\ run[p].pending = d
  BY <1>1, Fields
<1>a. w \in 1 .. checkout /\ (lastDone = checkout => w = checkout) /\ \A i \in Images : images[i] = w
  BY <1>1, <1>2 DEF Progress, Fetched, Loaded
<1>b. running' = [s \in Services |-> w] /\ lastDone' \in {w, lastDone}
  BY <1>1, <1>2, <1>a, ServicesAssumption DEF ComposeUp
<1>c. PICK pc \in {"done", "health"} : Go(p, pc)
  BY DEF ComposeUp, Step
<1> DEFINE r == RunOf(c, pc, b, w, d)
<1>3. Become(p, r)
  BY <1>1, <1>2, <1>c, Goes
<1>4. r \in Run /\ r # NotRunning /\ r.pc = pc /\ r.binary = b /\ r.want = w /\ r.pending = d
  BY RunOfType DEF Pcs
<1> HIDE DEF r
<1>5. UNCHANGED <<tag, bundles, checkout, binary, env, images, schema, rendered, opLock, cron>>
  BY DEF ComposeUp
<1>6. WorldOK'
  BY <1>1, <1>5, <1>a, <1>b, VersionAssumption DEF WorldOK, Versions
<1>7. Progress(r)'
  BY <1>1, <1>2, <1>4, <1>5, <1>a, <1>b DEF Progress, Fetched, Loaded, Migrated
<1>8. RunsOK' /\ RunsProgress'
  BY <1>1, <1>3, <1>4, <1>5, <1>7, HolderMoves
<1>9. DoneSticks'
  BY <1>5, <1>a, <1>b, ServicesAssumption DEF DoneSticks
<1> QED
  BY <1>6, <1>8, <1>9, TypePartsNext DEF IInv

LEMMA ReadyKeeps == ASSUME IInv, NEW p \in Runs, waitForRuntimeReady(p) PROVE IInv'
<1>1. TypeOK /\ RunsProgress /\ DoneSticks /\ WorldOK /\ RunsOK /\ run[p].pc = "health"
  BY TypeParts DEF IInv, waitForRuntimeReady, Step, At
<1>2. PICK c \in {"install", "update"}, b \in Versions, w \in 0 .. MaxVersion, d \in SUBSET Images :
        /\ run[p] = RunOf(c, "health", b, w, d) /\ b <= checkout /\ Progress(run[p])
        /\ run[p].cmd = c /\ run[p].binary = b /\ run[p].want = w /\ run[p].pending = d
  BY <1>1, Fields
<1>a. w \in 1 .. checkout /\ (lastDone = checkout => w = checkout)
      /\ (\A i \in Images : images[i] = w) /\ \A s \in Services : running[s] = w
  BY <1>1, <1>2 DEF Progress, Fetched, Loaded
<1>b. lastDone' = w /\ Go(p, "done")
  BY <1>2 DEF waitForRuntimeReady, Step
<1> DEFINE r == RunOf(c, "done", b, w, d)
<1>3. Become(p, r)
  BY <1>1, <1>2, <1>b, Goes
<1>4. r \in Run /\ r # NotRunning /\ r.pc = "done" /\ r.binary = b /\ r.want = w /\ r.pending = d
  BY RunOfType DEF Pcs
<1> HIDE DEF r
<1>5. UNCHANGED <<tag, bundles, checkout, binary, host, opLock, cron>>
  BY DEF waitForRuntimeReady
<1>6. WorldOK'
  BY <1>1, <1>5, <1>a, <1>b, VersionAssumption DEF WorldOK, Versions
<1>7. Progress(r)'
  BY <1>1, <1>2, <1>4, <1>5, <1>a, <1>b DEF Progress, Fetched, Loaded, Migrated
<1>8. RunsOK' /\ RunsProgress'
  BY <1>1, <1>3, <1>4, <1>5, <1>7, HolderMoves
<1>9. DoneSticks'
  BY <1>5, <1>a, <1>b, ServicesAssumption DEF DoneSticks
<1> QED
  BY <1>6, <1>8, <1>9, TypePartsNext DEF IInv

\* Wherever a command ends, by itself or not, it leaves the services it has recreated, took
\* down or did not touch.
LEMMA EndKeeps ==
  ASSUME IInv, NEW p \in Runs, run[p] # NotRunning,
         run' = [run EXCEPT ![p] = NotRunning], opLock' = Nobody,
         UNCHANGED <<tag, bundles, checkout, binary, env, images, schema, rendered, cron, lastDone>>,
         \/ running' = running
         \/ /\ running' \in [Services -> 0 .. checkout]
            /\ \A s \in Services : \/ running'[s] \in {0, running[s]}
                                   \/ /\ running'[s] = images[ImageOf[s]]
                                      /\ lastDone = checkout => images[ImageOf[s]] = checkout
  PROVE  IInv'
<1>1. TypeOK /\ RunsProgress /\ DoneSticks /\ WorldOK /\ RunsOK
  BY TypeParts DEF IInv
<1>2. WorldOK'
  BY <1>1 DEF WorldOK
<1>3. RunsOK' /\ RunsProgress'
  BY <1>1, HolderEnds
<1>4. DoneSticks'
  BY <1>1 DEF DoneSticks
<1> QED
  BY <1>2, <1>3, <1>4, TypePartsNext DEF IInv

LEMMA DeathsKeep ==
  ASSUME IInv, NEW p \in Runs, Return(p) \/ GivesUp(p) \/ RunDies(p)
  PROVE  IInv'
<1>1. run[p] # NotRunning
  BY DEF Return, GivesUp, RunDies, At, NotRunning
<1> QED
  BY <1>1, EndKeeps DEF Return, GivesUp, RunDies, Die

LEMMA ComposeFailsKeeps == ASSUME IInv, NEW p \in Runs, ComposeUpFails(p) PROVE IInv'
<1>1. RunsProgress /\ WorldOK /\ run[p].pc = "up" /\ run[p] # NotRunning
  BY TypeParts DEF IInv, ComposeUpFails, At, NotRunning
<1>2. /\ run[p].want \in 1 .. checkout /\ (lastDone = checkout => run[p].want = checkout)
      /\ \A i \in Images : images[i] = run[p].want
  BY <1>1 DEF RunsProgress, Progress, Fetched, Loaded
<1>3. PICK new, down \in SUBSET Services :
        running' = [s \in Services |-> IF s \in new THEN images[ImageOf[s]]
                                       ELSE IF s \in down THEN 0 ELSE running[s]]
  BY DEF ComposeUpFails
<1>4. running' \in [Services -> 0 .. checkout]
  BY <1>1, <1>2, <1>3, ServicesAssumption, VersionAssumption DEF WorldOK, Versions
<1>5. \A s \in Services : \/ running'[s] \in {0, running[s]}
                          \/ /\ running'[s] = images[ImageOf[s]]
                             /\ lastDone = checkout => images[ImageOf[s]] = checkout
  BY <1>2, <1>3, ServicesAssumption
<1> QED
  BY <1>1, <1>4, <1>5, EndKeeps DEF ComposeUpFails, Die

LEMMA StepIInv == IInv /\ [Next]_vars => IInv'
<1> SUFFICES ASSUME IInv, [Next]_vars
             PROVE  IInv'
  OBVIOUS
<1>1. CASE Release \/ PublishBundle \/ operator_bootstrap_if_skewed
  BY <1>1, OthersKeep
<1>2. CASE StopService
  BY <1>2, StopKeeps
<1>3. CASE \E p \in Terminals : StartCommand(p)
  <2>1. PICK p \in Terminals : StartCommand(p)
    BY <1>3
  <2>2. PICK cmd \in {"install", "update"} : acquireOpLock(p, cmd)
    BY <2>1 DEF StartCommand
  <2>3. p \in Runs /\ cron' \in Cron /\ UNCHANGED <<tag, bundles, checkout, binary, host, lastDone>>
    BY <2>1 DEF Runs, IInv, TypeOK, StartCommand
  <2> QED
    BY <2>2, <2>3, AcquireKeeps
<1>4. ASSUME NEW p \in Runs, Advance(p)
      PROVE  IInv'
  BY <1>4, PreflightKeeps, PullKeeps, MigrateEnvKeeps, WriteEnvKeeps, ReadVersionKeeps, FetchKeeps,
     LoadKeeps, MigrateKeeps, RenderCaddyKeeps, RenderSingboxKeeps, ComposeUpKeeps, ReadyKeeps,
     DeathsKeep DEF Advance
<1>5. ASSUME NEW p \in Runs, ComposeUpFails(p) \/ RunDies(p)
      PROVE  IInv'
  BY <1>5, ComposeFailsKeeps, DeathsKeep
<1>6. CASE runAutoUpdate
  BY <1>6, OthersKeep, CronUpdateKeeps DEF runAutoUpdate
<1>7. CASE UNCHANGED vars
  <2>1. UNCHANGED <<tag, bundles, checkout, binary, env, images, schema, rendered, running,
                    opLock, run, cron, lastDone>>
    BY <1>7 DEF vars
  <2>2. TypeOK /\ RunsProgress /\ DoneSticks
    BY DEF IInv
  <2>3. TypeOK' /\ DoneSticks'
    BY <2>1, <2>2 DEF TypeOK, DoneSticks
  <2>4. RunsProgress'
    BY <2>1, <2>2 DEF RunsProgress, Progress
  <2> QED
    BY <2>3, <2>4 DEF IInv
<1> QED
  BY <1>1, <1>2, <1>3, <1>4, <1>5, <1>6, <1>7 DEF Next

-----------------------------------------------------------------------------
(* Theorems.                                                               *)

LEMMA Invariant == Spec => []IInv
BY InitIInv, StepIInv, PTL DEF Spec

\* The variables keep their types: no image, config, service or schema is ahead of the
\* checkout, and the operation lock is held by the one process that runs.
THEOREM TypeCorrect == Spec => []TypeOK
<1>1. IInv => TypeOK
  BY DEF IInv
<1> QED
  BY <1>1, Invariant, PTL

\* `ct install` and `ct update` report success only when images, configs, schema and every
\* service are of the release they fetched, whatever failed before and whatever is pulled
\* meanwhile.
THEOREM DeliversHolds == Spec => []Delivers
<1>1. IInv => Delivers
  BY DEF IInv, RunsProgress, Progress, Loaded, Migrated, Fetched, Delivers, At, Targets
<1> QED
  BY <1>1, Invariant, PTL

\* A release once deployed is not undone by a later command that fails or is killed.
THEOREM DoneSticksHolds == Spec => []DoneSticks
<1>1. IInv => DoneSticks
  BY DEF IInv
<1> QED
  BY <1>1, Invariant, PTL

\* compose up recreates services, also where it fails half-way, only when the images of
\* one whole release are loaded.
THEOREM NoMixedReleaseHolds == Spec => NoMixedRelease
<1> DEFINE Whole == \A s \in Services : running'[s] \notin {0, running[s]} =>
                                          \A i \in Images : images[i] = running'[s]
<1>1. IInv /\ [Next]_vars => [Whole]_vars
  <2> SUFFICES ASSUME IInv, Next
               PROVE  Whole
    OBVIOUS
  <2>1. ASSUME NEW p \in Runs, ComposeUp(p) \/ ComposeUpFails(p)
        PROVE  Whole
    <3>1. RunsProgress /\ run[p].pc = "up"
      BY <2>1 DEF IInv, ComposeUp, ComposeUpFails, Step, At
    <3>2. \A i \in Images : images[i] = run[p].want
      BY <3>1 DEF RunsProgress, Progress, Loaded
    <3>3. \A s \in Services : running'[s] \in {0, running[s], images[ImageOf[s]]}
      BY <2>1 DEF ComposeUp, ComposeUpFails
    <3> QED
      BY <3>2, <3>3, ServicesAssumption
  <2>2. CASE StopService
    <3>1. PICK s \in Services : running' = [running EXCEPT ![s] = 0]
      BY <2>2 DEF StopService
    <3>2. running \in [Services -> 0 .. checkout]
      BY DEF IInv, TypeOK
    <3> QED
      BY <3>1, <3>2
  <2>3. ASSUME NEW p \in Runs, Advance(p), ~ComposeUp(p)
        PROVE  running' = running
    BY <2>3 DEF Advance, preflight, gitPullFfOnly, migrateEnvFile, WriteEnv, ReadVersion, FetchBundle,
       load_image_bom, migrateAndReport, renderScript, waitForRuntimeReady, Return, GivesUp
  <2>4. ASSUME NEW p \in Runs, RunDies(p)
        PROVE  running' = running
    BY <2>4 DEF RunDies
  <2>5. Release \/ PublishBundle \/ operator_bootstrap_if_skewed \/ runAutoUpdate
          \/ (\E p \in Terminals : StartCommand(p)) => running' = running
    BY DEF Release, PublishBundle, operator_bootstrap_if_skewed, runAutoUpdate, Tick, probeVersions,
       SayUpToDate, preflightStackHealthy, CronPull, CronUpdate, CronStops, StartCommand
  <2> QED
    BY <2>1, <2>2, <2>3, <2>4, <2>5 DEF Next
<1>2. []IInv /\ [][Next]_vars => [][Whole]_vars
  BY <1>1, PTL
<1> QED
  BY <1>2, Invariant DEF Spec, NoMixedRelease
=============================================================================

-------------------------- MODULE Supervisor_proofs --------------------------
(***************************************************************************)
(* What `singbox-core supervise` keeps up, for any number of replacements, *)
(* spawns, crashes and restarts of the container and any kinds of config.  *)
(***************************************************************************)
EXTENDS Supervisor, FiniteSetTheorems, TLAPS

ChildStates == {"loading", "loaded", "serving", "dead", "crashed"}
ChildSet    == [state : ChildStates, source : Sources, signalled : BOOLEAN, conf : File]
KillSet     == [target : 0..MaxSpawns, source : Sources]

-----------------------------------------------------------------------------
(* Types, and what each action makes of the children.                      *)

LEMMA NoFileType ==
  /\ NoFile \in File /\ NoFile.ver = 0 /\ NoFile.kind = "absent" /\ ~Valid(NoFile)
  /\ Dead \in ChildSet /\ Dead.state = "dead" /\ Dead.signalled = FALSE
  /\ "path" \in Sources /\ "copy" \in Sources
<1>1. 0 \in Versions
  BY BoundsAssumption DEF Versions
<1>2. NoFile \in File /\ NoFile.ver = 0 /\ NoFile.kind = "absent"
  BY <1>1 DEF NoFile, File
<1>3. Dead \in ChildSet /\ Dead.state = "dead" /\ Dead.signalled = FALSE
  BY <1>2 DEF Dead, ChildSet, ChildStates, Sources
<1> QED
  BY <1>2, <1>3 DEF Valid, Sources

LEMMA FileFields ==
  ASSUME NEW f \in File
  PROVE  f.ver \in Versions /\ f.ver \in Nat /\ f.kind \in OldKinds \cup Kinds \cup {"absent"}
BY BoundsAssumption DEF File, Versions

LEMMA Types == TypeOK <=>
  /\ config \in File /\ copy \in File
  /\ phase \in {"waiting", "checked", "spawned", "watching", "running", "exited"}
  /\ prepared \in Sources
  /\ notified \in Versions /\ lastSeen \in Versions /\ served \in Versions
  /\ timer \in BOOLEAN
  /\ killing \in [Callbacks -> KillSet]
  /\ child \in [Children -> ChildSet]
  /\ spawns \in 0..MaxSpawns /\ tracked \in 0..MaxSpawns
  /\ restarts \in 0..MaxRestarts /\ crashes \in 0..MaxCrashes
  /\ orphans \subseteq Children /\ raced \in Versions
BY DEF TypeOK, KillSet, ChildSet, ChildStates

\* Child c becomes r, and the others stay as they are.
Becomes(c, r) ==
  /\ child' \in [Children -> ChildSet]
  /\ \A d \in Children : d # c => child'[d] = child[d]
  /\ child'[c] = r

LEMMA SpawnMakes ==
  ASSUME TypeOK, NEW source \in Sources, spawnSingbox(source)
  PROVE  \E n \in Children, r \in ChildSet :
           /\ n = spawns + 1 /\ spawns' = n /\ tracked' = n /\ Becomes(n, r)
           /\ r.state = "loading" /\ r.source = source /\ ~r.signalled
<1>1. PICK n \in Children : n = spawns + 1
  BY BoundsAssumption, Types DEF spawnSingbox, Children
<1>2. PICK r : r = [state |-> "loading", source |-> source, signalled |-> FALSE, conf |-> NoFile]
  OBVIOUS
<1>3. r \in ChildSet /\ r.state = "loading" /\ r.source = source /\ ~r.signalled
  BY <1>2, NoFileType DEF ChildSet, ChildStates
<1>4. child' = [child EXCEPT ![n] = r] /\ spawns' = n /\ tracked' = n
  BY <1>1, <1>2 DEF spawnSingbox
<1>5. Becomes(n, r)
  BY <1>3, <1>4, Types DEF Becomes
<1> QED
  BY <1>1, <1>3, <1>4, <1>5

LEMMA LoadMakes ==
  ASSUME TypeOK, NEW c \in Children, ChildLoads(c)
  PROVE  LET f == IF child[c].source = "copy" THEN copy ELSE config IN
         /\ child[c].state = "loading"
         /\ \/ ~Valid(f) /\ Becomes(c, Dead)
            \/ Valid(f) /\ \E r \in ChildSet :
                 Becomes(c, r) /\ r.state = "loaded" /\ r.conf = f /\ r.signalled = child[c].signalled
<1> DEFINE f == IF child[c].source = "copy" THEN copy ELSE config
<1>1. child[c].state = "loading" /\ child' = [child EXCEPT ![c] =
          IF Valid(f) THEN [@ EXCEPT !.state = "loaded", !.conf = f] ELSE Dead]
  BY DEF ChildLoads
<1>2. CASE ~Valid(f)
  BY <1>1, <1>2, NoFileType, Types DEF Becomes
<1>3. CASE Valid(f)
  <2>1. PICK x : x = [child[c] EXCEPT !.state = "loaded"]
    OBVIOUS
  <2>2. child[c] \in ChildSet /\ f \in File
    BY Types
  <2>3. x \in ChildSet /\ x.state = "loaded" /\ x.signalled = child[c].signalled
    BY <2>1, <2>2 DEF ChildSet, ChildStates
  <2>4. PICK r : r = [x EXCEPT !.conf = f]
    OBVIOUS
  <2>5. r \in ChildSet /\ r.state = "loaded" /\ r.conf = f
    BY <2>2, <2>3, <2>4 DEF ChildSet
  <2>6. r.signalled = child[c].signalled
    BY <2>2, <2>3, <2>4 DEF ChildSet
  <2>7. child' = [child EXCEPT ![c] = r]
    BY <1>1, <1>3, <2>1, <2>4
  <2>8. Becomes(c, r)
    BY <2>5, <2>7, Types DEF Becomes
  <2> QED
    BY <1>1, <1>3, <2>5, <2>6, <2>8
<1> QED
  BY <1>2, <1>3

LEMMA BindMakes ==
  ASSUME TypeOK, NEW c \in Children, ChildBinds(c)
  PROVE  /\ child[c].state = "loaded"
         /\ \/ (\E d \in Children : Serving(d)) /\ served' = served /\ Becomes(c, Dead)
            \/ /\ ~(\E d \in Children : Serving(d)) /\ served' = child[c].conf.ver
               /\ \E r \in ChildSet : Becomes(c, r) /\ r.state = "serving"
                    /\ r.conf = child[c].conf /\ r.signalled = child[c].signalled
<1>1. CASE \E d \in Children : Serving(d)
  BY <1>1, NoFileType, Types DEF ChildBinds, Becomes
<1>2. CASE ~ \E d \in Children : Serving(d)
  <2>1. PICK r : r = [child[c] EXCEPT !.state = "serving"]
    OBVIOUS
  <2>2. child[c] \in ChildSet
    BY Types
  <2>3. r \in ChildSet /\ r.state = "serving" /\ r.conf = child[c].conf
    BY <2>1, <2>2 DEF ChildSet, ChildStates
  <2>4. r.signalled = child[c].signalled
    BY <2>1, <2>2 DEF ChildSet
  <2>5. child' = [child EXCEPT ![c] = r] /\ served' = child[c].conf.ver
    BY <1>2, <2>1 DEF ChildBinds
  <2>6. Becomes(c, r)
    BY <2>3, <2>5, Types DEF Becomes
  <2> QED
    BY <1>2, <2>3, <2>4, <2>5, <2>6 DEF ChildBinds
<1> QED
  BY <1>1, <1>2 DEF ChildBinds

LEMMA ExitMakes ==
  ASSUME TypeOK, NEW c \in Children, ChildExits(c)
  PROVE  Alive(c) /\ child[c].signalled /\ Becomes(c, Dead)
BY NoFileType, Types DEF ChildExits, Becomes

LEMMA CrashMakes ==
  ASSUME TypeOK, NEW c \in Children, ChildCrashes(c)
  PROVE  /\ Serving(c)
         /\ \E r \in ChildSet : Becomes(c, r) /\ r.state = "crashed"
<1>1. PICK r : r = [Dead EXCEPT !.state = "crashed"]
  OBVIOUS
<1>2. r \in ChildSet /\ r.state = "crashed"
  BY <1>1, NoFileType DEF ChildSet, ChildStates
<1>3. Becomes(c, r)
  BY <1>1, <1>2, Types DEF ChildCrashes, Becomes
<1> QED
  BY <1>2, <1>3 DEF ChildCrashes

LEMMA KillMakes ==
  ASSUME TypeOK, NEW k \in Callbacks, TimerKills(k), tracked \in Children
  PROVE  \E x \in KillSet, r \in ChildSet :
           /\ killing' \in [Callbacks -> KillSet] /\ killing'[k] = x
           /\ \A i \in Callbacks : i # k => killing'[i] = killing[i]
           /\ x.target = tracked /\ x.source = SourceOf(config)
           /\ Becomes(tracked, r) /\ r.state = child[tracked].state /\ r.conf = child[tracked].conf
           /\ r.source = child[tracked].source /\ (r.signalled <=> Alive(tracked))
<1>1. PICK x : x = [target |-> tracked, source |-> SourceOf(config)]
  OBVIOUS
<1>2. x \in KillSet /\ x.target = tracked /\ x.source = SourceOf(config)
  BY <1>1, Types DEF KillSet, SourceOf, Sources
<1>3. killing' = [killing EXCEPT ![k] = x]
  BY <1>1 DEF TimerKills
<1>4. PICK alive \in BOOLEAN : alive = Alive(tracked)
  BY DEF Alive
<1>5. PICK r : r = [child[tracked] EXCEPT !.signalled = alive]
  OBVIOUS
<1>6. child[tracked] \in ChildSet
  BY Types
<1>7. r \in ChildSet /\ r.state = child[tracked].state
  BY <1>5, <1>6 DEF ChildSet
<1>8. r.conf = child[tracked].conf /\ r.source = child[tracked].source
  BY <1>5, <1>6 DEF ChildSet
<1>9. r.signalled = alive
  BY <1>5, <1>6 DEF ChildSet
<1>10. child' = [child EXCEPT ![tracked] = r]
  BY <1>4, <1>5 DEF TimerKills
<1>11. Becomes(tracked, r)
  BY <1>7, <1>10, Types DEF Becomes
<1> QED
  BY <1>2, <1>3, <1>4, <1>7, <1>8, <1>9, <1>11, Types

-----------------------------------------------------------------------------
(* Where the boot and the event loop stand: while it waits for a file the  *)
(* supervisor has no child, before the event loop turns nothing restarts   *)
(* it, and from the spawn on state.child is one of the processes.          *)

Starting == {"waiting", "checked", "exited"}
Started  == {"spawned", "watching", "running"}

Stage ==
  /\ phase \in Starting => tracked = 0 /\ \A c \in Children : ~Alive(c)
  /\ phase \in Started => tracked \in Children
  /\ phase # "running" => ~timer /\ \A k \in Callbacks : ~Suspended(k)

\* A file that is there has a version, and only a file from before is of an old release.
Files ==
  /\ config.ver = 0 <=> config.kind = "absent"
  /\ config.kind = "legacy" => config.ver = 1
  /\ phase \in Started \cup {"checked"} => config.ver >= 1

\* Nothing is known of a version that has not been written.
Known ==
  /\ copy.ver <= config.ver /\ notified <= config.ver
  /\ lastSeen <= config.ver /\ served <= config.ver
  /\ \A c \in Children : child[c].conf.ver <= config.ver

Basics == TypeOK /\ Stage /\ Files /\ Known

LEMMA ReplaceMakes ==
  ASSUME TypeOK, ReplaceConfig
  PROVE  /\ config' \in File /\ config'.ver = config.ver + 1
         /\ config'.kind \in {"good", "bad"}
<1>1. PICK kind \in Kinds : config' = [ver |-> config.ver + 1, kind |-> kind]
  BY DEF ReplaceConfig
<1>2. config.ver + 1 \in Versions
  BY BoundsAssumption, FileFields, Types DEF ReplaceConfig, Versions
<1>3. config' \in File
  BY <1>1, <1>2 DEF File
<1> QED
  BY <1>1, <1>3, KindsAssumption

LEMMA BasicsInit == Init => Basics
<1> SUFFICES ASSUME Init PROVE Basics
  OBVIOUS
<1> USE BoundsAssumption
<1>1. config \in File /\ (config.ver = 0 <=> config.kind = "absent")
      /\ (config.kind = "legacy" => config.ver = 1) /\ config.ver \in Nat
  <2>1. CASE config = NoFile
    BY <2>1, NoFileType
  <2>2. CASE config \in {[ver |-> 1, kind |-> k] : k \in OldKinds}
    <3>1. PICK k \in OldKinds : config = [ver |-> 1, kind |-> k]
      BY <2>2
    <3>2. k # "absent"
      BY KindsAssumption
    <3> QED
      BY <3>1, <3>2 DEF File, Versions
  <2> QED
    BY <2>1, <2>2 DEF Init
<1>2. Waiting \in KillSet
  BY NoFileType DEF Waiting, KillSet
<1>3. killing \in [Callbacks -> KillSet] /\ \A k \in Callbacks : ~Suspended(k)
  BY <1>2 DEF Init, Suspended
<1>4. child \in [Children -> ChildSet] /\ \A c \in Children : child[c] = Dead
  BY NoFileType DEF Init
<1>5. TypeOK
  <2>1. 0 \in Versions /\ 0 \in 0..MaxSpawns /\ 0 \in 0..MaxRestarts /\ 0 \in 0..MaxCrashes
    BY DEF Versions
  <2> QED
    BY <1>1, <1>3, <1>4, <2>1, NoFileType, Types DEF Init
<1>6. Stage
  BY <1>3, <1>4, NoFileType DEF Init, Stage, Starting, Started, Alive
<1>7. \A c \in Children : child[c].conf.ver = 0
  BY <1>4, NoFileType DEF Dead
<1>8. Files /\ Known
  BY <1>1, <1>7, NoFileType DEF Init, Files, Known, Started
<1> QED
  BY <1>5, <1>6, <1>8 DEF Basics

\* The type facts that a change of one child, or of nothing but the loop, needs.
LEMMA TypesPrimed ==
  ASSUME config' \in File, copy' \in File,
         phase' \in {"waiting", "checked", "spawned", "watching", "running", "exited"},
         prepared' \in Sources,
         notified' \in Versions, lastSeen' \in Versions, served' \in Versions,
         timer' \in BOOLEAN,
         killing' \in [Callbacks -> KillSet],
         child' \in [Children -> ChildSet],
         spawns' \in 0..MaxSpawns, tracked' \in 0..MaxSpawns,
         restarts' \in 0..MaxRestarts, crashes' \in 0..MaxCrashes,
         orphans' \subseteq Children, raced' \in Versions
  PROVE  TypeOK'
BY DEF TypeOK, KillSet, ChildSet, ChildStates

LEMMA KillDoneMakes ==
  ASSUME TypeOK, NEW k \in Callbacks, KillDone(k)
  PROVE  /\ killing' \in [Callbacks -> KillSet] /\ killing'[k] = Waiting
         /\ \A i \in Callbacks : i # k => killing'[i] = killing[i]
         /\ killing[k].source \in Sources
<1>1. Waiting \in KillSet
  BY NoFileType, BoundsAssumption DEF Waiting, KillSet
<1> QED
  BY <1>1, Types DEF KillDone, KillSet

LEMMA TypesStep ==
  ASSUME Basics, [Next]_vars
  PROVE  TypeOK'
<1> USE BoundsAssumption
<1>0. TypeOK /\ Stage
  BY DEF Basics
<1>1. CASE ReplaceConfig
  <2>1. config' \in File
    BY <1>0, <1>1, ReplaceMakes
  <2>2. raced' \in Versions
    BY <1>0, <1>1, Types, FileFields DEF ReplaceConfig, Versions
  <2> QED
    BY <1>0, <1>1, <2>1, <2>2, Types, TypesPrimed DEF ReplaceConfig
<1>2. CASE BootPrepare
  <2>1. SourceOf(config) \in Sources /\ CopyAfter(config) \in File
    BY <1>0, Types, NoFileType DEF SourceOf, CopyAfter
  <2>2. 0 \in Versions
    BY DEF Versions
  <2> QED
    BY <1>0, <1>2, <2>1, <2>2, Types, TypesPrimed DEF BootPrepare
<1>3. CASE BootSpawn
  <2>1. spawnSingbox(prepared) /\ prepared \in Sources
    BY <1>0, <1>3, Types DEF BootSpawn
  <2>2. PICK n \in Children : spawns' = n /\ tracked' = n /\ child' \in [Children -> ChildSet]
    BY <1>0, <2>1, SpawnMakes DEF Becomes
  <2> QED
    BY <1>0, <1>3, <2>2, Types, TypesPrimed DEF BootSpawn, Children
<1>4. CASE BootWatch \/ BootPoll \/ BootTimeout \/ DockerRestart
  <2>1. config.ver \in Versions
    BY <1>0, Types, FileFields
  <2> QED
    BY <1>0, <1>4, <2>1, Types, TypesPrimed DEF BootWatch, BootPoll, BootTimeout, DockerRestart
<1>5. CASE Event
  <2>1. config.ver \in Versions
    BY <1>0, Types, FileFields
  <2> QED
    BY <1>0, <1>5, <2>1, Types, TypesPrimed DEF Event, WatchEvent, WatchMiss, PollTick, TimerSkips
<1>6. ASSUME NEW k \in Callbacks, TimerKills(k) PROVE TypeOK'
  <2>1. tracked \in Children
    BY <1>0, <1>6 DEF TimerKills, Stage, Started
  <2>2. killing' \in [Callbacks -> KillSet] /\ child' \in [Children -> ChildSet]
    BY <1>0, <1>6, <2>1, KillMakes DEF Becomes
  <2>3. CopyAfter(config) \in File
    BY <1>0, Types DEF CopyAfter
  <2> QED
    BY <1>0, <1>6, <2>2, <2>3, Types, TypesPrimed DEF TimerKills
<1>7. ASSUME NEW k \in Callbacks, KillDone(k) PROVE TypeOK'
  <2>1. killing' \in [Callbacks -> KillSet] /\ killing[k].source \in Sources
    BY <1>0, <1>7, KillDoneMakes
  <2>2. PICK n \in Children :
           n = spawns + 1 /\ spawns' = n /\ tracked' = n /\ child' \in [Children -> ChildSet]
    BY <1>0, <1>7, <2>1, SpawnMakes DEF Becomes, KillDone
  <2>3. orphans' \subseteq Children
    BY <1>0, <1>7, <2>2, Types DEF KillDone
  <2>4. spawns' \in 0..MaxSpawns /\ tracked' \in 0..MaxSpawns
    BY <2>2 DEF Children
  <2> QED
    BY <1>0, <1>7, <2>1, <2>2, <2>3, <2>4, Types, TypesPrimed DEF KillDone
<1>8. ASSUME NEW c \in Children, ChildLoads(c) PROVE TypeOK'
  <2>1. child' \in [Children -> ChildSet]
    BY <1>0, <1>8, LoadMakes DEF Becomes
  <2> QED
    BY <1>0, <1>8, <2>1, Types, TypesPrimed DEF ChildLoads
<1>9. ASSUME NEW c \in Children, ChildBinds(c) PROVE TypeOK'
  <2>1. child' \in [Children -> ChildSet] /\ served' \in {served, child[c].conf.ver}
    BY <1>0, <1>9, BindMakes DEF Becomes
  <2>2. child[c].conf.ver \in Versions
    BY <1>0, Types, FileFields DEF ChildSet
  <2> QED
    BY <1>0, <1>9, <2>1, <2>2, Types, TypesPrimed DEF ChildBinds
<1>10. ASSUME NEW c \in Children, ChildExits(c) PROVE TypeOK'
  <2>1. child' \in [Children -> ChildSet]
    BY <1>0, <1>10, ExitMakes DEF Becomes
  <2> QED
    BY <1>0, <1>10, <2>1, Types, TypesPrimed DEF ChildExits
<1>11. ASSUME NEW c \in Children, ChildCrashes(c) PROVE TypeOK'
  <2>1. child' \in [Children -> ChildSet]
    BY <1>0, <1>11, CrashMakes DEF Becomes
  <2>2. crashes' \in 0..MaxCrashes
    BY <1>0, <1>11, Types DEF ChildCrashes
  <2> QED
    BY <1>0, <1>11, <2>1, <2>2, Types, TypesPrimed DEF ChildCrashes
<1>12. CASE ContainerRestart
  <2>1. Waiting \in KillSet
    BY NoFileType DEF Waiting, KillSet
  <2>2. child' \in [Children -> ChildSet] /\ killing' \in [Callbacks -> KillSet]
    BY <1>12, <2>1, NoFileType DEF ContainerRestart
  <2>3. restarts' \in 0..MaxRestarts /\ 0 \in 0..MaxSpawns
    BY <1>0, <1>12, Types DEF ContainerRestart
  <2> QED
    BY <1>0, <1>12, <2>2, <2>3, Types, TypesPrimed DEF ContainerRestart
<1>13. CASE UNCHANGED vars
  BY <1>0, <1>13, Types, TypesPrimed DEF vars
<1> QED
  BY <1>1, <1>2, <1>3, <1>4, <1>5, <1>6, <1>7, <1>8, <1>9, <1>10, <1>11, <1>12, <1>13
     DEF Next, Steps, Boot, Restart, Child

\* A child only becomes alive by a spawn, and no step touches another's life.
LEMMA Lives ==
  ASSUME TypeOK, NEW c \in Children, Child(c) \/ ChildCrashes(c)
  PROVE  /\ Alive(c)
         /\ \A d \in Children : d # c => child'[d] = child[d]
<1>1. CASE ChildLoads(c)
  BY <1>1, LoadMakes DEF Alive, Becomes
<1>2. CASE ChildBinds(c)
  BY <1>2, BindMakes DEF Alive, Becomes
<1>3. CASE ChildExits(c)
  BY <1>3, ExitMakes DEF Becomes
<1>4. CASE ChildCrashes(c)
  BY <1>4, CrashMakes DEF Alive, Serving, Becomes
<1> QED
  BY <1>1, <1>2, <1>3, <1>4 DEF Child

LEMMA StageStep ==
  ASSUME Basics, [Next]_vars
  PROVE  Stage'
<1>0. TypeOK /\ Stage
  BY DEF Basics
<1>1. CASE ReplaceConfig \/ Event \/ UNCHANGED vars
  BY <1>0, <1>1 DEF ReplaceConfig, Event, WatchEvent, WatchMiss, PollTick, TimerSkips, vars,
     Stage, Alive, Suspended, Started, Starting
<1>2. CASE BootPrepare \/ BootTimeout \/ DockerRestart
  BY <1>0, <1>2 DEF BootPrepare, BootTimeout, DockerRestart, Stage, Alive, Suspended, Started, Starting
<1>3. CASE BootSpawn
  <2>1. spawnSingbox(prepared) /\ prepared \in Sources
    BY <1>0, <1>3, Types DEF BootSpawn
  <2>2. tracked' \in Children
    BY <1>0, <2>1, SpawnMakes
  <2> QED
    BY <1>0, <1>3, <2>2 DEF BootSpawn, Stage, Started, Starting, Suspended
<1>4. CASE BootWatch \/ BootPoll
  BY <1>0, <1>4 DEF BootWatch, BootPoll, Stage, Suspended, Started, Starting
<1>5. ASSUME NEW k \in Callbacks, TimerKills(k) PROVE Stage'
  BY <1>0, <1>5 DEF TimerKills, Stage, Started, Starting
<1>6. ASSUME NEW k \in Callbacks, KillDone(k) PROVE Stage'
  <2>1. killing[k].source \in Sources /\ spawnSingbox(killing[k].source)
    BY <1>0, <1>6, KillDoneMakes DEF KillDone
  <2>2. tracked' \in Children
    BY <1>0, <2>1, SpawnMakes
  <2> QED
    BY <1>0, <1>6, <2>2 DEF KillDone, Stage, Started, Starting
<1>7. ASSUME NEW c \in Children, Child(c) \/ ChildCrashes(c) PROVE Stage'
  <2>1. phase \notin Starting
    BY <1>0, <1>7, Lives DEF Stage
  <2>2. UNCHANGED <<phase, tracked, timer, killing>>
    BY <1>7 DEF Child, ChildLoads, ChildBinds, ChildExits, ChildCrashes
  <2> QED
    BY <1>0, <2>1, <2>2 DEF Stage, Suspended
<1>8. CASE ContainerRestart
  BY <1>8, NoFileType DEF ContainerRestart, Stage, Started, Starting, Alive, Suspended
<1> QED
  BY <1>1, <1>2, <1>3, <1>4, <1>5, <1>6, <1>7, <1>8 DEF Next, Steps, Boot, Restart

LEMMA FilesStep ==
  ASSUME Basics, [Next]_vars
  PROVE  Files'
<1>0. TypeOK /\ Files
  BY DEF Basics
<1>00. config.ver \in Nat
  BY <1>0, Types, FileFields
<1>1. CASE ReplaceConfig
  <2>1. config'.ver = config.ver + 1 /\ config'.kind \in {"good", "bad"}
    BY <1>0, <1>1, ReplaceMakes
  <2> QED
    BY <1>0, <1>00, <2>1 DEF Files
<1>2. CASE config' = config /\ (phase' = phase \/ phase' \notin Started \cup {"checked"})
  BY <1>0, <1>2 DEF Files
<1>3. CASE BootPrepare
  BY <1>0, <1>00, <1>3 DEF BootPrepare, Files, Valid
<1>4. CASE BootSpawn \/ BootWatch \/ BootPoll
  BY <1>0, <1>4 DEF BootSpawn, BootWatch, BootPoll, Files, Started
<1> QED
  BY <1>1, <1>2, <1>3, <1>4 DEF Next, Steps, Boot, Event, Restart, Child, vars, BootTimeout, DockerRestart,
     WatchEvent, WatchMiss, PollTick, TimerSkips, TimerKills, KillDone, ChildLoads, ChildBinds,
     ChildExits, ChildCrashes, ContainerRestart, Started

\* The versions that a child has read.
LEMMA ConfStep ==
  ASSUME Basics, [Next]_vars, NEW c \in Children
  PROVE  \/ child'[c].conf = child[c].conf
         \/ child'[c].conf = NoFile
         \/ ChildLoads(c) /\ child'[c].conf \in {config, copy}
<1>0. TypeOK /\ Stage
  BY DEF Basics
<1>1. CASE child' = child
  BY <1>1
<1>2. ASSUME NEW source \in Sources, spawnSingbox(source)
      PROVE  child'[c].conf \in {child[c].conf, NoFile}
  <2>1. child' = [child EXCEPT ![spawns + 1] =
                 [state |-> "loading", source |-> source, signalled |-> FALSE, conf |-> NoFile]]
    BY <1>2 DEF spawnSingbox
  <2> QED
    BY <1>0, <2>1, Types
<1>3. ASSUME NEW k \in Callbacks, TimerKills(k) PROVE child'[c].conf = child[c].conf
  <2>1. tracked \in Children
    BY <1>0, <1>3 DEF TimerKills, Stage, Started
  <2> QED
    BY <1>0, <1>3, <2>1, KillMakes DEF Becomes
<1>4. ASSUME NEW d \in Children, ChildLoads(d)
      PROVE  \/ child'[c].conf \in {child[c].conf, NoFile}
             \/ c = d /\ child'[c].conf \in {config, copy}
  <2>1. CASE c # d
    BY <1>0, <1>4, <2>1, LoadMakes DEF Becomes
  <2>2. CASE c = d
    <3>1. PICK r : r = child'[d] /\ (r = Dead \/ r.conf \in {config, copy})
      BY <1>0, <1>4, LoadMakes DEF Becomes
    <3>2. Dead.conf = NoFile
      BY DEF Dead
    <3>3. r.conf = NoFile \/ r.conf \in {config, copy}
      BY <3>1, <3>2
    <3> QED
      BY <2>2, <3>1, <3>3
  <2> QED
    BY <2>1, <2>2
<1>5. ASSUME NEW d \in Children, ChildBinds(d) PROVE child'[c].conf \in {child[c].conf, NoFile}
  BY <1>0, <1>5, BindMakes, NoFileType DEF Becomes, Dead
<1>6. ASSUME NEW d \in Children, ChildExits(d) PROVE child'[c].conf \in {child[c].conf, NoFile}
  BY <1>0, <1>6, ExitMakes, NoFileType DEF Becomes, Dead
<1>7. ASSUME NEW d \in Children, ChildCrashes(d) PROVE child'[c].conf \in {child[c].conf, NoFile}
  <2>1. child'[c] \in {child[c], [Dead EXCEPT !.state = "crashed"]}
    BY <1>0, <1>7, Types DEF ChildCrashes
  <2> QED
    BY <2>1 DEF Dead
<1>8. CASE ContainerRestart
  BY <1>8 DEF ContainerRestart, Dead
<1>9. ASSUME NEW k \in Callbacks, KillDone(k) PROVE child'[c].conf \in {child[c].conf, NoFile}
  BY <1>0, <1>2, <1>9, KillDoneMakes DEF KillDone
<1>10. CASE BootSpawn
  BY <1>0, <1>2, <1>10, Types DEF BootSpawn
<1> QED
  BY <1>1, <1>3, <1>4, <1>5, <1>6, <1>7, <1>8, <1>9, <1>10
     DEF Next, Steps, Boot, Event, Restart, Child, vars, ReplaceConfig, BootPrepare, BootTimeout, DockerRestart,
     BootWatch, BootPoll, WatchEvent, WatchMiss, PollTick, TimerSkips

LEMMA KnownStep ==
  ASSUME Basics, [Next]_vars
  PROVE  Known'
<1>0. TypeOK /\ Known /\ TypeOK'
  BY TypesStep DEF Basics
<1>1. config.ver \in Nat /\ copy.ver \in Nat /\ notified \in Nat /\ lastSeen \in Nat /\ served \in Nat
  BY <1>0, Types, FileFields DEF Versions
<1>2. config'.ver \in Nat /\ config'.ver >= config.ver
  <2>1. CASE ReplaceConfig
    BY <1>0, <1>1, <2>1, ReplaceMakes
  <2>2. CASE config' = config
    BY <1>1, <2>2
  <2> QED
    BY <2>1, <2>2 DEF Next, Steps, Boot, Event, Restart, Child, vars, BootPrepare, BootSpawn, BootWatch,
       BootPoll, BootTimeout, DockerRestart, WatchEvent, WatchMiss, PollTick, TimerSkips, TimerKills, KillDone,
       ChildLoads, ChildBinds, ChildExits, ChildCrashes, ContainerRestart
<1>3. /\ copy' \in {copy, config}
      /\ notified' \in {notified, config.ver}
      /\ lastSeen' \in {lastSeen, config.ver}
  BY DEF Next, Steps, Boot, Event, Restart, Child, vars, ReplaceConfig, BootPrepare, BootSpawn, BootWatch,
     BootPoll, BootTimeout, DockerRestart, WatchEvent, WatchMiss, PollTick, TimerSkips, TimerKills, KillDone,
     ChildLoads, ChildBinds, ChildExits, ChildCrashes, ContainerRestart, CopyAfter
<1>4. \A c \in Children : child[c].conf.ver \in Nat /\ child[c].conf.ver <= config.ver
  BY <1>0, Types, FileFields DEF Known, ChildSet
<1>5. served' = served \/ \E c \in Children : served' = child[c].conf.ver
  BY DEF Next, Steps, Boot, Event, Restart, Child, vars, ReplaceConfig, BootPrepare, BootSpawn, BootWatch,
     BootPoll, BootTimeout, DockerRestart, WatchEvent, WatchMiss, PollTick, TimerSkips, TimerKills, KillDone,
     ChildLoads, ChildBinds, ChildExits, ChildCrashes, ContainerRestart, spawnSingbox
<1>6. ASSUME NEW c \in Children PROVE child'[c].conf.ver <= config'.ver
  BY <1>0, <1>1, <1>2, <1>4, ConfStep, NoFileType DEF Known
<1> QED
  BY <1>0, <1>1, <1>2, <1>3, <1>4, <1>5, <1>6 DEF Known

LEMMA BasicsStep == Basics /\ [Next]_vars => Basics'
BY TypesStep, StageStep, FilesStep, KnownStep DEF Basics

\* Types, the stage of the boot, the kinds of files, and the versions that are known.
THEOREM BasicsHold == Spec => []Basics
BY BasicsInit, BasicsStep, PTL DEF Spec

\* TypeOK: every variable of the supervisor and of its children keeps its type.
THEOREM TypeCorrect == Spec => []TypeOK
<1>1. Basics => TypeOK
  BY DEF Basics
<1> QED
  BY <1>1, BasicsHold, PTL

-----------------------------------------------------------------------------
(* As long as no two callbacks were suspended at once, no more than one    *)
(* process is alive, and a suspended callback waits for it.                *)

Tracked == ~Overlapped =>
  /\ \A c \in Children : Alive(c) => c = tracked
  /\ \A k \in Callbacks : Suspended(k) => killing[k].target = tracked
  /\ \A i, k \in Callbacks : Suspended(i) /\ Suspended(k) => i = k

LEMMA TrackedInit == Init => Tracked
BY NoFileType DEF Init, Tracked, Alive, Suspended

\* No process is left when the tracked one has gone.
LEMMA NobodyLeft ==
  ASSUME ~Overlapped, Tracked, NEW k \in Callbacks, KillDone(k)
  PROVE  /\ \A c \in Children : ~Alive(c)
         /\ \A i \in Callbacks : i # k => ~Suspended(i)
BY DEF Tracked, KillDone

\* Only a new container forgets that callbacks overlapped: of two that are suspended
\* the first to go on leaves an orphan.
LEMMA Monotone ==
  ASSUME Basics, [Next]_vars, ~Overlapped'
  PROVE  ~Overlapped \/ ContainerRestart
<1> SUFFICES ASSUME Overlapped PROVE ContainerRestart
  OBVIOUS
<1>0. TypeOK /\ Stage
  BY DEF Basics
<1>1. CASE UNCHANGED <<killing, orphans>>
  BY <1>1 DEF Overlapped, Suspended
<1>2. ASSUME NEW k \in Callbacks, TimerKills(k) PROVE FALSE
  <2>1. /\ orphans' = orphans /\ ~Suspended(k)
        /\ \A i \in Callbacks : i # k => killing'[i] = killing[i]
    BY <1>0, <1>2, KillMakes DEF TimerKills, Stage, Started
  <2>2. \A i \in Callbacks : Suspended(i) => Suspended(i)'
    BY <2>1 DEF Suspended
  <2> QED
    BY <2>1, <2>2 DEF Overlapped
<1>3. ASSUME NEW k \in Callbacks, KillDone(k) PROVE FALSE
  <2>1. orphans # {} \/ \E i \in Callbacks \ {k} : Suspended(i)
    BY DEF Overlapped
  <2>2. orphans' # {}
    BY <1>3, <2>1 DEF KillDone
  <2> QED
    BY <2>2 DEF Overlapped
<1> QED
  BY <1>1, <1>2, <1>3 DEF Next, Steps, Boot, Event, Restart, Child, vars, ReplaceConfig, BootPrepare, BootSpawn,
     BootWatch, BootPoll, BootTimeout, DockerRestart, WatchEvent, WatchMiss, PollTick, TimerSkips,
     ChildLoads, ChildBinds, ChildExits, ChildCrashes

\* A callback that goes to kill, with no overlap, is the only one that waits.
LEMMA KillsAlone ==
  ASSUME Basics, ~Overlapped', NEW k \in Callbacks, TimerKills(k)
  PROVE  Suspended(k)' /\ \A i \in Callbacks : i # k => ~Suspended(i)'
<1>1. tracked \in Children
  BY DEF Basics, Stage, Started, TimerKills
<1>2. killing'[k].target # 0
  BY <1>1, KillMakes DEF Basics, Children
<1>3. Suspended(k)'
  BY <1>2 DEF Suspended, Waiting
<1> QED
  BY <1>3 DEF Overlapped

LEMMA TrackedStep ==
  ASSUME Basics, Tracked, [Next]_vars
  PROVE  Tracked'
<1> SUFFICES ASSUME ~Overlapped' PROVE Tracked'
  BY DEF Tracked
<1>0. TypeOK /\ Stage
  BY DEF Basics
<1>7. CASE ContainerRestart
  BY <1>7, NoFileType DEF ContainerRestart, Tracked, Alive, Suspended
<1> SUFFICES ASSUME ~Overlapped PROVE Tracked'
  BY <1>7, Monotone
<1>1. CASE UNCHANGED <<child, tracked, killing>>
  BY <1>1 DEF Tracked, Alive, Suspended
<1>2. ASSUME NEW source \in Sources, spawnSingbox(source),
             \A c \in Children : ~Alive(c), \A k \in Callbacks : ~Suspended(k)'
      PROVE  Tracked'
  <2>1. PICK n \in Children, r \in ChildSet : tracked' = n /\ Becomes(n, r)
    BY <1>0, <1>2, SpawnMakes
  <2>2. \A c \in Children : Alive(c)' => c = n
    BY <1>2, <2>1 DEF Becomes, Alive
  <2> QED
    BY <1>2, <2>1, <2>2 DEF Tracked
<1>3. CASE BootSpawn
  <2>1. \A k \in Callbacks : ~Suspended(k)'
    BY <1>0, <1>3 DEF BootSpawn, Stage, Suspended
  <2>2. \A c \in Children : ~Alive(c)
    BY <1>0, <1>3 DEF BootSpawn, Stage, Starting
  <2> QED
    BY <1>0, <1>2, <1>3, <2>1, <2>2, Types DEF BootSpawn
<1>4. ASSUME NEW k \in Callbacks, TimerKills(k) PROVE Tracked'
  <2>1. tracked \in Children /\ tracked' = tracked
    BY <1>0, <1>4 DEF TimerKills, Stage, Started
  <2>2. /\ killing'[k].target = tracked
        /\ \A i \in Callbacks : i # k => ~Suspended(i)'
    BY <1>0, <1>4, <2>1, KillMakes, KillsAlone
  <2>3. \A c \in Children : Alive(c)' => Alive(c)
    BY <1>0, <1>4, <2>1, KillMakes DEF Becomes, Alive
  <2> QED
    BY <2>1, <2>2, <2>3 DEF Tracked
<1>5. ASSUME NEW k \in Callbacks, KillDone(k) PROVE Tracked'
  <2>1. \A i \in Callbacks : ~Suspended(i)'
    BY <1>0, <1>5, NobodyLeft, KillDoneMakes DEF Suspended
  <2> QED
    BY <1>0, <1>2, <1>5, <2>1, NobodyLeft, KillDoneMakes DEF KillDone
<1>6. ASSUME NEW c \in Children, Child(c) \/ ChildCrashes(c) PROVE Tracked'
  <2>1. Alive(c) /\ \A d \in Children : d # c => child'[d] = child[d]
    BY <1>0, <1>6, Lives
  <2>2. \A d \in Children : Alive(d)' => Alive(d)
    BY <2>1 DEF Alive
  <2>3. UNCHANGED <<tracked, killing>>
    BY <1>6 DEF Child, ChildLoads, ChildBinds, ChildExits, ChildCrashes
  <2> QED
    BY <2>2, <2>3 DEF Tracked, Suspended
<1> QED
  BY <1>1, <1>3, <1>4, <1>5, <1>6, <1>7 DEF Next, Steps, Boot, Event, Restart, vars, ReplaceConfig,
     BootPrepare, BootTimeout, DockerRestart, BootWatch, BootPoll, WatchEvent, WatchMiss, PollTick, TimerSkips

\* The tracked child is the only process, and one callback at most waits for it.
THEOREM TrackedHolds == Spec => []Tracked
<1>1. Basics /\ Tracked /\ [Next]_vars => (Basics /\ Tracked)'
  BY BasicsStep, TrackedStep
<1> QED
  BY <1>1, BasicsInit, TrackedInit, PTL DEF Spec

-----------------------------------------------------------------------------
(* Whoever overlaps: a callback that still waits when another has started a *)
(* child waits for an earlier one, and the new child is known as an orphan. *)

Overtaken ==
  \A k \in Callbacks : Suspended(k) /\ killing[k].target # tracked => tracked \in orphans

LEMMA OrphansInit == Init => OnlyTrackedRuns /\ Overtaken
BY NoFileType DEF Init, OnlyTrackedRuns, Overtaken, Alive, Suspended

LEMMA OrphansStep ==
  ASSUME Basics, OnlyTrackedRuns, Overtaken, [Next]_vars
  PROVE  (OnlyTrackedRuns /\ Overtaken)'
<1>0. TypeOK /\ Stage
  BY DEF Basics
<1>1. CASE UNCHANGED <<child, tracked, killing, orphans>>
  BY <1>1 DEF OnlyTrackedRuns, Overtaken, Alive, Suspended
<1>2. CASE BootSpawn
  <2>1. \A k \in Callbacks : ~Suspended(k)'
    BY <1>0, <1>2 DEF BootSpawn, Stage, Suspended
  <2>2. \A c \in Children : ~Alive(c)
    BY <1>0, <1>2 DEF BootSpawn, Stage, Starting
  <2>3. PICK n \in Children, r \in ChildSet : tracked' = n /\ Becomes(n, r)
    BY <1>0, <1>2, SpawnMakes, Types DEF BootSpawn
  <2>4. \A c \in Children : Alive(c)' => c = n
    BY <2>2, <2>3 DEF Becomes, Alive
  <2> QED
    BY <2>1, <2>3, <2>4 DEF OnlyTrackedRuns, Overtaken
<1>3. ASSUME NEW k \in Callbacks, TimerKills(k) PROVE (OnlyTrackedRuns /\ Overtaken)'
  <2>1. tracked \in Children /\ UNCHANGED <<tracked, orphans>>
    BY <1>0, <1>3 DEF TimerKills, Stage, Started
  <2>2. /\ killing'[k].target = tracked
        /\ \A i \in Callbacks : i # k => killing'[i] = killing[i]
    BY <1>0, <1>3, <2>1, KillMakes
  <2>3. Overtaken'
    BY <2>1, <2>2 DEF Overtaken, Suspended
  <2>4. \A c \in Children : c # tracked => child'[c] = child[c]
    BY <1>0, <1>3, <2>1, KillMakes DEF Becomes
  <2> QED
    BY <2>1, <2>3, <2>4 DEF OnlyTrackedRuns, Alive
<1>4. ASSUME NEW k \in Callbacks, KillDone(k) PROVE (OnlyTrackedRuns /\ Overtaken)'
  <2>1. Suspended(k) /\ ~Alive(killing[k].target) /\ killing[k].source \in Sources
    BY <1>0, <1>4, KillDoneMakes DEF KillDone
  <2>2. PICK n \in Children, r \in ChildSet : n = spawns + 1 /\ tracked' = n /\ Becomes(n, r)
    BY <1>0, <1>4, <2>1, SpawnMakes DEF KillDone
  <2>3. /\ orphans \subseteq orphans'
        /\ \A i \in Callbacks : i # k /\ Suspended(i) => n \in orphans'
    BY <1>4, <2>2 DEF KillDone
  <2>4. \A i \in Callbacks : Suspended(i)' => i # k /\ Suspended(i)
    BY <1>0, <1>4, KillDoneMakes DEF Suspended
  <2>5. Overtaken'
    BY <2>2, <2>3, <2>4 DEF Overtaken
  <2>6. ASSUME NEW c \in Children, c # n, Alive(c)', ~child'[c].signalled
        PROVE  c \in orphans'
    <3>1. Alive(c) /\ ~child[c].signalled
      BY <2>2, <2>6 DEF Becomes, Alive
    <3>2. c \in orphans \/ c = tracked
      BY <3>1 DEF OnlyTrackedRuns
    <3>3. c = tracked => tracked \in orphans
      BY <2>1, <3>1 DEF Overtaken
    <3> QED
      BY <2>3, <3>2, <3>3
  <2> QED
    BY <2>2, <2>5, <2>6 DEF OnlyTrackedRuns
<1>5. ASSUME NEW c \in Children, Child(c) \/ ChildCrashes(c) PROVE (OnlyTrackedRuns /\ Overtaken)'
  <2>1. Alive(c) /\ \A d \in Children : d # c => child'[d] = child[d]
    BY <1>0, <1>5, Lives
  <2>2. UNCHANGED <<tracked, killing, orphans>>
    BY <1>5 DEF Child, ChildLoads, ChildBinds, ChildExits, ChildCrashes
  <2>3. Alive(c)' => child'[c].signalled = child[c].signalled
    BY <1>0, <1>5, LoadMakes, BindMakes, ExitMakes, CrashMakes, NoFileType DEF Child, Becomes, Alive
  <2>4. \A d \in Children : Alive(d)' /\ ~child'[d].signalled => Alive(d) /\ ~child[d].signalled
    BY <2>1, <2>3 DEF Alive
  <2> QED
    BY <2>2, <2>4 DEF OnlyTrackedRuns, Overtaken, Suspended
<1>6. CASE ContainerRestart
  BY <1>6, NoFileType DEF ContainerRestart, OnlyTrackedRuns, Overtaken, Alive, Suspended
<1> QED
  BY <1>1, <1>2, <1>3, <1>4, <1>5, <1>6 DEF Next, Steps, Boot, Event, Restart, vars, ReplaceConfig,
     BootPrepare, BootTimeout, DockerRestart, BootWatch, BootPoll, WatchEvent, WatchMiss, PollTick, TimerSkips

\* OnlyTrackedRuns (supervise.ts, the restart callback): whatever is replaced, polled,
\* killed or restarted, and however many callbacks wait at once, every sing-box that
\* has not been told to stop is the tracked one, or was started by a callback while
\* another was suspended.
THEOREM OnlyTrackedRunsHolds == Spec => []OnlyTrackedRuns
<1>1. Basics /\ OnlyTrackedRuns /\ Overtaken /\ [Next]_vars
        => (Basics /\ OnlyTrackedRuns /\ Overtaken)'
  BY BasicsStep, OrphansStep
<1> QED
  BY <1>1, BasicsInit, OrphansInit, PTL DEF Spec


-----------------------------------------------------------------------------
(* What may still start a child: a timer that is armed, a suspended        *)
(* callback, a version that a detector has not seen yet.                   *)

Waiters == {k \in Callbacks : Suspended(k)}

Armed     == IF timer THEN 1 ELSE 0
Unnoticed == IF phase \in {"watching", "running"} THEN config.ver - notified ELSE 0
Unpolled  == IF phase = "running" THEN config.ver - lastSeen ELSE 0

Budget ==
  /\ IsFiniteSet(Waiters)
  /\ phase \in Starting =>
       spawns <= restarts + (IF config.ver >= 1 THEN 2 * config.ver - 1 ELSE 0)
  /\ phase \in Started =>
       spawns + Armed + Cardinality(Waiters) + Unnoticed + Unpolled <= 2 * config.ver + restarts

LEMMA Counters ==
  ASSUME Basics
  PROVE  /\ config.ver \in Nat /\ notified \in 0..config.ver /\ lastSeen \in 0..config.ver
         /\ spawns \in Nat /\ restarts \in Nat
BY BoundsAssumption, Types, FileFields DEF Basics, Known, Versions

LEMMA Idle ==
  ASSUME \A k \in Callbacks : ~Suspended(k)
  PROVE  IsFiniteSet(Waiters) /\ Cardinality(Waiters) = 0
<1>1. Waiters = {}
  BY DEF Waiters
<1> QED
  BY <1>1, FS_EmptySet

LEMMA BudgetInit == Init => Budget
<1> SUFFICES ASSUME Init PROVE Budget
  OBVIOUS
<1>1. spawns = 0 /\ restarts = 0 /\ phase = "waiting" /\ \A k \in Callbacks : ~Suspended(k)
  BY DEF Init, Suspended
<1>2. config.ver \in Nat
  BY BasicsInit, Counters
<1> QED
  BY <1>1, <1>2, Idle DEF Budget, Starting, Started

LEMMA BudgetStep ==
  ASSUME Basics, Budget, [Next]_vars
  PROVE  Budget'
<1>0. TypeOK /\ Stage /\ Files
  BY DEF Basics
<1>a. /\ config.ver \in Nat /\ notified \in 0..config.ver /\ lastSeen \in 0..config.ver
      /\ spawns \in Nat /\ restarts \in Nat
  BY Counters
<1>b. IsFiniteSet(Waiters) /\ Cardinality(Waiters) \in Nat
  BY FS_CardinalityType DEF Budget
<1>c. ASSUME killing' = killing PROVE Waiters' = Waiters
  BY <1>c DEF Waiters, Suspended
<1>d. phase \in Starting \cup Started /\ Starting \cap Started = {}
  BY <1>0, Types DEF Starting, Started
<1>1. CASE UNCHANGED <<config, phase, notified, lastSeen, timer, killing, spawns, restarts>>
  BY <1>1, <1>c DEF Budget, Armed, Unnoticed, Unpolled
<1>2. CASE ReplaceConfig
  <2>1. config'.ver = config.ver + 1
    BY <1>0, <1>2, ReplaceMakes
  <2>2. UNCHANGED <<phase, notified, lastSeen, timer, killing, spawns, restarts>> /\ Waiters' = Waiters
    BY <1>2, <1>c DEF ReplaceConfig
  <2>3. CASE phase \in Starting
    BY <1>a, <1>b, <1>d, <2>1, <2>2, <2>3 DEF Budget
  <2>4. CASE phase \in Started
    BY <1>a, <1>b, <1>d, <2>1, <2>2, <2>4 DEF Budget, Armed, Unnoticed, Unpolled
  <2> QED
    BY <1>d, <2>3, <2>4
<1>3. CASE BootPrepare \/ BootTimeout \/ DockerRestart
  BY <1>3, <1>c DEF BootPrepare, BootTimeout, DockerRestart, Budget, Starting, Started
<1>4. CASE BootSpawn
  <2>1. config.ver >= 1 /\ phase \in Starting
    BY <1>0, <1>4 DEF BootSpawn, Files, Starting
  <2>2. ~timer /\ Cardinality(Waiters) = 0
    BY <1>0, <1>4, Idle DEF BootSpawn, Stage
  <2>3. /\ UNCHANGED <<config, timer, killing, restarts>> /\ Waiters' = Waiters
        /\ phase' = "spawned" /\ spawns' = spawns + 1
    BY <1>4, <1>c DEF BootSpawn, spawnSingbox
  <2> QED
    BY <1>a, <1>b, <2>1, <2>2, <2>3 DEF Budget, Armed, Unnoticed, Unpolled, Starting, Started
<1>5. CASE BootWatch \/ BootPoll
  <2>1. /\ UNCHANGED <<config, timer, killing, spawns, restarts>> /\ Waiters' = Waiters
        /\ \/ phase = "spawned" /\ phase' = "watching" /\ notified' = config.ver
           \/ phase = "watching" /\ phase' = "running" /\ notified' = notified /\ lastSeen' = config.ver
    BY <1>5, <1>c DEF BootWatch, BootPoll
  <2> QED
    BY <1>a, <1>b, <2>1 DEF Budget, Armed, Unnoticed, Unpolled, Starting, Started
<1>6. CASE WatchEvent \/ WatchMiss \/ PollTick \/ TimerSkips
  <2>1. /\ UNCHANGED <<config, phase, killing, spawns, restarts>> /\ Waiters' = Waiters
        /\ phase = "running"
    BY <1>6, <1>c DEF WatchEvent, WatchMiss, PollTick, TimerSkips
  <2>2. \/ notified # config.ver /\ notified' = config.ver /\ lastSeen' = lastSeen /\ Armed' \in {Armed, 1}
        \/ lastSeen # config.ver /\ lastSeen' = config.ver /\ notified' = notified /\ Armed' \in {Armed, 1}
        \/ notified' = notified /\ lastSeen' = lastSeen /\ Armed' <= Armed
    BY <1>6 DEF WatchEvent, WatchMiss, PollTick, TimerSkips, Armed
  <2>3. Armed \in 0..1 /\ Armed' \in 0..1
    BY DEF Armed
  <2> QED
    BY <1>a, <1>b, <2>1, <2>2, <2>3 DEF Budget, Unnoticed, Unpolled, Starting, Started
<1>7. ASSUME NEW k \in Callbacks, TimerKills(k) PROVE Budget'
  <2>1. tracked \in Children
    BY <1>0, <1>7 DEF TimerKills, Stage, Started
  <2>2. killing'[k].target # 0 /\ \A i \in Callbacks : i # k => killing'[i] = killing[i]
    BY <1>0, <1>7, <2>1, KillMakes DEF Children
  <2>3. killing'[k] # Waiting
    BY <2>2 DEF Waiting
  <2>4. Waiters' = Waiters \cup {k} /\ k \notin Waiters
    BY <1>7, <2>2, <2>3 DEF TimerKills, Waiters, Suspended
  <2>5. IsFiniteSet(Waiters') /\ Cardinality(Waiters') = Cardinality(Waiters) + 1
    BY <1>b, <2>4, FS_AddElement
  <2>6. UNCHANGED <<config, phase, notified, lastSeen, spawns, restarts>> /\ timer /\ ~timer' /\ phase = "running"
    BY <1>7 DEF TimerKills
  <2> QED
    BY <1>a, <1>b, <2>5, <2>6 DEF Budget, Armed, Unnoticed, Unpolled, Starting, Started
<1>8. ASSUME NEW k \in Callbacks, KillDone(k) PROVE Budget'
  <2>1. Waiters' = Waiters \ {k} /\ k \in Waiters
    BY <1>0, <1>8, KillDoneMakes DEF KillDone, Waiters, Suspended
  <2>2. IsFiniteSet(Waiters') /\ Cardinality(Waiters') = Cardinality(Waiters) - 1
    BY <1>b, <2>1, FS_RemoveElement
  <2>3. /\ UNCHANGED <<config, phase, notified, lastSeen, timer, restarts>>
        /\ spawns' = spawns + 1 /\ phase = "running"
    BY <1>8 DEF KillDone, spawnSingbox
  <2> QED
    BY <1>a, <1>b, <2>2, <2>3 DEF Budget, Armed, Unnoticed, Unpolled, Starting, Started
<1>9. CASE ContainerRestart
  <2>1. /\ UNCHANGED <<config, spawns>> /\ restarts' = restarts + 1 /\ phase' = "waiting"
        /\ \A k \in Callbacks : ~Suspended(k)'
    BY <1>9 DEF ContainerRestart, Suspended
  <2>2. IsFiniteSet(Waiters')
    BY <2>1, FS_EmptySet DEF Waiters
  <2>3. phase \in Started => config.ver >= 1
    BY <1>0 DEF Files
  <2>4. spawns <= restarts + 1 + (IF config.ver >= 1 THEN 2 * config.ver - 1 ELSE 0)
    <3>1. CASE phase \in Starting
      BY <1>a, <3>1 DEF Budget
    <3>2. CASE phase \in Started
      BY <1>a, <1>b, <2>3, <3>2 DEF Budget, Armed, Unnoticed, Unpolled
    <3> QED
      BY <1>d, <3>1, <3>2
  <2> QED
    BY <1>a, <2>1, <2>2, <2>4 DEF Budget, Starting, Started
<1> QED
  BY <1>1, <1>2, <1>3, <1>4, <1>5, <1>6, <1>7, <1>8, <1>9 DEF Next, Steps, Boot, Event, Restart, Child, vars,
     ChildLoads, ChildBinds, ChildExits, ChildCrashes

LEMMA BudgetSuffices == Basics /\ Budget => TwoSpawnsPerWrite
<1> SUFFICES ASSUME Basics, Budget PROVE TwoSpawnsPerWrite
  OBVIOUS
<1>1. config.ver \in Nat /\ notified \in 0..config.ver /\ lastSeen \in 0..config.ver
      /\ spawns \in Nat /\ restarts \in Nat
  BY Counters
<1>2. Cardinality(Waiters) \in Nat
  BY FS_CardinalityType DEF Budget
<1>3. phase \in Starting \/ phase \in Started
  BY Types DEF Basics, Starting, Started
<1> QED
  BY <1>1, <1>2, <1>3 DEF Budget, TwoSpawnsPerWrite, Armed, Unnoticed, Unpolled

\* TwoSpawnsPerWrite (supervise.ts, the two detectors): however replacements, kills,
\* crashes and restarts interleave, no more than two children are started for one
\* replacement of the file, and one for a restart of the container.
THEOREM TwoSpawnsPerWriteHolds == Spec => []TwoSpawnsPerWrite
<1>1. Basics /\ Budget /\ [Next]_vars => (Basics /\ Budget)'
  BY BasicsStep, BudgetStep
<1> QED
  BY <1>1, BudgetSuffices, BasicsInit, BudgetInit, PTL DEF Spec

-----------------------------------------------------------------------------
(* The tracked child is on the file, or on its way there.                  *)

Fit(c) ==
  \/ child[c].state = "crashed"
  \/ /\ ~child[c].signalled
     /\ \/ /\ child[c].state = "loading" /\ child[c].source = SourceOf(config)
           /\ copy = CopyAfter(config)
        \/ child[c].state \in {"loaded", "serving"} /\ child[c].conf = config

InPlace == Followed =>
  /\ phase = "checked" =>
       Valid(config) /\ prepared = SourceOf(config) /\ copy = CopyAfter(config)
  /\ phase \in {"spawned", "watching"} => Valid(config) /\ Fit(tracked)
  /\ phase = "running" /\ ~timer /\ lastSeen = config.ver /\ Valid(config) =>
       /\ (\A k \in Callbacks : ~Suspended(k)) => Fit(tracked)
       /\ \A k \in Callbacks : Suspended(k) =>
            killing[k].source = SourceOf(config) /\ copy = CopyAfter(config)

\* What a started child is and what the file is decide whether the child is fit.
LEMMA FitSpawned ==
  ASSUME NEW c, child[c].state = "loading", ~child[c].signalled,
         child[c].source = SourceOf(config), copy = CopyAfter(config)
  PROVE  Fit(c)
BY DEF Fit

LEMMA InPlaceInit == Init => InPlace
BY DEF Init, InPlace

LEMMA InPlaceSpawn ==
  ASSUME Basics, NEW source \in Sources, spawnSingbox(source), config' = config, copy' = copy,
         source = SourceOf(config), copy = CopyAfter(config)
  PROVE  Fit(tracked)'
<1>1. PICK n \in Children, r \in ChildSet :
           tracked' = n /\ Becomes(n, r) /\ r.state = "loading" /\ r.source = source /\ ~r.signalled
  BY SpawnMakes DEF Basics
<1>2. child'[tracked'] = r
  BY <1>1 DEF Becomes
<1>3. SourceOf(config)' = source /\ copy' = CopyAfter(config)'
  BY DEF SourceOf, CopyAfter
<1> QED
  BY <1>1, <1>2, <1>3 DEF Fit

LEMMA InPlaceStep ==
  ASSUME Basics, Tracked, InPlace, [Next]_vars
  PROVE  InPlace'
<1> SUFFICES ASSUME Followed' PROVE InPlace'
  BY DEF InPlace
<1>0. TypeOK /\ Stage /\ Files
  BY DEF Basics
<1>a. /\ config.ver \in Nat /\ notified \in 0..config.ver /\ lastSeen \in 0..config.ver
      /\ spawns \in Nat /\ restarts \in Nat
  BY Counters
<1>b. ASSUME config' = config, copy' = copy
      PROVE  /\ SourceOf(config)' = SourceOf(config) /\ Valid(config)' = Valid(config)
             /\ CopyAfter(config)' = CopyAfter(config)
  BY <1>b DEF SourceOf, Valid, CopyAfter
<1>c. ASSUME config' = config, copy' = copy, child' = child, tracked' = tracked
      PROVE  Fit(tracked)' = Fit(tracked)
  BY <1>c, <1>b DEF Fit
<1>2. CASE ReplaceConfig
  <2>1. config'.ver = config.ver + 1
    BY <1>0, <1>2, ReplaceMakes
  <2>2. phase' \notin {"checked", "spawned", "watching"} /\ lastSeen' # config'.ver
    BY <1>2, <1>a, <2>1 DEF ReplaceConfig, Followed
  <2> QED
    BY <2>2 DEF InPlace
<1>3. CASE BootPrepare
  <2>1. phase' = "checked" /\ config' = config /\ prepared' = SourceOf(config)
        /\ copy' = CopyAfter(config) /\ Valid(config)
    BY <1>3 DEF BootPrepare
  <2>2. SourceOf(config)' = SourceOf(config) /\ Valid(config)' /\ CopyAfter(config)' = copy'
    BY <2>1 DEF SourceOf, Valid, CopyAfter
  <2> QED
    BY <2>1, <2>2 DEF InPlace
<1>6. CASE BootTimeout \/ DockerRestart \/ ContainerRestart
  BY <1>6 DEF BootTimeout, DockerRestart, ContainerRestart, InPlace
<1> SUFFICES ASSUME Followed, ~Overlapped PROVE InPlace'
  <2>1. (config' = config /\ raced' = raced) \/ ReplaceConfig \/ BootPrepare
    BY DEF Next, Steps, Boot, Event, Restart, Child, vars, BootSpawn, BootWatch, BootPoll,
       BootTimeout, DockerRestart, WatchEvent, WatchMiss, PollTick, TimerSkips, TimerKills, KillDone,
       ChildLoads, ChildBinds, ChildExits, ChildCrashes, ContainerRestart
  <2>2. ~Overlapped \/ ContainerRestart
    BY Monotone DEF Followed
  <2> QED
    BY <1>2, <1>3, <1>6, <2>1, <2>2 DEF Followed
<1>1. CASE UNCHANGED vars
  BY <1>1, <1>b, <1>c DEF vars, InPlace, Suspended
<1>4. CASE BootSpawn
  <2>1. Valid(config) /\ prepared = SourceOf(config) /\ copy = CopyAfter(config)
    BY <1>4 DEF InPlace, BootSpawn
  <2>2. Fit(tracked)' /\ Valid(config)' /\ phase' = "spawned"
    BY <1>0, <1>4, <1>b, <2>1, InPlaceSpawn, Types DEF BootSpawn
  <2> QED
    BY <2>2 DEF InPlace
<1>5. CASE BootWatch \/ BootPoll
  <2>1. /\ UNCHANGED <<config, copy, child, tracked, killing>>
        /\ phase \in {"spawned", "watching"} /\ phase' \in {"watching", "running"}
    BY <1>5 DEF BootWatch, BootPoll
  <2>2. Valid(config)' /\ Fit(tracked)' /\ \A k \in Callbacks : ~Suspended(k)'
    BY <1>0, <1>b, <1>c, <2>1 DEF InPlace, Stage, Suspended
  <2> QED
    BY <2>1, <2>2 DEF InPlace
<1>7. CASE WatchEvent \/ PollTick
  <2>1. timer' /\ phase' = "running"
    BY <1>7 DEF WatchEvent, PollTick
  <2> QED
    BY <2>1 DEF InPlace
<1>8. CASE WatchMiss
  BY <1>8, <1>b, <1>c DEF WatchMiss, InPlace, Suspended
<1>9. CASE TimerSkips
  BY <1>9, <1>b DEF TimerSkips, InPlace
<1>10. ASSUME NEW k \in Callbacks, TimerKills(k) PROVE InPlace'
  <2>1. tracked \in Children /\ phase' = "running" /\ config' = config /\ copy' = CopyAfter(config)
    BY <1>0, <1>10 DEF TimerKills, Stage, Started
  <2>2. killing'[k].source = SourceOf(config)
    BY <1>0, <1>10, <2>1, KillMakes
  <2>3. Suspended(k)' /\ \A i \in Callbacks : i # k => ~Suspended(i)'
    BY <1>10, KillsAlone DEF Followed
  <2>4. SourceOf(config)' = SourceOf(config) /\ CopyAfter(config)' = copy'
    BY <2>1 DEF SourceOf, CopyAfter
  <2> QED
    BY <2>1, <2>2, <2>3, <2>4 DEF InPlace
<1>11. ASSUME NEW k \in Callbacks, KillDone(k) PROVE InPlace'
  <2>1. /\ UNCHANGED <<config, copy, phase, timer, lastSeen>> /\ phase = "running"
        /\ killing[k].source \in Sources /\ spawnSingbox(killing[k].source) /\ Suspended(k)
    BY <1>0, <1>11, KillDoneMakes DEF KillDone
  <2>2. \A i \in Callbacks : ~Suspended(i)'
    BY <1>0, <1>11, KillDoneMakes, NobodyLeft DEF Suspended
  <2>3. CASE ~timer /\ lastSeen = config.ver /\ Valid(config)
    <3>1. killing[k].source = SourceOf(config) /\ copy = CopyAfter(config)
      BY <2>1, <2>3 DEF InPlace
    <3>2. Fit(tracked)'
      BY <2>1, <3>1, InPlaceSpawn
    <3> QED
      BY <2>1, <2>2, <3>2 DEF InPlace
  <2>4. CASE ~(~timer /\ lastSeen = config.ver /\ Valid(config))
    BY <1>b, <2>1, <2>4 DEF InPlace
  <2> QED
    BY <2>3, <2>4
<1>12. ASSUME NEW c \in Children, Child(c) \/ ChildCrashes(c) PROVE InPlace'
  <2>1. Alive(c) /\ c = tracked
    BY <1>0, <1>12, Lives DEF Tracked
  <2>2. UNCHANGED <<config, copy, phase, prepared, timer, lastSeen, killing, tracked>>
    BY <1>12 DEF Child, ChildLoads, ChildBinds, ChildExits, ChildCrashes
  <2>3. ASSUME Fit(c), Valid(config) PROVE Fit(c)'
    <3>1. CASE ChildLoads(c)
      <4>1. child[c].state = "loading" /\ child[c].source = SourceOf(config) /\ copy = CopyAfter(config)
            /\ ~child[c].signalled
        BY <2>3, <3>1, <1>0, LoadMakes DEF Fit
      <4>2. (IF child[c].source = "copy" THEN copy ELSE config) = config
        BY <4>1 DEF SourceOf, CopyAfter
      <4>3. PICK r \in ChildSet : Becomes(c, r) /\ r.state = "loaded" /\ r.conf = config
                                  /\ r.signalled = child[c].signalled
        BY <1>0, <2>3, <3>1, <4>2, LoadMakes
      <4> QED
        BY <2>2, <4>1, <4>3 DEF Fit, Becomes
    <3>2. CASE ChildBinds(c)
      <4>1. child[c].state = "loaded" /\ child[c].conf = config /\ ~child[c].signalled
        BY <2>3, <3>2, <1>0, BindMakes DEF Fit
      <4>2. ~ \E d \in Children : Serving(d)
        BY <2>1, <4>1 DEF Tracked, Serving, Alive
      <4>3. PICK r \in ChildSet : Becomes(c, r) /\ r.state = "serving" /\ r.conf = config
                                  /\ r.signalled = child[c].signalled
        BY <1>0, <3>2, <4>1, <4>2, BindMakes
      <4> QED
        BY <2>2, <4>1, <4>3 DEF Fit, Becomes
    <3>3. CASE ChildExits(c)
      BY <2>3, <3>3, <1>0, ExitMakes DEF Fit, Alive
    <3>4. CASE ChildCrashes(c)
      <4>1. PICK r \in ChildSet : Becomes(c, r) /\ r.state = "crashed"
        BY <1>0, <3>4, CrashMakes
      <4> QED
        BY <4>1 DEF Fit, Becomes
    <3> QED
      BY <1>12, <3>1, <3>2, <3>3, <3>4 DEF Child
  <2>4. Valid(config) /\ Fit(tracked) => Fit(tracked)'
    BY <2>1, <2>2, <2>3
  <2>5. \A k \in Callbacks : Suspended(k)' = Suspended(k)
    BY <2>2 DEF Suspended
  <2> QED
    BY <1>b, <2>2, <2>4, <2>5 DEF InPlace
<1> QED
  BY <1>1, <1>2, <1>3, <1>4, <1>5, <1>6, <1>7, <1>8, <1>9, <1>10, <1>11, <1>12
     DEF Next, Steps, Boot, Event, Restart

LEMMA InPlaceServes == Basics /\ InPlace => SettledServesFile
<1> SUFFICES ASSUME Basics, InPlace, Settled, Valid(config), ~Crashed, Followed
             PROVE  OnCurrentFile
  BY DEF SettledServesFile
<1>1. tracked \in Children
  BY DEF Basics, Stage, Started, Settled
<1>2. Fit(tracked)
  BY DEF InPlace, Settled
<1>3. child[tracked].state \in {"loading", "loaded", "serving"}
  BY <1>1, <1>2 DEF Fit, Crashed
<1>4. Serving(tracked)
  BY <1>1, <1>3 DEF Settled, Alive
<1> QED
  BY <1>1, <1>2, <1>4 DEF Fit, Serving, OnCurrentFile

\* SettledServesFile (supervise.ts, the restart callback): once nothing is under way
\* the tracked child serves exactly the file that is there, if that one is valid; the
\* ways in which the code misses it are three: a crash, a callback overtaken by
\* another, and a file replaced in the synchronous steps of the boot.
THEOREM SettledServesFileHolds == Spec => []SettledServesFile
<1>1. Basics /\ Tracked /\ InPlace /\ [Next]_vars => (Basics /\ Tracked /\ InPlace)'
  BY BasicsStep, TrackedStep, InPlaceStep
<1> QED
  BY <1>1, InPlaceServes, BasicsInit, TrackedInit, InPlaceInit, PTL DEF Spec

-----------------------------------------------------------------------------
(* A runtime copy is read only while nothing newer has been served.        *)

FromCopy ==
  \/ phase = "checked" /\ prepared = "copy"
  \/ \E k \in Callbacks : Suspended(k) /\ killing[k].source = "copy"
  \/ \E c \in Children : child[c].state = "loading" /\ child[c].source = "copy"

Order == ~Overlapped =>
  /\ config.kind = "legacy" =>
       /\ phase = "checked" => prepared = "copy"
       /\ \A k \in Callbacks : Suspended(k) => killing[k].source = "copy"
       /\ \A c \in Children : child[c].state = "loading" => child[c].source = "copy"
  /\ FromCopy =>
       /\ copy.ver = 1 /\ served <= 1
       /\ \A c \in Children :
            /\ child[c].state = "loading" => child[c].source = "copy"
            /\ child[c].state \in {"loaded", "serving"} => child[c].conf.ver <= 1
  /\ \A c \in Children :
       /\ child[c].state = "loaded" => child[c].conf.ver >= 1 /\ served <= child[c].conf.ver
       /\ child[c].state = "serving" => served = child[c].conf.ver

\* What a step that starts a child makes of the processes, when none was alive.
LEMMA OnlyNew ==
  ASSUME Basics, NEW source \in Sources, spawnSingbox(source), \A c \in Children : ~Alive(c)
  PROVE  \E n \in Children :
           /\ child'[n].state = "loading" /\ child'[n].source = source
           /\ \A c \in Children : c # n => child'[c].state \in {"dead", "crashed"}
<1>1. PICK n \in Children, r \in ChildSet : Becomes(n, r) /\ r.state = "loading" /\ r.source = source
  BY SpawnMakes DEF Basics
<1>2. \A c \in Children : c # n => child'[c].state \in {"dead", "crashed"}
  BY <1>1 DEF Becomes, Alive
<1> QED
  BY <1>1, <1>2 DEF Becomes

LEMMA OrderInit == Init => Order
<1> SUFFICES ASSUME Init PROVE Order
  OBVIOUS
<1>1. \A c \in Children : child[c].state = "dead"
  BY NoFileType DEF Init
<1>2. \A k \in Callbacks : ~Suspended(k)
  BY DEF Init, Suspended
<1> QED
  BY <1>1, <1>2 DEF Init, Order, FromCopy

LEMMA OrderStep ==
  ASSUME Basics, Tracked, Order, [Next]_vars
  PROVE  Order'
<1> SUFFICES ASSUME ~Overlapped' PROVE Order'
  BY DEF Order
<1>8. CASE ContainerRestart
  <2>1. /\ \A c \in Children : child'[c].state = "dead"
        /\ \A k \in Callbacks : ~Suspended(k)'
        /\ phase' = "waiting"
    BY <1>8, NoFileType DEF ContainerRestart, Suspended
  <2> QED
    BY <2>1 DEF Order, FromCopy
<1> SUFFICES ASSUME ~Overlapped PROVE Order'
  BY <1>8, Monotone
<1>0. TypeOK /\ Stage /\ Files /\ Known
  BY DEF Basics
<1>a. /\ config.ver \in Nat /\ copy.ver \in Nat /\ served \in Nat
      /\ served <= config.ver /\ copy.ver <= config.ver
      /\ \A c \in Children : child[c].conf.ver \in Nat /\ child[c].conf.ver <= config.ver
  BY <1>0, Types, FileFields DEF Known, ChildSet, Versions
<1>1. CASE /\ UNCHANGED <<config, copy, child, served>> /\ killing' = killing
           /\ phase' \notin {"checked"} \/ UNCHANGED <<phase, prepared>>
  BY <1>1 DEF Order, FromCopy, Suspended
<1>2. CASE ReplaceConfig
  <2>1. config'.kind # "legacy" /\ UNCHANGED <<copy, phase, prepared, killing, child, served>>
    BY <1>0, <1>2, ReplaceMakes DEF ReplaceConfig
  <2> QED
    BY <2>1 DEF Order, FromCopy, Suspended
<1>3. CASE BootPrepare
  <2>1. /\ \A c \in Children : child[c].state \in {"dead", "crashed"}
        /\ \A k \in Callbacks : ~Suspended(k)
    BY <1>0, <1>3 DEF BootPrepare, Stage, Starting, Alive
  <2>2. /\ UNCHANGED <<config, killing, child, served>> /\ prepared' = SourceOf(config)
        /\ copy' = CopyAfter(config)
    BY <1>3 DEF BootPrepare
  <2>3. CASE config.kind = "legacy"
    <3>1. copy'.ver = 1 /\ prepared' = "copy" /\ served <= 1
      BY <1>0, <1>a, <2>2, <2>3 DEF Files, SourceOf, CopyAfter
    <3> QED
      BY <2>1, <2>2, <3>1 DEF Order, Suspended
  <2>4. CASE config.kind # "legacy"
    <3>1. prepared' = "path" /\ copy' = copy
      BY <2>2, <2>4 DEF SourceOf, CopyAfter
    <3> QED
      BY <2>1, <2>2, <2>4, <3>1 DEF Order, FromCopy, Suspended
  <2> QED
    BY <2>3, <2>4
<1>4. CASE BootSpawn
  <2>1. /\ \A c \in Children : ~Alive(c)
        /\ \A k \in Callbacks : ~Suspended(k)
        /\ prepared \in Sources /\ spawnSingbox(prepared) /\ phase = "checked" /\ phase' = "spawned"
        /\ UNCHANGED <<config, copy, killing, served>>
    BY <1>0, <1>4, Types DEF BootSpawn, Stage, Starting
  <2>2. PICK n \in Children :
           /\ child'[n].state = "loading" /\ child'[n].source = prepared
           /\ \A c \in Children : c # n => child'[c].state \in {"dead", "crashed"}
    BY <2>1, OnlyNew
  <2>3. prepared = "copy" => FromCopy
    BY <2>1 DEF FromCopy
  <2> QED
    BY <2>1, <2>2, <2>3 DEF Order, FromCopy, Suspended
<1>5. ASSUME NEW k \in Callbacks, TimerKills(k) PROVE Order'
  <2>1. /\ tracked \in Children /\ phase = "running"
        /\ UNCHANGED <<config, phase, served>> /\ copy' = CopyAfter(config)
    BY <1>0, <1>5 DEF TimerKills, Stage, Started
  <2>2. /\ killing'[k].source = SourceOf(config)
        /\ \A i \in Callbacks : i # k => ~Suspended(i)'
    BY <1>0, <1>5, <2>1, KillMakes, KillsAlone
  <2>3. \A c \in Children : child'[c].state = child[c].state /\ child'[c].source = child[c].source
                            /\ child'[c].conf = child[c].conf
    BY <1>0, <1>5, <2>1, KillMakes DEF Becomes
  <2>4. CASE config.kind = "legacy"
    <3>1. copy'.ver = 1 /\ served <= 1 /\ SourceOf(config) = "copy"
      BY <1>0, <1>a, <2>1, <2>4 DEF Files, SourceOf, CopyAfter
    <3>2. \A c \in Children : child[c].conf.ver <= 1
      BY <1>0, <1>a, <2>4 DEF Files
    <3> QED
      BY <2>1, <2>2, <2>3, <2>4, <3>1, <3>2 DEF Order
  <2>5. CASE config.kind # "legacy"
    <3>1. copy' = copy /\ SourceOf(config) = "path"
      BY <2>1, <2>5 DEF SourceOf, CopyAfter
    <3>2. FromCopy' => FromCopy
      BY <2>1, <2>2, <2>3, <3>1 DEF FromCopy
    <3> QED
      BY <2>1, <2>2, <2>3, <2>5, <3>1, <3>2 DEF Order
  <2> QED
    BY <2>4, <2>5
<1>6. ASSUME NEW k \in Callbacks, KillDone(k) PROVE Order'
  <2>1. /\ \A c \in Children : ~Alive(c)
        /\ killing[k].source \in Sources /\ spawnSingbox(killing[k].source)
        /\ Suspended(k) /\ phase = "running" /\ UNCHANGED <<config, copy, phase, served>>
    BY <1>0, <1>6, NobodyLeft, KillDoneMakes DEF KillDone
  <2>2. \A i \in Callbacks : ~Suspended(i)'
    BY <1>0, <1>6, NobodyLeft, KillDoneMakes DEF Suspended
  <2>3. PICK n \in Children :
           /\ child'[n].state = "loading" /\ child'[n].source = killing[k].source
           /\ \A c \in Children : c # n => child'[c].state \in {"dead", "crashed"}
    BY <2>1, OnlyNew
  <2>4. killing[k].source = "copy" => FromCopy
    BY <2>1 DEF FromCopy
  <2> QED
    BY <2>1, <2>2, <2>3, <2>4 DEF Order, FromCopy
<1>7. ASSUME NEW c \in Children, Child(c) \/ ChildCrashes(c) PROVE Order'
  <2>1. /\ \A d \in Children : d # c => ~Alive(d) /\ child'[d] = child[d]
        /\ UNCHANGED <<config, copy, phase, prepared, killing>>
    <3>1. Alive(c) /\ \A d \in Children : d # c => child'[d] = child[d]
      BY <1>0, <1>7, Lives
    <3> QED
      BY <1>7, <3>1 DEF Tracked, Child, ChildLoads, ChildBinds, ChildExits, ChildCrashes
  <2>2. \A d \in Children : d # c => child'[d].state \in {"dead", "crashed"}
    BY <2>1 DEF Alive
  <2>3. ASSUME child'[c].state # "loading", served' = served \/ served' = child[c].conf.ver,
               child'[c].state = "serving" => served' = child'[c].conf.ver,
               child'[c].state = "loaded" =>
                 child'[c].conf.ver >= 1 /\ served' <= child'[c].conf.ver,
               FromCopy => served' <= 1,
               FromCopy /\ child'[c].state \in {"loaded", "serving"} => child'[c].conf.ver <= 1
        PROVE  Order'
    <3>1. FromCopy' => FromCopy
      BY <2>1, <2>2, <2>3 DEF FromCopy, Suspended
    <3> QED
      BY <2>1, <2>2, <2>3, <3>1 DEF Order, Suspended
  <2>4. CASE ChildLoads(c)
    <3> DEFINE f == IF child[c].source = "copy" THEN copy ELSE config
    <3>1. child[c].state = "loading" /\ served' = served
      BY <2>4 DEF ChildLoads
    <3>2. CASE Becomes(c, Dead)
      BY <2>3, <3>1, <3>2, NoFileType DEF Becomes, Order
    <3>3. CASE Valid(f) /\ \E r \in ChildSet : Becomes(c, r) /\ r.state = "loaded" /\ r.conf = f
      <4>1. child'[c].state = "loaded" /\ child'[c].conf = f
        BY <3>3 DEF Becomes
      <4>2. CASE child[c].source = "copy"
        <5>1. FromCopy /\ copy.ver = 1 /\ served <= 1
          BY <3>1, <4>2 DEF FromCopy, Order
        <5> QED
          BY <1>a, <2>3, <3>1, <4>1, <4>2, <5>1
      <4>3. CASE child[c].source # "copy"
        <5>1. ~FromCopy
          BY <3>1, <4>3 DEF Order
        <5>2. config.ver >= 1
          BY <1>0, <1>a, <3>3, <4>3 DEF Files, Valid
        <5> QED
          BY <1>a, <2>3, <3>1, <4>1, <4>3, <5>1, <5>2
      <4> QED
        BY <4>2, <4>3
    <3> QED
      BY <1>0, <2>4, <3>2, <3>3, LoadMakes
  <2>5. CASE ChildBinds(c)
    <3>1. child[c].state = "loaded"
      BY <2>5 DEF ChildBinds
    <3>2. CASE served' = served /\ Becomes(c, Dead)
      BY <2>3, <3>2, NoFileType DEF Becomes, Order
    <3>3. CASE /\ served' = child[c].conf.ver
               /\ \E r \in ChildSet : Becomes(c, r) /\ r.state = "serving" /\ r.conf = child[c].conf
      <4>1. child'[c].state = "serving" /\ child'[c].conf = child[c].conf
        BY <3>3 DEF Becomes
      <4> QED
        BY <2>3, <3>1, <3>3, <4>1 DEF Order
    <3> QED
      BY <1>0, <2>5, <3>2, <3>3, BindMakes
  <2>6. CASE ChildExits(c)
    <3>1. served' = served /\ child'[c].state = "dead"
      BY <1>0, <2>6, ExitMakes, NoFileType DEF ChildExits, Becomes
    <3> QED
      BY <2>3, <3>1 DEF Order
  <2>7. CASE ChildCrashes(c)
    <3>1. served' = served /\ child'[c].state = "crashed"
      BY <1>0, <2>7, CrashMakes DEF ChildCrashes, Becomes
    <3> QED
      BY <2>3, <3>1 DEF Order
  <2> QED
    BY <1>7, <2>4, <2>5, <2>6, <2>7 DEF Child
<1> QED
  BY <1>1, <1>2, <1>3, <1>4, <1>5, <1>6, <1>7, <1>8 DEF Next, Steps, Boot, Event, Restart, vars,
     BootTimeout, DockerRestart, BootWatch, BootPoll, WatchEvent, WatchMiss, PollTick, TimerSkips

-----------------------------------------------------------------------------
(* The supervisor and its children implement LiveConfig: a replacement is  *)
(* its Offer, a child that binds :443 its GoUp, the end of a serving child *)
(* its GoDown, and every other step leaves what clients see as it is.      *)

Up == \E c \in Children : Serving(c)

LEMMA OlderInit == Init => Live!Init
<1> SUFFICES ASSUME Init PROVE Live!Init
  OBVIOUS
<1>1. config.ver \in {0, 1}
  BY NoFileType DEF Init
<1>2. ~ \E c \in Children : Serving(c)
  BY NoFileType DEF Init, Serving
<1>3. served = 0
  BY DEF Init
<1>4. PICK up \in BOOLEAN : up = (\E c \in Children : Serving(c))
  OBVIOUS
<1> QED
  BY <1>1, <1>2, <1>3, <1>4 DEF Live!Init

LEMMA OlderStep ==
  ASSUME Basics, Tracked, Order, [Next]_vars
  PROVE  [Live!Next \/ Overlapped]_(Live!vars)
<1> SUFFICES ASSUME ~Overlapped PROVE [Live!Next]_(Live!vars)
  OBVIOUS
<1>0. TypeOK /\ Stage /\ Known
  BY DEF Basics
<1>a. /\ config.ver \in Nat /\ served \in Nat /\ served <= config.ver
      /\ \A c \in Children : child[c].conf.ver \in Nat /\ child[c].conf.ver <= config.ver
  BY <1>0, Types, FileFields DEF Known, ChildSet, Versions
<1>b. PICK up \in BOOLEAN : up = Up
  BY DEF Up
<1>c. PICK newup \in BOOLEAN : newup = Up'
  BY DEF Up
<1>1. CASE config'.ver = config.ver /\ served' = served /\ newup = up
  BY <1>1, <1>b, <1>c DEF Live!vars, Up
<1>2. CASE ReplaceConfig
  <2>1. config'.ver = config.ver + 1 /\ served' = served /\ Up' = Up
    BY <1>0, <1>2, ReplaceMakes DEF ReplaceConfig, Up, Serving
  <2> QED
    BY <2>1, <1>b, <1>c DEF Live!Next, Live!Offer, Up
<1>3. CASE config' = config /\ served' = served /\ up /\ ~newup
  <2>1. up = TRUE /\ newup = FALSE
    BY <1>3
  <2> QED
    BY <1>3, <1>b, <1>c, <2>1 DEF Live!Next, Live!GoDown, Up
<1>4. CASE /\ config' = config /\ ~up /\ newup
           /\ served' \in served..config.ver /\ served' > 0
  BY <1>4, <1>b, <1>c DEF Live!Next, Live!GoUp, Up
<1>5. ASSUME NEW source \in Sources, spawnSingbox(source), UNCHANGED <<config, served>>,
             \A c \in Children : ~Alive(c)
      PROVE  [Live!Next]_(Live!vars)
  <2>1. \A c \in Children : ~Serving(c)'
    BY <1>5, OnlyNew DEF Serving
  <2>2. \A c \in Children : ~Serving(c)
    BY <1>5 DEF Serving, Alive
  <2> QED
    BY <1>1, <1>5, <1>b, <1>c, <2>1, <2>2 DEF Up
<1>6. CASE BootSpawn
  <2>1. \A c \in Children : ~Alive(c)
    BY <1>0, <1>6 DEF BootSpawn, Stage, Starting
  <2> QED
    BY <1>0, <1>5, <1>6, <2>1, Types DEF BootSpawn
<1>7. ASSUME NEW k \in Callbacks, KillDone(k) PROVE [Live!Next]_(Live!vars)
  BY <1>0, <1>5, <1>7, NobodyLeft, KillDoneMakes DEF KillDone
<1>8. ASSUME NEW k \in Callbacks, TimerKills(k) PROVE [Live!Next]_(Live!vars)
  <2>1. tracked \in Children /\ UNCHANGED <<config, served>>
    BY <1>0, <1>8 DEF TimerKills, Stage, Started
  <2>2. \A c \in Children : child'[c].state = child[c].state
    BY <1>0, <1>8, <2>1, KillMakes DEF Becomes
  <2> QED
    BY <1>1, <1>b, <1>c, <2>1, <2>2 DEF Up, Serving
<1>9. ASSUME NEW c \in Children, Child(c) \/ ChildCrashes(c) PROVE [Live!Next]_(Live!vars)
  <2>1. /\ \A d \in Children : d # c => ~Serving(d) /\ ~Serving(d)'
        /\ config' = config
    <3>1. Alive(c) /\ \A d \in Children : d # c => child'[d] = child[d]
      BY <1>0, <1>9, Lives
    <3> QED
      BY <1>9, <3>1 DEF Tracked, Alive, Serving, Child, ChildLoads, ChildBinds, ChildExits, ChildCrashes
  <2>2. (up <=> Serving(c)) /\ (newup <=> Serving(c)')
    BY <1>b, <1>c, <2>1 DEF Up
  <2>3. CASE ChildLoads(c)
    <3>1. ~Serving(c) /\ served' = served
      BY <2>3 DEF ChildLoads, Serving
    <3>2. ~Serving(c)'
      BY <1>0, <2>3, LoadMakes, NoFileType DEF Becomes, Serving
    <3> QED
      BY <1>1, <2>1, <2>2, <3>1, <3>2
  <2>4. CASE ChildBinds(c)
    <3>1. child[c].state = "loaded" /\ ~ \E d \in Children : Serving(d)
      BY <2>1, <2>4 DEF ChildBinds, Serving
    <3>2. served' = child[c].conf.ver /\ Serving(c)'
      BY <1>0, <2>4, <3>1, BindMakes DEF Becomes, Serving
    <3>3. served' >= 1 /\ served <= served'
      BY <3>1, <3>2 DEF Order
    <3> QED
      BY <1>4, <1>a, <2>1, <2>2, <3>1, <3>2, <3>3
  <2>5. CASE ChildExits(c) \/ ChildCrashes(c)
    <3>1. served' = served
      BY <2>5 DEF ChildExits, ChildCrashes
    <3>2. ~Serving(c)'
      BY <1>0, <2>5, ExitMakes, CrashMakes, NoFileType DEF Becomes, Serving
    <3> QED
      BY <1>1, <1>3, <2>1, <2>2, <3>1, <3>2
  <2> QED
    BY <1>9, <2>3, <2>4, <2>5 DEF Child
<1>10. CASE ContainerRestart
  <2>1. UNCHANGED <<config, served>> /\ \A c \in Children : ~Serving(c)'
    BY <1>10, NoFileType DEF ContainerRestart, Serving
  <2> QED
    BY <1>1, <1>3, <1>c, <2>1 DEF Up
<1>11. CASE UNCHANGED <<config, child, served>>
  BY <1>1, <1>11, <1>b, <1>c DEF Up, Serving
<1> QED
  BY <1>2, <1>6, <1>7, <1>8, <1>9, <1>10, <1>11 DEF Next, Steps, Boot, Event, Restart, vars, BootPrepare,
     BootTimeout, DockerRestart, BootWatch, BootPoll, WatchEvent, WatchMiss, PollTick, TimerSkips

\* NeverServesOlder (supervise.ts): what clients see of the supervisor and its
\* children takes the steps of LiveConfig: down, or up on a version that is not
\* older than the one before, whatever runtime copy a boot or a restart has read;
\* only after a callback has overtaken another may it be otherwise, until the
\* container is restarted.
THEOREM NeverServesOlderHolds == Spec => NeverServesOlder
<1> DEFINE Inv == Basics /\ Tracked /\ Order
<1>1. Init => Inv
  BY BasicsInit, TrackedInit, OrderInit
<1>2. Inv /\ [Next]_vars => Inv'
  BY BasicsStep, TrackedStep, OrderStep
<1>3. Inv /\ [Next]_vars => [Live!Next \/ Overlapped]_(Live!vars)
  BY OlderStep
<1> HIDE DEF Inv
<1> QED
  BY <1>1, <1>2, <1>3, OlderInit, PTL DEF Spec, NeverServesOlder
==============================================================================

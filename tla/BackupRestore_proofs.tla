------------------------ MODULE BackupRestore_proofs ------------------------
(***************************************************************************)
(* What the archives of `ct backup` hold and what `ct restore` leaves, for *)
(* any set of commits and any number of certificates, wherever the two     *)
(* commands fail or are killed.                                            *)
(***************************************************************************)
EXTENDS BackupRestore, TLAPS

\* What was committed before the backup began is still in the database when the
\* snapshot is taken, and in the snapshot from then on.
SnapshotHasDue ==
  bk # NoBackup => bk.copy.due \subseteq IF bk.pc = "snapshot" THEN Content ELSE bk.copy.db

\* Once caddy_data is about to be read Caddy is down, or the copy says so.
TarUndisturbed ==
  /\ bk.pc \in {"tar", "tarring"} /\ caddy = "up" => bk.copy.disturbed
  /\ bk.pc = "tarring" /\ bk.copy.certs # certs => bk.copy.disturbed
  /\ bk.pc \in {"resume", "bundle"} /\ bk.copy.torn => bk.copy.disturbed

\* There is an archive to restore.
HasArchive == rs # NoRestore => archive # NoArchive

\* What restore has replaced so far is the archive's, but for commits made since, and
\* for the database if its file was copied beside a log or under the API.
Replaced ==
  /\ rs.pc \in {"images", "db", "caddy", "up", "done"} => env = "archived"
  /\ rs.pc \in {"caddy", "up", "done"} /\ ~ rs.mixed =>
       archive.db \subseteq Content /\ Content \subseteq archive.db \cup rs.born
  /\ rs.pc \in {"up", "done"} => certs >= archive.certs

BackupInv == SnapshotHasDue /\ BackupHasCommitted /\ TarUndisturbed /\ TornOnlyIfDisturbed

IInv == TypeOK /\ HasArchive /\ BackupInv /\ CaddyComesBack /\ Replaced

-----------------------------------------------------------------------------
(* The records of the two commands, and what the steps make of them.       *)

USE DEF db, host

LEMMA RunningBackup ==
  ASSUME TypeOK, bk.pc # "idle"
  PROVE  /\ bk \in Backup /\ bk # NoBackup /\ bk.pc \in BackupPcs
         /\ bk.wasRunning \in BOOLEAN /\ bk.tarred \in BOOLEAN /\ bk.copy \in Copy
         /\ lock = "backup" /\ rs = NoRestore
<1>1. bk \in Backup /\ bk # NoBackup
  BY DEF TypeOK, NoBackup
<1> QED
  BY <1>1 DEF TypeOK, Backup

LEMMA RunningRestore ==
  ASSUME TypeOK, rs.pc # "idle"
  PROVE  /\ rs \in Restore /\ rs # NoRestore /\ rs.pc \in RestorePcs
         /\ rs.missed \in BOOLEAN /\ rs.mixed \in BOOLEAN /\ rs.born \in SUBSET Commits
         /\ lock = "restore" /\ bk = NoBackup
<1>1. rs \in Restore /\ rs # NoRestore
  BY DEF TypeOK, NoRestore
<1> QED
  BY <1>1 DEF TypeOK, Restore

BackupOf(pc, wasRunning, tarred, copy) ==
  [pc |-> pc, wasRunning |-> wasRunning, tarred |-> tarred, copy |-> copy]

RestoreOf(pc, missed, mixed, born) ==
  [pc |-> pc, missed |-> missed, mixed |-> mixed, born |-> born]

LEMMA ArchiveFields ==
  ASSUME TypeOK, HasArchive, rs.pc # "idle"
  PROVE  archive.db \in SUBSET Commits /\ archive.certs \in 0 .. MaxCerts
BY RunningRestore DEF TypeOK, HasArchive, Copy

LEMMA BackupOfType ==
  ASSUME NEW pc \in BackupPcs, NEW w \in BOOLEAN, NEW t \in BOOLEAN, NEW k \in Copy
  PROVE  BackupOf(pc, w, t, k) \in Backup /\ BackupOf(pc, w, t, k) # NoBackup
BY DEF BackupOf, Backup, BackupPcs, NoBackup

LEMMA RestoreOfType ==
  ASSUME NEW pc \in RestorePcs, NEW m \in BOOLEAN, NEW x \in BOOLEAN, NEW b \in SUBSET Commits
  PROVE  RestoreOf(pc, m, x, b) \in Restore /\ RestoreOf(pc, m, x, b) # NoRestore
BY DEF RestoreOf, Restore, RestorePcs, NoRestore

\* The copy with one field replaced.
LEMMA CopyWith ==
  ASSUME NEW k \in Copy
  PROVE  /\ \A d \in SUBSET Commits : [k EXCEPT !.db = d] \in Copy
         /\ \A c \in 0 .. MaxCerts : [k EXCEPT !.certs = c] \in Copy
         /\ \A b \in BOOLEAN : [k EXCEPT !.torn = b] \in Copy /\ [k EXCEPT !.disturbed = b] \in Copy
BY DEF Copy

LEMMA SnapshotMakes ==
  ASSUME TypeOK, backupAdminSqlite
  PROVE  bk' = BackupOf("probe", bk.wasRunning, bk.tarred, [bk.copy EXCEPT !.db = Content])
BY RunningBackup DEF backupAdminSqlite, Backup, BackupOf

LEMMA ProbeMakes ==
  ASSUME TypeOK, serviceRunning
  PROVE  \E pc \in {"stop", "tar"}, w \in BOOLEAN, d \in BOOLEAN :
           /\ bk' = BackupOf(pc, w, bk.tarred, [bk.copy EXCEPT !.disturbed = d])
           /\ pc = "tar" /\ caddy = "up" => d
BY RunningBackup DEF serviceRunning, Backup, BackupOf

LEMMA StopMakes ==
  ASSUME TypeOK, StopCaddy
  PROVE  \E d \in BOOLEAN :
           /\ bk' = BackupOf("tar", bk.wasRunning, bk.tarred, [bk.copy EXCEPT !.disturbed = d])
           /\ caddy' = "up" => d
BY RunningBackup DEF StopCaddy, Backup, BackupOf

LEMMA TarBeginMakes ==
  ASSUME TypeOK, TarBegins
  PROVE  bk' = BackupOf("tarring", bk.wasRunning, bk.tarred, [bk.copy EXCEPT !.certs = certs])
BY RunningBackup DEF TarBegins, Backup, BackupOf

LEMMA TarEndMakes ==
  ASSUME TypeOK, TarEnds
  PROVE  \E works \in BOOLEAN, torn \in BOOLEAN :
           /\ bk' = BackupOf("resume", bk.wasRunning, works, [bk.copy EXCEPT !.torn = torn])
           /\ torn <=> bk.copy.certs # certs
BY RunningBackup DEF TarEnds, Backup, BackupOf

LEMMA ResumeMakes ==
  ASSUME TypeOK, ResumeCaddy
  PROVE  \/ bk' = BackupOf("bundle", bk.wasRunning, bk.tarred, bk.copy) /\ lock' = lock
         \/ bk' = NoBackup /\ lock' = "free"
BY RunningBackup DEF ResumeCaddy, BackupAt, Backup, BackupOf

\* The panel's restart while caddy_data is about to be read.
LEMMA RestartMakes ==
  ASSUME TypeOK, restartServices
  PROVE  \/ /\ bk.pc \in {"tar", "tarring"}
            /\ bk' = BackupOf(bk.pc, bk.wasRunning, bk.tarred, [bk.copy EXCEPT !.disturbed = TRUE])
         \/ bk.pc \notin {"tar", "tarring"} /\ bk' = bk
BY RunningBackup DEF restartServices, Backup, BackupOf

LEMMA RestoreMoves ==
  ASSUME TypeOK, NEW from \in RestorePcs, NEW to \in RestorePcs, RestoreAt(from, to)
  PROVE  rs.pc = from /\ rs' = RestoreOf(to, rs.missed, rs.mixed, rs.born)
BY RunningRestore DEF RestoreAt, Restore, RestorePcs, RestoreOf

LEMMA CopyMakes ==
  ASSUME TypeOK, HasArchive, CopyDatabase
  PROVE  \E x \in BOOLEAN :
           /\ rs' = RestoreOf("caddy", rs.missed, x, {})
           /\ file' = archive.db /\ frames' \in SUBSET Commits /\ lost' \in SUBSET Commits
           /\ ~ x => frames' = {} /\ lost' = {}
<1>1. /\ rs.pc = "db" /\ rs \in Restore /\ archive.db \in SUBSET Commits
      /\ file \in SUBSET Commits /\ frames \in SUBSET Commits /\ Content \in SUBSET Commits
  BY RunningRestore, ArchiveFields DEF CopyDatabase, TypeOK, Content
<1>2. PICK x \in BOOLEAN : x <=> (frames # {} \/ api = "up")
  OBVIOUS
<1>3. /\ file' = archive.db
      /\ rs' = [rs EXCEPT !.pc = "caddy", !.mixed = (frames # {} \/ api = "up"), !.born = {}]
  BY DEF CopyDatabase
<1>4. rs' = RestoreOf("caddy", rs.missed, x, {})
  BY <1>1, <1>2, <1>3 DEF Restore, RestoreOf
<1>5. CASE x
  <2>1. frames' = frames \cup Content /\ lost' \in SUBSET (archive.db \cup frames')
    BY <1>2, <1>5 DEF CopyDatabase
  <2> QED
    BY <1>1, <1>3, <1>4, <1>5, <2>1
<1>6. CASE ~ x
  <2>1. frames' = {} /\ lost' = {}
    BY <1>2, <1>6 DEF CopyDatabase
  <2> QED
    BY <1>3, <1>4, <1>6, <2>1
<1> QED
  BY <1>5, <1>6

LEMMA RefusalMakes ==
  ASSUME TypeOK, RefuseRunning
  PROVE  \/ EndRestore
         \/ lock' = lock /\ \E m \in BOOLEAN : rs' = RestoreOf("volumes", m, rs.mixed, rs.born)
BY RunningRestore DEF RefuseRunning, Restore, RestoreOf

LEMMA BornMakes ==
  ASSUME TypeOK, NEW c \in Commits, Born(c)
  PROVE  \/ /\ rs.pc \in {"caddy", "up", "done"}
            /\ rs' = RestoreOf(rs.pc, rs.missed, rs.mixed, rs.born \cup {c})
         \/ rs.pc \notin {"caddy", "up", "done"} /\ rs' = rs
BY RunningRestore DEF Born, Restore, RestoreOf

-----------------------------------------------------------------------------
(* Type correctness.                                                       *)

LEMMA TypeInit == Init => TypeOK
<1> SUFFICES ASSUME Init PROVE TypeOK
  OBVIOUS
<1>1. /\ file \in SUBSET Commits /\ frames \in SUBSET Commits /\ lost \in SUBSET Commits
      /\ certs \in 0 .. MaxCerts
  BY BoundAssumption DEF Init
<1>2. api \in Container /\ caddy \in Container /\ volume \in BOOLEAN /\ env \in {"own", "archived"}
  BY DEF Init, Container
<1>3. archive \in Copy \cup {NoArchive} /\ bk \in Backup \cup {NoBackup} /\ rs \in Restore \cup {NoRestore}
  BY DEF Init
<1>4. lock \in {"free", "backup", "restore"} /\ stranded \in BOOLEAN
  BY DEF Init
<1>5. (bk # NoBackup <=> lock = "backup") /\ (rs # NoRestore <=> lock = "restore")
  BY DEF Init
<1> QED
  BY <1>1, <1>2, <1>3, <1>4, <1>5 DEF TypeOK

LEMMA TypeStack == TypeOK /\ Stack => TypeOK'
<1> SUFFICES ASSUME TypeOK, Stack PROVE TypeOK'
  OBVIOUS
<1>1. ASSUME NEW c \in Commits, Born(c)
      PROVE  rs' \in Restore \cup {NoRestore} /\ (rs' # NoRestore <=> rs # NoRestore)
  <2>1. CASE rs.pc \in {"caddy", "up", "done"}
    <3>1. rs.born \cup {c} \in SUBSET Commits
      BY <2>1, RunningRestore
    <3>2. rs' = RestoreOf(rs.pc, rs.missed, rs.mixed, rs.born \cup {c})
      BY <1>1, <2>1, BornMakes
    <3>3. rs' \in Restore /\ rs' # NoRestore
      BY <2>1, <3>1, <3>2, RunningRestore, RestoreOfType
    <3> QED
      BY <2>1, <3>3, RunningRestore
  <2>2. CASE rs.pc \notin {"caddy", "up", "done"}
    BY <1>1, <2>2, BornMakes DEF TypeOK
  <2> QED
    BY <2>1, <2>2
<1>2. CASE \E c \in Commits : ApiCommit(c) \/ AdminCommand(c)
  BY <1>1, <1>2 DEF ApiCommit, AdminCommand, Logged, Closed, Content, TypeOK
<1>3. CASE Checkpoint
  BY <1>3 DEF Checkpoint, Content, TypeOK
<1>4. CASE ApiExit \/ ApiRestarted
  BY <1>4 DEF ApiExit, ApiRestarted, Container, TypeOK
<1>5. CASE CaddyRenews
  BY <1>5, BoundAssumption DEF CaddyRenews, TypeOK
<1>6. CASE restartServices
  <2>1. bk' \in Backup \cup {NoBackup} /\ (bk' # NoBackup <=> bk # NoBackup)
    <3>1. CASE bk.pc \notin {"tar", "tarring"} /\ bk' = bk
      BY <3>1 DEF TypeOK
    <3>2. CASE /\ bk.pc \in {"tar", "tarring"}
               /\ bk' = BackupOf(bk.pc, bk.wasRunning, bk.tarred, [bk.copy EXCEPT !.disturbed = TRUE])
      <4>1. /\ bk # NoBackup /\ bk.pc \in BackupPcs /\ bk.wasRunning \in BOOLEAN
            /\ bk.tarred \in BOOLEAN /\ bk.copy \in Copy
        BY <3>2, RunningBackup
      <4>2. [bk.copy EXCEPT !.disturbed = TRUE] \in Copy
        BY <4>1, CopyWith
      <4> QED BY <3>2, <4>1, <4>2, BackupOfType
    <3> QED BY <1>6, <3>1, <3>2, RestartMakes
  <2> QED
    BY <1>6, <2>1 DEF restartServices, Container, TypeOK
<1>7. CASE ComposeDown
  <2>1. certs' \in 0 .. MaxCerts /\ api' \in Container /\ caddy' \in Container
    BY <1>7, BoundAssumption DEF ComposeDown, Container
  <2> QED
    BY <1>7, <2>1 DEF ComposeDown, TypeOK
<1>8. CASE StartStack
  BY <1>8 DEF StartStack, Closed, Container, Content, TypeOK
<1> QED
  BY <1>2, <1>3, <1>4, <1>5, <1>6, <1>7, <1>8 DEF Stack

LEMMA TypeBackup == TypeOK /\ runBackup => TypeOK'
<1> SUFFICES ASSUME TypeOK, runBackup PROVE TypeOK'
  OBVIOUS
<1> USE RunningBackup, BackupOfType, CopyWith
<1>1. CASE acquireBackup
  <2>1. [db |-> {}, due |-> Content, certs |-> 0, torn |-> FALSE, disturbed |-> FALSE] \in Copy
    BY BoundAssumption DEF TypeOK, Copy, Content
  <2>2. bk' \in Backup /\ bk' # NoBackup
    BY <1>1, <2>1 DEF acquireBackup, BackupOf, BackupPcs
  <2> QED
    BY <1>1, <2>2 DEF acquireBackup, TypeOK
<1>2. CASE backupAdminSqlite
  <2>1. bk' \in Backup /\ bk' # NoBackup
    <3>1. bk.pc = "snapshot" /\ Content \in SUBSET Commits
      BY <1>2 DEF backupAdminSqlite, TypeOK, Content
    <3>2. [bk.copy EXCEPT !.db = Content] \in Copy
      BY <3>1, RunningBackup, CopyWith
    <3> QED
      BY <1>2, <3>1, <3>2, SnapshotMakes, RunningBackup, BackupOfType DEF BackupPcs
  <2> QED
    BY <1>2, <2>1 DEF backupAdminSqlite, Closed, TypeOK, Content
<1>3. CASE serviceRunning
  <2>1. bk' \in Backup /\ bk' # NoBackup
    <3>1. bk.pc = "probe"
      BY <1>3 DEF serviceRunning
    <3>2. PICK pc \in {"stop", "tar"}, w \in BOOLEAN, d \in BOOLEAN :
            bk' = BackupOf(pc, w, bk.tarred, [bk.copy EXCEPT !.disturbed = d])
      BY <1>3, ProbeMakes
    <3>3. [bk.copy EXCEPT !.disturbed = d] \in Copy
      BY <3>1, RunningBackup, CopyWith
    <3> QED
      BY <3>1, <3>2, <3>3, RunningBackup, BackupOfType DEF BackupPcs
  <2> QED
    BY <1>3, <2>1 DEF serviceRunning, TypeOK
<1>4. CASE StopCaddy
  <2>1. bk' \in Backup /\ bk' # NoBackup
    <3>1. bk.pc = "stop"
      BY <1>4 DEF StopCaddy
    <3>2. PICK d \in BOOLEAN :
            bk' = BackupOf("tar", bk.wasRunning, bk.tarred, [bk.copy EXCEPT !.disturbed = d])
      BY <1>4, StopMakes
    <3>3. [bk.copy EXCEPT !.disturbed = d] \in Copy
      BY <3>1, RunningBackup, CopyWith
    <3> QED
      BY <3>1, <3>2, <3>3, RunningBackup, BackupOfType DEF BackupPcs
  <2> QED
    BY <1>4, <2>1 DEF StopCaddy, TypeOK, Container
<1>5. CASE TarBegins
  <2>1. bk' \in Backup /\ bk' # NoBackup
    BY <1>5, TarBeginMakes DEF TarBegins, TypeOK, BackupPcs
  <2> QED
    BY <1>5, <2>1 DEF TarBegins, TypeOK
<1>6. CASE TarEnds
  <2>1. bk' \in Backup /\ bk' # NoBackup
    <3>1. bk.pc = "tarring"
      BY <1>6 DEF TarEnds
    <3>2. PICK works \in BOOLEAN, torn \in BOOLEAN :
            bk' = BackupOf("resume", bk.wasRunning, works, [bk.copy EXCEPT !.torn = torn])
      BY <1>6, TarEndMakes
    <3>3. [bk.copy EXCEPT !.torn = torn] \in Copy
      BY <3>1, RunningBackup, CopyWith
    <3> QED
      BY <3>1, <3>2, <3>3, RunningBackup, BackupOfType DEF BackupPcs
  <2> QED
    BY <1>6, <2>1 DEF TarEnds, TypeOK
<1>7. CASE ResumeCaddy
  <2>1. bk.pc = "resume" /\ lock = "backup"
    BY <1>7 DEF ResumeCaddy
  <2>2. bk' \in Backup \cup {NoBackup} /\ (bk' # NoBackup <=> lock' = "backup") /\ lock' # "restore"
        /\ lock' \in {"free", "backup"}
    BY <1>7, <2>1, ResumeMakes DEF BackupPcs
  <2>3. caddy' \in Container /\ stranded' \in BOOLEAN
    BY <1>7 DEF ResumeCaddy, TypeOK, Container
  <2> QED
    BY <1>7, <2>1, <2>2, <2>3 DEF ResumeCaddy, TypeOK
<1>8. CASE Bundle
  BY <1>8 DEF Bundle, TypeOK
<1>9. CASE BackupDies
  BY <1>9 DEF BackupDies, TypeOK
<1> QED
  BY <1>1, <1>2, <1>3, <1>4, <1>5, <1>6, <1>7, <1>8, <1>9 DEF runBackup

LEMMA TypeRestore == TypeOK /\ HasArchive /\ runRestore => TypeOK'
<1> SUFFICES ASSUME TypeOK, HasArchive, runRestore PROVE TypeOK'
  OBVIOUS
<1> USE RunningRestore, RestoreOfType
<1>1. CASE acquireRestore
  <2>1. rs' \in Restore /\ rs' # NoRestore
    BY <1>1 DEF acquireRestore, RestoreOf, RestorePcs
  <2> QED
    BY <1>1, <2>1 DEF acquireRestore, TypeOK
<1>2. ASSUME EndRestore, rs # NoRestore, UNCHANGED <<bk, archive, stranded, file, frames, lost>>,
             api' \in Container, caddy' \in Container, volume' \in BOOLEAN, certs' \in 0 .. MaxCerts,
             env' \in {"own", "archived"}
      PROVE  TypeOK'
  BY <1>2 DEF EndRestore, TypeOK
<1>3. CASE RefuseRunning
  <2>1. EndRestore \/ (lock' = lock /\ rs' \in Restore /\ rs' # NoRestore)
    <3>1. rs.pc = "check"
      BY <1>3 DEF RefuseRunning
    <3>2. ASSUME NEW m \in BOOLEAN, rs' = RestoreOf("volumes", m, rs.mixed, rs.born)
          PROVE  rs' \in Restore /\ rs' # NoRestore
      BY <3>1, <3>2, RunningRestore, RestoreOfType DEF RestorePcs
    <3> QED
      BY <1>3, <3>2, RefusalMakes
  <2> QED
    BY <1>2, <1>3, <2>1 DEF RefuseRunning, TypeOK
<1>4. CASE RefuseStaleVolumes
  <2>1. rs # NoRestore
    BY <1>4 DEF RefuseStaleVolumes, RestoreAt
  <2>2. EndRestore \/ (lock' = lock /\ rs' \in Restore /\ rs' # NoRestore)
    BY <1>4, RestoreMoves DEF RefuseStaleVolumes, RestorePcs
  <2> QED
    BY <1>2, <1>4, <2>1, <2>2 DEF RefuseStaleVolumes, TypeOK
<1>5. CASE RestoreFiles
  <2>1. rs' \in Restore /\ rs' # NoRestore /\ lock = "restore"
    BY <1>5, RestoreMoves DEF RestoreFiles, RestorePcs
  <2> QED
    BY <1>5, <2>1 DEF RestoreFiles, TypeOK
<1>6. CASE LoadImages
  <2>1. rs' \in Restore /\ rs' # NoRestore /\ lock = "restore"
    BY <1>6, RestoreMoves DEF LoadImages, RestorePcs
  <2> QED
    BY <1>6, <2>1 DEF LoadImages, TypeOK
<1>7. CASE CopyDatabase
  <2>1. /\ rs' \in Restore /\ rs' # NoRestore /\ lock = "restore"
        /\ frames' \in SUBSET Commits /\ lost' \in SUBSET Commits
    <3>1. PICK x \in BOOLEAN :
            /\ rs' = RestoreOf("caddy", rs.missed, x, {})
            /\ frames' \in SUBSET Commits /\ lost' \in SUBSET Commits
      BY <1>7, CopyMakes
    <3>2. rs.pc = "db"
      BY <1>7 DEF CopyDatabase
    <3> QED
      BY <3>1, <3>2, RunningRestore, RestoreOfType DEF RestorePcs
  <2>2. file' \in SUBSET Commits
    BY <1>7, ArchiveFields DEF CopyDatabase
  <2> QED
    BY <1>7, <2>1, <2>2 DEF CopyDatabase, TypeOK
<1>8. CASE RestoreCaddy
  <2>1. rs.pc = "caddy"
    BY <1>8 DEF RestoreCaddy, RestoreAt
  <2>2. certs' \in 0 .. MaxCerts
    BY <1>8, <2>1, ArchiveFields DEF RestoreCaddy, TypeOK
  <2>3. EndRestore \/ (lock' = lock /\ rs' \in Restore /\ rs' # NoRestore)
    BY <1>8, RestoreMoves DEF RestoreCaddy, RestorePcs
  <2> QED
    BY <1>2, <1>8, <2>1, <2>2, <2>3 DEF RestoreCaddy, TypeOK
<1>9. CASE ComposeUp
  <2>1. rs.pc = "up"
    BY <1>9 DEF ComposeUp
  <2>2. api' \in Container /\ caddy' \in Container /\ stranded' \in BOOLEAN
    BY <1>9 DEF ComposeUp, TypeOK, Container
  <2>3. CASE EndRestore
    BY <1>9, <2>1, <2>2, <2>3 DEF ComposeUp, EndRestore, TypeOK
  <2>4. CASE lock' = lock /\ RestoreAt("up", "done")
    <3>1. rs' \in Restore /\ rs' # NoRestore
      BY <2>4, RestoreMoves DEF RestorePcs
    <3> QED
      BY <1>9, <2>1, <2>2, <2>4, <3>1 DEF ComposeUp, TypeOK
  <2> QED
    BY <1>9, <2>3, <2>4 DEF ComposeUp
<1>10. CASE RestoreReturns \/ RestoreDies
  <2>1. rs # NoRestore
    BY <1>10 DEF RestoreReturns, RestoreDies, NoRestore
  <2> QED
    BY <1>2, <1>10, <2>1 DEF RestoreReturns, RestoreDies, TypeOK
<1> QED
  BY <1>1, <1>3, <1>4, <1>5, <1>6, <1>7, <1>8, <1>9, <1>10 DEF runRestore

\* The archive changes when a backup ends, and then there is one.
LEMMA ArchiveStep == TypeOK /\ HasArchive /\ [Next]_vars => HasArchive'
<1> SUFFICES ASSUME TypeOK, HasArchive, [Next]_vars PROVE HasArchive'
  OBVIOUS
<1>1. CASE Stack
  <2>1. rs = NoRestore => rs' = NoRestore
    BY <1>1 DEF Stack, ApiCommit, AdminCommand, Checkpoint, ApiExit, ApiRestarted, CaddyRenews,
         restartServices, ComposeDown, StartStack, Born, NoRestore
  <2>2. archive' = archive
    BY <1>1 DEF Stack, ApiCommit, AdminCommand, Checkpoint, ApiExit, ApiRestarted, CaddyRenews,
         restartServices, ComposeDown, StartStack
  <2> QED
    BY <2>1, <2>2 DEF HasArchive
<1>2. CASE runBackup
  <2>1. rs' = rs
    BY <1>2 DEF runBackup, acquireBackup, backupAdminSqlite, serviceRunning, StopCaddy, TarBegins,
         TarEnds, ResumeCaddy, Bundle, BackupDies
  <2>2. archive' = archive \/ rs = NoRestore
    BY <1>2, RunningBackup DEF runBackup, acquireBackup, backupAdminSqlite, serviceRunning, StopCaddy,
         TarBegins, TarEnds, ResumeCaddy, Bundle, BackupDies
  <2> QED
    BY <2>1, <2>2 DEF HasArchive
<1>3. CASE runRestore
  <2>1. archive' = archive
    BY <1>3 DEF runRestore, acquireRestore, RefuseRunning, RefuseStaleVolumes, RestoreFiles, LoadImages,
         CopyDatabase, RestoreCaddy, ComposeUp, RestoreReturns, RestoreDies
  <2>2. rs # NoRestore \/ archive # NoArchive
    BY <1>3, RunningRestore DEF runRestore, acquireRestore, RefuseRunning, RefuseStaleVolumes, RestoreFiles,
         LoadImages, CopyDatabase, RestoreCaddy, ComposeUp, RestoreReturns, RestoreDies, RestoreAt
  <2> QED
    BY <2>1, <2>2 DEF HasArchive
<1>4. CASE UNCHANGED vars
  BY <1>4 DEF vars, HasArchive
<1> QED
  BY <1>1, <1>2, <1>3, <1>4 DEF Next

LEMMA TypeStep == TypeOK /\ HasArchive /\ [Next]_vars => TypeOK' /\ HasArchive'
<1>1. TypeOK /\ UNCHANGED vars => TypeOK'
  BY DEF vars, TypeOK
<1> QED
  BY <1>1, TypeStack, TypeBackup, TypeRestore, ArchiveStep DEF Next

\* The variables of the two commands and of the stack beside them keep their types.
THEOREM TypeCorrect == Spec => []TypeOK
<1>1. Init => TypeOK /\ HasArchive
  BY TypeInit DEF Init, HasArchive
<1> QED
  BY <1>1, TypeStep, PTL DEF Spec

-----------------------------------------------------------------------------
(* `ct backup`.                                                            *)

\* While no restore runs nothing is taken out of the database.
LEMMA ContentGrows ==
  ASSUME TypeOK, Stack \/ runBackup
  PROVE  Content \subseteq Content'
BY DEF Stack, ApiCommit, AdminCommand, Checkpoint, ApiExit, ApiRestarted, CaddyRenews, restartServices,
       ComposeDown, StartStack, runBackup, acquireBackup, backupAdminSqlite, serviceRunning, StopCaddy,
       TarBegins, TarEnds, ResumeCaddy, Bundle, BackupDies, Logged, Closed, Content

LEMMA BackupInit == Init => BackupInv /\ CaddyComesBack
BY DEF Init, BackupInv, SnapshotHasDue, BackupHasCommitted, TarUndisturbed, TornOnlyIfDisturbed,
       CaddyComesBack, NoBackup, NoArchive

\* Steps that leave the backup and its archive alone.
LEMMA BackupAlone ==
  ASSUME BackupInv, CaddyComesBack, Content \subseteq Content' \/ bk = NoBackup,
         bk' = bk, archive' = archive,
         caddy' = caddy \/ bk = NoBackup, certs' = certs \/ bk = NoBackup \/ caddy = "up",
         caddy' = "stopped" => caddy = "stopped" /\ stranded' = stranded
  PROVE  BackupInv' /\ CaddyComesBack'
<1>1. bk = NoBackup => bk.pc = "idle"
  BY DEF NoBackup
<1>2. SnapshotHasDue' /\ BackupHasCommitted' /\ TornOnlyIfDisturbed'
  BY DEF BackupInv, SnapshotHasDue, BackupHasCommitted, TornOnlyIfDisturbed
<1>3. TarUndisturbed'
  BY <1>1 DEF BackupInv, TarUndisturbed
<1>4. CaddyComesBack'
  BY DEF CaddyComesBack
<1> QED
  BY <1>2, <1>3, <1>4 DEF BackupInv

LEMMA BackupStack ==
  ASSUME TypeOK, BackupInv, CaddyComesBack, Stack
  PROVE  BackupInv' /\ CaddyComesBack'
<1>1. Content \subseteq Content'
  BY ContentGrows
<1>2. CASE \E c \in Commits : ApiCommit(c) \/ AdminCommand(c)
  BY <1>1, <1>2, BackupAlone DEF ApiCommit, AdminCommand
<1>3. CASE Checkpoint \/ ApiExit \/ ApiRestarted
  BY <1>1, <1>3, BackupAlone DEF Checkpoint, ApiExit, ApiRestarted
<1>4. CASE CaddyRenews
  BY <1>1, <1>4, BackupAlone DEF CaddyRenews
<1>5. CASE restartServices
  <2>1. archive' = archive /\ caddy' = "up" /\ certs' = certs
    BY <1>5 DEF restartServices
  <2>2. CASE bk.pc \in {"tar", "tarring"}
    <3>1. /\ bk'.pc = bk.pc /\ bk'.copy.due = bk.copy.due /\ bk'.copy.db = bk.copy.db
          /\ bk'.copy.disturbed = TRUE
      BY <1>5, <2>2, RestartMakes, RunningBackup DEF BackupOf, Copy
    <3>2. bk # NoBackup
      BY <2>2, RunningBackup
    <3> QED
      BY <1>1, <2>1, <2>2, <3>1, <3>2 DEF BackupInv, SnapshotHasDue, BackupHasCommitted, TarUndisturbed,
           TornOnlyIfDisturbed, CaddyComesBack
  <2>3. CASE bk.pc \notin {"tar", "tarring"}
    <3>1. bk' = bk
      BY <1>5, <2>3, RestartMakes
    <3> QED
      BY <1>1, <2>1, <2>3, <3>1 DEF BackupInv, SnapshotHasDue, BackupHasCommitted, TarUndisturbed,
           TornOnlyIfDisturbed, CaddyComesBack
  <2> QED
    BY <2>2, <2>3
<1>6. CASE ComposeDown \/ StartStack
  <2>1. bk = NoBackup
    BY <1>6 DEF ComposeDown, StartStack, TypeOK
  <2> QED
    BY <1>1, <1>6, <2>1, BackupAlone DEF ComposeDown, StartStack
<1> QED
  BY <1>2, <1>3, <1>4, <1>5, <1>6 DEF Stack

\* The backup ends without an archive.
LEMMA BackupGone ==
  ASSUME BackupInv, bk' = NoBackup, archive' = archive, caddy' = "stopped" => stranded'
  PROVE  BackupInv' /\ CaddyComesBack'
<1>1. bk'.pc = "idle"
  BY DEF NoBackup
<1> QED
  BY <1>1 DEF BackupInv, SnapshotHasDue, BackupHasCommitted, TarUndisturbed, TornOnlyIfDisturbed,
       CaddyComesBack

LEMMA BackupRuns ==
  ASSUME TypeOK, BackupInv, CaddyComesBack, runBackup
  PROVE  BackupInv' /\ CaddyComesBack'
<1> USE DEF BackupInv, SnapshotHasDue, BackupHasCommitted, TarUndisturbed, TornOnlyIfDisturbed,
        CaddyComesBack
<1>1. CASE acquireBackup
  <2>1. /\ bk'.pc = "snapshot" /\ bk'.copy.due = Content /\ Content' = Content
        /\ archive' = archive /\ caddy' = caddy /\ stranded' = stranded /\ bk.pc = "idle"
    BY <1>1 DEF acquireBackup, Content, TypeOK, NoBackup
  <2> QED
    BY <2>1
<1>2. CASE backupAdminSqlite
  <2>1. bk.pc = "snapshot" /\ bk # NoBackup
    BY <1>2, RunningBackup DEF backupAdminSqlite
  <2>2. bk'.pc = "probe" /\ bk'.copy.due = bk.copy.due /\ bk'.copy.db = Content
    BY <1>2, <2>1, SnapshotMakes, RunningBackup DEF BackupOf, Copy
  <2>3. archive' = archive /\ caddy' = caddy /\ stranded' = stranded
    BY <1>2 DEF backupAdminSqlite
  <2> QED
    BY <2>1, <2>2, <2>3
<1>3. CASE serviceRunning
  <2>1. bk.pc = "probe" /\ bk # NoBackup
    BY <1>3, RunningBackup DEF serviceRunning
  <2>2. /\ bk'.pc \in {"stop", "tar"} /\ bk'.copy.due = bk.copy.due /\ bk'.copy.db = bk.copy.db
        /\ bk'.pc = "tar" /\ caddy = "up" => bk'.copy.disturbed
    BY <1>3, <2>1, ProbeMakes, RunningBackup DEF BackupOf, Copy
  <2>3. archive' = archive /\ caddy' = caddy /\ stranded' = stranded
    BY <1>3 DEF serviceRunning
  <2> QED
    BY <2>1, <2>2, <2>3
<1>4. CASE StopCaddy
  <2>1. bk.pc = "stop" /\ bk # NoBackup
    BY <1>4, RunningBackup DEF StopCaddy
  <2>2. /\ bk'.pc = "tar" /\ bk'.copy.due = bk.copy.due /\ bk'.copy.db = bk.copy.db
        /\ caddy' = "up" => bk'.copy.disturbed
    BY <1>4, <2>1, StopMakes, RunningBackup DEF BackupOf, Copy
  <2>3. archive' = archive
    BY <1>4 DEF StopCaddy
  <2> QED
    BY <2>1, <2>2, <2>3
<1>5. CASE TarBegins
  <2>1. bk.pc = "tar" /\ bk # NoBackup
    BY <1>5, RunningBackup DEF TarBegins
  <2>2. /\ bk'.pc = "tarring" /\ bk'.copy.due = bk.copy.due /\ bk'.copy.db = bk.copy.db
        /\ bk'.copy.certs = certs /\ bk'.copy.disturbed = bk.copy.disturbed
    BY <1>5, <2>1, TarBeginMakes, RunningBackup DEF BackupOf, Copy
  <2>3. archive' = archive /\ caddy' = caddy /\ certs' = certs
    BY <1>5 DEF TarBegins
  <2> QED
    BY <2>1, <2>2, <2>3
<1>6. CASE TarEnds
  <2>1. bk.pc = "tarring" /\ bk # NoBackup
    BY <1>6, RunningBackup DEF TarEnds
  <2>2. /\ bk'.pc = "resume" /\ bk'.copy.due = bk.copy.due /\ bk'.copy.db = bk.copy.db
        /\ (bk'.copy.torn <=> bk.copy.certs # certs) /\ bk'.copy.disturbed = bk.copy.disturbed
    BY <1>6, <2>1, TarEndMakes, RunningBackup DEF BackupOf, Copy
  <2>3. archive' = archive
    BY <1>6 DEF TarEnds
  <2> QED
    BY <2>1, <2>2, <2>3
<1>7. CASE ResumeCaddy
  <2>1. bk.pc = "resume" /\ bk # NoBackup
    BY <1>7, RunningBackup DEF ResumeCaddy
  <2>2. archive' = archive /\ (caddy' = "stopped" => stranded')
    BY <1>7 DEF ResumeCaddy, TypeOK
  <2>3. CASE bk' = BackupOf("bundle", bk.wasRunning, bk.tarred, bk.copy)
    <3>1. bk'.pc = "bundle" /\ bk'.copy = bk.copy
      BY <2>3 DEF BackupOf
    <3> QED
      BY <2>1, <2>2, <3>1
  <2>4. CASE bk' = NoBackup
    BY <2>2, <2>4, BackupGone
  <2> QED
    BY <1>7, <2>3, <2>4, ResumeMakes
<1>8. CASE Bundle
  <2>1. bk.pc = "bundle" /\ bk # NoBackup
    BY <1>8, RunningBackup DEF Bundle
  <2>2. bk'.pc = "idle" /\ bk' = NoBackup /\ archive' = bk.copy /\ caddy' = caddy /\ stranded' = stranded
    BY <1>8 DEF Bundle, NoBackup
  <2> QED
    BY <2>1, <2>2
<1>9. CASE BackupDies
  BY <1>9, BackupGone DEF BackupDies
<1> QED
  BY <1>1, <1>2, <1>3, <1>4, <1>5, <1>6, <1>7, <1>8, <1>9 DEF runBackup

LEMMA BackupBesideRestore ==
  ASSUME TypeOK, BackupInv, CaddyComesBack, runRestore
  PROVE  BackupInv' /\ CaddyComesBack'
<1>1. bk = NoBackup
  BY RunningRestore DEF runRestore, acquireRestore, RefuseRunning, RefuseStaleVolumes, RestoreFiles,
     LoadImages, CopyDatabase, RestoreCaddy, ComposeUp, RestoreReturns, RestoreDies, RestoreAt, TypeOK
<1>2. bk' = bk /\ archive' = archive
  BY DEF runRestore, acquireRestore, RefuseRunning, RefuseStaleVolumes, RestoreFiles,
     LoadImages, CopyDatabase, RestoreCaddy, ComposeUp, RestoreReturns, RestoreDies
<1>3. caddy' = "stopped" => caddy = "stopped" /\ stranded' = stranded
  <2>1. CASE ComposeUp
    BY <2>1 DEF ComposeUp, TypeOK
  <2>2. CASE ~ComposeUp
    BY <2>2 DEF runRestore, acquireRestore, RefuseRunning, RefuseStaleVolumes, RestoreFiles,
       LoadImages, CopyDatabase, RestoreCaddy, RestoreReturns, RestoreDies
  <2> QED
    BY <2>1, <2>2
<1> QED
  BY <1>1, <1>2, <1>3, BackupAlone

LEMMA BackupStep ==
  ASSUME TypeOK, BackupInv, CaddyComesBack, [Next]_vars
  PROVE  BackupInv' /\ CaddyComesBack'
<1>1. CASE UNCHANGED vars
  BY <1>1, BackupAlone DEF vars, Content
<1> QED
  BY <1>1, BackupStack, BackupRuns, BackupBesideRestore DEF Next

-----------------------------------------------------------------------------
(* `ct restore`.                                                           *)

LEMMA RestoreInit == Init => Replaced
BY DEF Init, Replaced, NoRestore

\* A restore that has ended, or has replaced nothing yet, owes nothing.
LEMMA NothingReplaced ==
  ASSUME rs'.pc \in {"idle", "check", "volumes", "files"}
  PROVE  Replaced'
BY DEF Replaced

\* Commits beside the restore are remembered by it.
LEMMA BornStays ==
  ASSUME TypeOK, Replaced, NEW c \in Commits, Born(c), Content' = Content \cup {c},
         UNCHANGED <<archive, env, certs>>
  PROVE  Replaced'
<1>1. CASE rs.pc \in {"caddy", "up", "done"}
  <2>1. rs'.pc = rs.pc /\ rs'.mixed = rs.mixed /\ rs'.born = rs.born \cup {c}
    BY <1>1, BornMakes DEF RestoreOf
  <2> QED
    BY <1>1, <2>1 DEF Replaced
<1>2. CASE rs.pc \notin {"caddy", "up", "done"}
  BY <1>2, BornMakes DEF Replaced
<1> QED
  BY <1>1, <1>2

LEMMA RestoreStack ==
  ASSUME TypeOK, HasArchive, Replaced, Stack
  PROVE  Replaced'
<1>1. ASSUME NEW c \in Commits, ApiCommit(c) \/ AdminCommand(c)
      PROVE  Replaced'
  <2>1. Content' = Content \cup {c}
    BY <1>1 DEF ApiCommit, AdminCommand, Logged, Closed, Content
  <2> QED
    BY <1>1, <2>1, BornStays DEF ApiCommit, AdminCommand
<1>2. CASE Checkpoint \/ ApiExit \/ ApiRestarted \/ restartServices
  <2>1. Content' = Content
    BY <1>2 DEF Checkpoint, ApiExit, ApiRestarted, restartServices, Content
  <2> QED
    BY <1>2, <2>1 DEF Checkpoint, ApiExit, ApiRestarted, restartServices, Replaced
<1>3. CASE CaddyRenews
  <2>1. Content' = Content /\ rs' = rs /\ archive' = archive /\ env' = env /\ certs' = certs + 1
    BY <1>3 DEF CaddyRenews, Content
  <2>2. rs.pc \in {"up", "done"} => certs >= archive.certs
    BY DEF Replaced
  <2>3. ASSUME rs.pc \in {"up", "done"}
        PROVE  archive.certs \in Nat /\ certs \in Nat
    BY <2>3, ArchiveFields DEF TypeOK
  <2> QED
    BY <2>1, <2>2, <2>3 DEF Replaced
<1>4. CASE ComposeDown \/ StartStack
  <2>1. rs' = NoRestore
    BY <1>4 DEF ComposeDown, StartStack, TypeOK
  <2> QED
    BY <2>1, NothingReplaced DEF NoRestore
<1> QED
  BY <1>1, <1>2, <1>3, <1>4 DEF Stack

LEMMA RestoreBesideBackup ==
  ASSUME TypeOK, Replaced, runBackup
  PROVE  Replaced'
<1>1. rs' = rs
  BY DEF runBackup, acquireBackup, backupAdminSqlite, serviceRunning, StopCaddy, TarBegins,
     TarEnds, ResumeCaddy, Bundle, BackupDies
<1>2. rs = NoRestore
  BY RunningBackup DEF runBackup, acquireBackup, backupAdminSqlite, serviceRunning, StopCaddy, TarBegins,
     TarEnds, ResumeCaddy, BackupAt, Bundle, BackupDies, TypeOK
<1> QED
  BY <1>1, <1>2, NothingReplaced DEF NoRestore

LEMMA RestoreRuns ==
  ASSUME TypeOK, HasArchive, Replaced, runRestore
  PROVE  Replaced'
<1>0. ASSUME EndRestore PROVE Replaced'
  BY <1>0, NothingReplaced DEF EndRestore, NoRestore
<1>1. CASE acquireRestore
  BY <1>1, NothingReplaced DEF acquireRestore
<1>2. CASE RefuseRunning
  BY <1>0, <1>2, RefusalMakes, NothingReplaced DEF RestoreOf
<1>3. CASE RefuseStaleVolumes
  <2>1. CASE EndRestore
    BY <1>0, <2>1
  <2>2. CASE RestoreAt("volumes", "files")
    BY <2>2, RestoreMoves, NothingReplaced DEF RestoreOf, RestorePcs
  <2> QED
    BY <1>3, <2>1, <2>2 DEF RefuseStaleVolumes
<1>4. CASE RestoreFiles
  <2>1. rs'.pc = "images" /\ env' = "archived"
    BY <1>4, RestoreMoves DEF RestoreFiles, RestoreOf, RestorePcs
  <2> QED
    BY <2>1 DEF Replaced
<1>5. CASE LoadImages
  <2>1. rs.pc = "images" /\ rs'.pc = "db" /\ env' = env
    BY <1>5, RestoreMoves DEF LoadImages, RestoreOf, RestorePcs
  <2> QED
    BY <2>1 DEF Replaced
<1>6. CASE CopyDatabase
  <2>1. PICK x \in BOOLEAN :
          /\ rs' = RestoreOf("caddy", rs.missed, x, {}) /\ file' = archive.db
          /\ ~ x => frames' = {} /\ lost' = {}
    BY <1>6, CopyMakes
  <2>2. rs.pc = "db" /\ env' = env /\ archive' = archive
    BY <1>6 DEF CopyDatabase
  <2>3. rs'.pc = "caddy" /\ rs'.mixed = x /\ rs'.born = {}
    BY <2>1 DEF RestoreOf
  <2>4. ~ x => Content' = archive.db
    BY <2>1 DEF Content
  <2> QED
    BY <2>2, <2>3, <2>4 DEF Replaced
<1>7. CASE RestoreCaddy
  <2>1. CASE EndRestore
    BY <1>0, <2>1
  <2>2. CASE RestoreAt("caddy", "up") /\ certs' = archive.certs
    <3>1. rs.pc = "caddy" /\ rs'.pc = "up" /\ rs'.mixed = rs.mixed /\ rs'.born = rs.born
      BY <2>2, RestoreMoves DEF RestoreOf, RestorePcs
    <3>2. env' = env /\ archive' = archive /\ Content' = Content
      BY <1>7 DEF RestoreCaddy, Content
    <3>3. archive.certs \in Nat
      BY <3>1, ArchiveFields
    <3> QED
      BY <2>2, <3>1, <3>2, <3>3 DEF Replaced
  <2> QED
    BY <1>7, <2>1, <2>2 DEF RestoreCaddy
<1>8. CASE ComposeUp
  <2>1. CASE EndRestore
    BY <1>0, <2>1
  <2>2. CASE RestoreAt("up", "done")
    <3>1. rs.pc = "up" /\ rs'.pc = "done" /\ rs'.mixed = rs.mixed /\ rs'.born = rs.born
      BY <2>2, RestoreMoves DEF RestoreOf, RestorePcs
    <3>2. env' = env /\ archive' = archive /\ certs' = certs /\ Content' = Content
      BY <1>8 DEF ComposeUp, Content
    <3> QED
      BY <3>1, <3>2 DEF Replaced
  <2> QED
    BY <1>8, <2>1, <2>2 DEF ComposeUp
<1>9. CASE RestoreReturns \/ RestoreDies
  BY <1>0, <1>9 DEF RestoreReturns, RestoreDies
<1> QED
  BY <1>1, <1>2, <1>3, <1>4, <1>5, <1>6, <1>7, <1>8, <1>9 DEF runRestore

LEMMA RestoreStep ==
  ASSUME TypeOK, HasArchive, Replaced, [Next]_vars
  PROVE  Replaced'
<1>1. CASE UNCHANGED vars
  BY <1>1 DEF vars, Content, Replaced
<1> QED
  BY <1>1, RestoreStack, RestoreBesideBackup, RestoreRuns DEF Next

-----------------------------------------------------------------------------
(* The theorems.                                                           *)

LEMMA Invariance == Spec => []IInv
<1>1. Init => IInv
  BY TypeInit, BackupInit, RestoreInit DEF IInv, Init, HasArchive
<1>2. IInv /\ [Next]_vars => IInv'
  BY TypeStep, BackupStep, RestoreStep DEF IInv
<1> QED
  BY <1>1, <1>2, PTL DEF Spec

\* For any commits, wherever SQLite keeps them, however the API exits and whoever opens
\* the database meanwhile: an archive of `ct backup` misses none that was made before it.
THEOREM BackupHasCommittedHolds == Spec => []BackupHasCommitted
BY Invariance, PTL DEF IInv, BackupInv

\* For any number of renewals: certificates are torn only by a Caddy that could not be
\* stopped, was not seen, or was started from the panel.
THEOREM TornOnlyIfDisturbedHolds == Spec => []TornOnlyIfDisturbed
BY Invariance, PTL DEF IInv, BackupInv

\* Whichever command fails or is killed where: Caddy is not left stopped, but by a backup
\* that died or could not start it.
THEOREM CaddyComesBackHolds == Spec => []CaddyComesBack
BY Invariance, PTL DEF IInv

\* For any commits before, during and after it: a restore that reports success has restored
\* .env and certificates, and the whole database with what was committed since, unless it
\* copied the file beside a log or under an API that had it open.
THEOREM RestoredFromArchiveHolds == Spec => []RestoredFromArchive
<1>1. IInv => RestoredFromArchive
  BY DEF IInv, Replaced, RestoredFromArchive
<1> QED
  BY <1>1, Invariance, PTL
=============================================================================

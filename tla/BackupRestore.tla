--------------------------- MODULE BackupRestore ---------------------------
(***************************************************************************)
(* `ct backup` and `ct restore` beside the stack they copy.                *)
(*                                                                         *)
(* The admin database is a SQLite file in WAL mode under ./data/admin, a   *)
(* directory of the host: `docker compose down -v` takes the volumes away  *)
(* and leaves the directory.  A commit goes to the log (admin.sqlite-wal), *)
(* a checkpoint copies the log into the file, the next commit after it     *)
(* starts the log again, and only the last connection that closes removes  *)
(* the log.  The API never closes its connections, whoever stops it.       *)
(* Whoever opens the file next reads the file and the log together.  The   *)
(* log holds pages, not commits: beside a file it was not written for, its *)
(* pages take the place of others, and rows of either may be out of reach. *)
(*                                                                         *)
(* The archive is the last one written; .env, the manifests and the        *)
(* template travel together as `env`.  The two commands hold the lock of   *)
(* the operator commands; the panel, Docker and `ct admin` do not.         *)
(***************************************************************************)
EXTENDS Naturals

CONSTANTS
  Commits,   \* transactions on the admin database
  MaxCerts   \* bound: certificates issued

ASSUME BoundAssumption == MaxCerts \in Nat

VARIABLES
  file,      \* commits in admin.sqlite
  frames,    \* commits in admin.sqlite-wal
  lost,      \* commits in either that the pages of the other put out of reach
  api,       \* the container of the API
  caddy,     \* the container of Caddy
  volume,    \* whether the volumes of the project exist
  certs,     \* the newest certificate in caddy_data
  env,       \* whose .env and manifests are on disk
  archive,   \* the last archive
  lock,      \* the operation lock
  bk,        \* the running backup
  rs,        \* the running restore
  stranded   \* history: Caddy is down because a backup died or could not start it

db   == <<file, frames, lost>>
host == <<api, caddy, volume, certs, env>>
vars == <<file, frames, lost, api, caddy, volume, certs, env, archive, lock, bk, rs, stranded>>

NoArchive == [db |-> "none"]
\* due: commits before the backup began.  torn: the tar read caddy_data while it
\* changed.  disturbed: Caddy could not be stopped, or was started meanwhile.
Copy == [db : SUBSET Commits, due : SUBSET Commits, certs : 0 .. MaxCerts,
         torn : BOOLEAN, disturbed : BOOLEAN]

NoBackup  == [pc |-> "idle"]
BackupPcs == {"snapshot", "probe", "stop", "tar", "tarring", "resume", "bundle"}
Backup    == [pc : BackupPcs, wasRunning : BOOLEAN, tarred : BOOLEAN, copy : Copy]

NoRestore  == [pc |-> "idle"]
RestorePcs == {"check", "volumes", "files", "images", "db", "caddy", "up", "done"}
\* missed: `docker compose ps` did not answer.  mixed: the file was copied beside a log,
\* or under the API.  born: commits since the copy.
Restore    == [pc : RestorePcs, missed : BOOLEAN, mixed : BOOLEAN, born : SUBSET Commits]

Container == {"gone", "stopped", "up"}

TypeOK ==
  /\ file \in SUBSET Commits /\ frames \in SUBSET Commits /\ lost \in SUBSET Commits
  /\ api \in Container /\ caddy \in Container
  /\ volume \in BOOLEAN /\ certs \in 0 .. MaxCerts /\ env \in {"own", "archived"}
  /\ archive \in Copy \cup {NoArchive}
  /\ lock \in {"free", "backup", "restore"}
  /\ bk \in Backup \cup {NoBackup}
  /\ rs \in Restore \cup {NoRestore}
  /\ (bk # NoBackup) <=> (lock = "backup")
  /\ (rs # NoRestore) <=> (lock = "restore")
  /\ stranded \in BOOLEAN

Content        == (file \cup frames) \ lost
stackIsRunning == api # "gone" \/ caddy = "up"

\* `ct install` has brought up an empty stack.
Init ==
  /\ file = {} /\ frames = {} /\ lost = {}
  /\ api = "up" /\ caddy = "up" /\ volume = TRUE /\ certs = 0 /\ env = "own"
  /\ archive = NoArchive
  /\ lock = "free" /\ bk = NoBackup /\ rs = NoRestore
  /\ stranded = FALSE

-----------------------------------------------------------------------------
(* The stack.                                                              *)

Born(c) == rs' = IF rs.pc \in {"caddy", "up", "done"} THEN [rs EXCEPT !.born = @ \cup {c}] ELSE rs

\* A commit goes to the log.  A log that is wholly in the file is started again.
Logged(c) ==
  /\ frames' = {c} \cup (IF frames \ lost \subseteq file THEN {} ELSE frames \ lost)
  /\ file' = file \ lost /\ lost' = {}

\* The last connection that closes leaves one file.
Closed(new) == file' = Content \cup new /\ frames' = {} /\ lost' = {}

ApiCommit(c) ==
  /\ api = "up" /\ c \notin Content
  /\ Logged(c) /\ Born(c)
  /\ UNCHANGED <<host, archive, lock, bk, stranded>>

Checkpoint ==
  /\ api = "up" /\ ~ frames \ lost \subseteq file
  /\ file' = Content
  /\ UNCHANGED <<frames, lost, host, archive, lock, bk, rs, stranded>>

\* `ct admin` opens the database, commits and closes it.
AdminCommand(c) ==
  /\ c \notin Content
  /\ IF api = "up" THEN Logged(c) ELSE Closed({c})
  /\ Born(c)
  /\ UNCHANGED <<host, archive, lock, bk, stranded>>

\* The API exits, by itself or on a signal, and leaves the log where it is.
ApiExit ==
  /\ api = "up"
  /\ api' = "stopped"
  /\ UNCHANGED <<db, caddy, volume, certs, env, archive, lock, bk, rs, stranded>>

\* restart: unless-stopped
ApiRestarted ==
  /\ api = "stopped"
  /\ api' = "up"
  /\ UNCHANGED <<db, caddy, volume, certs, env, archive, lock, bk, rs, stranded>>

CaddyRenews ==
  /\ caddy = "up" /\ certs < MaxCerts
  /\ certs' = certs + 1
  /\ UNCHANGED <<db, api, caddy, volume, env, archive, lock, bk, rs, stranded>>

\* The restart of the panel goes to Docker and starts a stopped container too.
restartServices ==
  /\ api = "up" /\ caddy # "gone"
  /\ caddy' = "up"
  /\ stranded' = FALSE
  /\ bk' = IF bk.pc \in {"tar", "tarring"} THEN [bk EXCEPT !.copy.disturbed = TRUE] ELSE bk
  /\ UNCHANGED <<db, api, volume, certs, env, archive, lock, rs>>

\* `docker compose down -v`, as restore asks for it.
ComposeDown ==
  /\ lock = "free" /\ (api # "gone" \/ volume)
  /\ api' = "gone" /\ caddy' = "gone" /\ volume' = FALSE /\ certs' = 0
  /\ stranded' = FALSE
  /\ UNCHANGED <<db, env, archive, lock, bk, rs>>

\* `ct install` or `ct update`: the database is opened and closed, then compose up.
StartStack ==
  /\ lock = "free" /\ ~ (api = "up" /\ caddy = "up")
  /\ IF api = "up" THEN UNCHANGED db ELSE Closed({})
  /\ api' = "up" /\ caddy' = "up" /\ volume' = TRUE
  /\ stranded' = FALSE
  /\ UNCHANGED <<certs, env, archive, lock, bk, rs>>

Stack ==
  \/ \E c \in Commits : ApiCommit(c) \/ AdminCommand(c)
  \/ Checkpoint \/ ApiExit \/ ApiRestarted \/ CaddyRenews
  \/ restartServices \/ ComposeDown \/ StartStack

-----------------------------------------------------------------------------
(* ct backup.                                                              *)

BackupAt(from, to) == bk.pc = from /\ bk' = [bk EXCEPT !.pc = to]

acquireBackup ==
  /\ lock = "free"
  /\ lock' = "backup"
  /\ bk' = [pc |-> "snapshot", wasRunning |-> FALSE, tarred |-> FALSE,
            copy |-> [db |-> {}, due |-> Content, certs |-> 0, torn |-> FALSE, disturbed |-> FALSE]]
  /\ UNCHANGED <<db, host, archive, rs, stranded>>

backupAdminSqlite_file ==  \* MUTANT: copies the file alone
  /\ bk.pc = "snapshot"
  /\ bk' = [bk EXCEPT !.pc = "probe", !.copy.db = file]
  /\ UNCHANGED <<db, host, archive, lock, rs, stranded>>

\* VACUUM INTO reads file and log; without the API the close removes the log.
backupAdminSqlite ==
  /\ bk.pc = "snapshot"
  /\ bk' = [bk EXCEPT !.pc = "probe", !.copy.db = Content]
  /\ IF api = "up" THEN UNCHANGED db ELSE Closed({})
  /\ UNCHANGED <<host, archive, lock, rs, stranded>>

serviceRunning_hot ==  \* MUTANT: reads the volume under a running Caddy
  /\ bk.pc = "probe"
  /\ bk' = [bk EXCEPT !.pc = "tar", !.wasRunning = caddy = "up"]
  /\ UNCHANGED <<db, host, archive, lock, rs, stranded>>

\* A `docker compose ps` that fails counts as "not running".
serviceRunning ==
  /\ bk.pc = "probe"
  /\ \E answers \in BOOLEAN :
       bk' = [bk EXCEPT !.wasRunning = answers /\ caddy = "up",
                        !.pc = IF answers /\ caddy = "up" THEN "stop" ELSE "tar",
                        !.copy.disturbed = caddy = "up" /\ ~ answers]
  /\ UNCHANGED <<db, host, archive, lock, rs, stranded>>

\* The result of `docker compose stop caddy` is not looked at.
StopCaddy ==
  /\ bk.pc = "stop"
  /\ \E works \in BOOLEAN :
       /\ caddy' = IF works /\ caddy = "up" THEN "stopped" ELSE caddy
       /\ bk' = [bk EXCEPT !.pc = "tar", !.copy.disturbed = ~ works]
  /\ UNCHANGED <<db, api, volume, certs, env, archive, lock, rs, stranded>>

TarBegins ==
  /\ bk.pc = "tar"
  /\ bk' = [bk EXCEPT !.pc = "tarring", !.copy.certs = certs]
  /\ UNCHANGED <<db, host, archive, lock, rs, stranded>>

TarEnds ==
  /\ bk.pc = "tarring"
  /\ \E works \in BOOLEAN :
       bk' = [bk EXCEPT !.pc = "resume", !.tarred = works, !.copy.torn = bk.copy.certs # certs]
  /\ UNCHANGED <<db, host, archive, lock, rs, stranded>>

ResumeCaddy_inTry ==  \* MUTANT: a failed tar ends the backup before the start
  /\ bk.pc = "resume"
  /\ IF bk.tarred
     THEN /\ caddy' = IF bk.wasRunning /\ caddy = "stopped" THEN "up" ELSE caddy
          /\ BackupAt("resume", "bundle") /\ UNCHANGED lock
     ELSE bk' = NoBackup /\ lock' = "free" /\ UNCHANGED caddy
  /\ UNCHANGED <<db, api, volume, certs, env, archive, rs, stranded>>

\* The finally block; the result of the start is not looked at either.  A failed
\* tar ends the backup after it.
ResumeCaddy ==
  /\ bk.pc = "resume"
  /\ \E works \in BOOLEAN :
       /\ caddy' = IF bk.wasRunning /\ works /\ caddy = "stopped" THEN "up" ELSE caddy
       /\ stranded' = IF caddy' = "stopped" THEN TRUE ELSE stranded
  /\ IF bk.tarred
     THEN BackupAt("resume", "bundle") /\ UNCHANGED lock
     ELSE bk' = NoBackup /\ lock' = "free"
  /\ UNCHANGED <<db, api, volume, certs, env, archive, rs>>

Bundle ==
  /\ bk.pc = "bundle"
  /\ archive' = bk.copy
  /\ bk' = NoBackup /\ lock' = "free"
  /\ UNCHANGED <<db, host, rs, stranded>>

\* The process fails or is killed; the kernel releases the lock.
BackupDies ==
  /\ bk # NoBackup
  /\ stranded' = (stranded \/ caddy = "stopped")
  /\ bk' = NoBackup /\ lock' = "free"
  /\ UNCHANGED <<db, host, archive, rs>>

runBackup ==
  \/ acquireBackup \/ backupAdminSqlite \/ serviceRunning \/ StopCaddy
  \/ TarBegins \/ TarEnds \/ ResumeCaddy \/ Bundle \/ BackupDies

-----------------------------------------------------------------------------
(* ct restore.                                                             *)

RestoreAt(from, to) == rs.pc = from /\ rs' = [rs EXCEPT !.pc = to]
EndRestore          == rs' = NoRestore /\ lock' = "free"

acquireRestore_unlocked ==  \* MUTANT: does not wait for the lock
  /\ archive # NoArchive /\ rs = NoRestore
  /\ lock' = "restore"
  /\ rs' = [pc |-> "check", missed |-> FALSE, mixed |-> FALSE, born |-> {}]
  /\ UNCHANGED <<db, host, archive, bk, stranded>>

acquireRestore ==
  /\ lock = "free" /\ archive # NoArchive
  /\ lock' = "restore"
  /\ rs' = [pc |-> "check", missed |-> FALSE, mixed |-> FALSE, born |-> {}]
  /\ UNCHANGED <<db, host, archive, bk, stranded>>

\* A `docker compose ps` that fails counts as "not running".
RefuseRunning ==
  /\ rs.pc = "check"
  /\ \E answers \in BOOLEAN :
       IF answers /\ stackIsRunning
       THEN EndRestore
       ELSE /\ rs' = [rs EXCEPT !.pc = "volumes", !.missed = ~ answers]
            /\ UNCHANGED lock
  /\ UNCHANGED <<db, host, archive, bk, stranded>>

\* A `docker volume ls` that fails counts as "no volumes".
RefuseStaleVolumes ==
  /\ rs.pc = "volumes"
  /\ \E answers \in BOOLEAN :
       IF answers /\ volume
       THEN EndRestore
       ELSE RestoreAt("volumes", "files") /\ UNCHANGED lock
  /\ UNCHANGED <<db, host, archive, bk, stranded>>

RestoreFiles ==
  /\ RestoreAt("files", "images")
  /\ env' = "archived"
  /\ UNCHANGED <<db, api, caddy, volume, certs, archive, lock, bk, stranded>>

LoadImages ==
  /\ RestoreAt("images", "db")
  /\ UNCHANGED <<db, host, archive, lock, bk, stranded>>

\* Only admin.sqlite is copied: a log that lies beside it stays, and its pages, which
\* carry rows of the database before, replace those of the same number in a file that
\* VACUUM has laid out anew.
CopyDatabase ==
  /\ rs.pc = "db"
  /\ file' = archive.db
  /\ LET mixed == frames # {} \/ api = "up"
     IN  /\ frames' = IF mixed THEN frames \cup Content ELSE {}
         /\ lost' \in IF mixed THEN SUBSET (archive.db \cup frames') ELSE {{}}
         /\ rs' = [rs EXCEPT !.pc = "caddy", !.mixed = mixed, !.born = {}]
  /\ UNCHANGED <<host, archive, lock, bk, stranded>>

RestoreCaddy_swallowed ==  \* MUTANT: goes on after a failed copy
  /\ rs.pc = "caddy"
  /\ volume' = TRUE
  /\ certs' \in {certs, archive.certs}
  /\ RestoreAt("caddy", "up")
  /\ UNCHANGED <<db, api, caddy, env, archive, lock, bk, stranded>>

RestoreCaddy ==
  /\ rs.pc = "caddy"
  /\ volume' = TRUE
  /\ \/ /\ certs' = archive.certs
        /\ RestoreAt("caddy", "up")
        /\ UNCHANGED lock
     \/ UNCHANGED certs /\ EndRestore
  /\ UNCHANGED <<db, api, caddy, env, archive, bk, stranded>>

\* compose up starts what it comes to before it fails.
ComposeUp ==
  /\ rs.pc = "up"
  /\ \/ api' = "up" /\ caddy' = "up" /\ RestoreAt("up", "done") /\ UNCHANGED lock
     \/ api' \in {api, "up"} /\ UNCHANGED caddy /\ EndRestore
  /\ stranded' = (stranded /\ caddy' # "up")
  /\ UNCHANGED <<db, volume, certs, env, archive, bk>>

RestoreReturns ==
  /\ rs.pc = "done"
  /\ EndRestore
  /\ UNCHANGED <<db, host, archive, bk, stranded>>

\* die, or a kill: what has been replaced stays replaced.
RestoreDies ==
  /\ rs # NoRestore
  /\ EndRestore
  /\ UNCHANGED <<db, host, archive, bk, stranded>>

runRestore ==
  \/ acquireRestore \/ RefuseRunning \/ RefuseStaleVolumes \/ RestoreFiles \/ LoadImages
  \/ CopyDatabase \/ RestoreCaddy \/ ComposeUp \/ RestoreReturns \/ RestoreDies

-----------------------------------------------------------------------------
Next == Stack \/ runBackup \/ runRestore
Spec == Init /\ [][Next]_vars

-----------------------------------------------------------------------------
(* Properties.                                                             *)

\* An archive holds every commit made before its backup began, wherever SQLite kept
\* it: the snapshot of `ct backup` reads the log as well as the file.
BackupHasCommitted == archive # NoArchive => archive.due \subseteq archive.db

\* The certificates in an archive were read while they changed only if Caddy could not
\* be stopped, was not seen to be running, or was started from the panel meanwhile.
TornOnlyIfDisturbed == archive # NoArchive /\ archive.torn => archive.disturbed

\* Nobody finds Caddy stopped, unless a backup is in progress, has died, or could not
\* start it again.
CaddyComesBack ==
  caddy = "stopped" => stranded \/ bk.pc \in {"tar", "tarring", "resume"}

\* When restore reports success, .env and certificates are those of the archive or newer,
\* and the database is the archive's with what was committed since, unless a log lay beside
\* the copied file or an API had it open: then archived rows may be lost and older ones
\* come back (restore.ts:131).
RestoredFromArchive ==
  rs.pc = "done" =>
    /\ env = "archived"
    /\ certs >= archive.certs
    /\ ~ rs.mixed => archive.db \subseteq Content /\ Content \subseteq archive.db \cup rs.born

\* docs/operations.md:239-240: after a restore "You're back online with the same
\* accounts, same password hashes, same subscription tokens".
RestoredIsArchive ==
  rs.pc = "done" /\ ~ rs.missed =>
    archive.db \subseteq Content /\ Content \subseteq archive.db \cup rs.born
=============================================================================

--------------------------- MODULE RenderPipeline ---------------------------
(***************************************************************************)
(* How a change of a proxy account reaches singbox.json.                   *)
(*                                                                         *)
(* The admin API commits the change to SQLite, snapshots the accounts and  *)
(* spawns `singbox-core render-server` on the snapshot, all in one turn of *)
(* its event loop, and then awaits the child.  The child compares its      *)
(* output with the file and replaces the file by a rename.  Nothing        *)
(* serialises the children: several requests, `POST /api/render` and the   *)
(* `ct render` container may be in flight at once.                         *)
(*                                                                         *)
(* Deadlines are abstracted to the events of their passing.  Usernames,    *)
(* labels, ports and protocols of an account do not decide who may         *)
(* connect (a stored protocol list without vless_reality reads as the      *)
(* default one) and are left out.                                          *)
(***************************************************************************)
EXTENDS Naturals, FiniteSets

CONSTANTS
  Accounts,     \* account ids
  Uuids,        \* the values crypto.randomUUID may return, none of them twice
  Placeholder,  \* the all-zero UUID of the inert user __no_active_accounts__
  NoUuid,       \* a NULL column
  Settings,     \* values of the rendered settings (realityDestHost, short ids)
  Jobs,         \* slots for render-server processes in flight at once
  MaxRequests   \* bound: requests and CLI renders handled

ASSUME SentinelAssumption ==
  /\ Placeholder \notin Uuids
  /\ NoUuid \notin Uuids \cup {Placeholder}
ASSUME BoundAssumption == MaxRequests \in Nat

VARIABLES
  account,   \* proxy_account: one row, or NoRow, per id
  spent,     \* UUIDs already drawn
  settings,  \* server_config
  job,       \* the render processes in flight
  file,      \* content of singbox.json
  writes,    \* renames onto singbox.json so far: its mtime
  latest,    \* history: the render started last
  requests   \* requests handled (bounded by MaxRequests)

vars == <<account, spent, settings, job, file, writes, latest, requests>>

NoRow  == [row |-> FALSE]
Expiry == {"never", "ahead", "past"}
Row    == [row : {TRUE}, enabled : BOOLEAN, expiry : Expiry, uuid : Uuids,
           previous : Uuids \cup {NoUuid}, grace : BOOLEAN]

Config == [users : SUBSET (Uuids \cup {Placeholder}), settings : Settings]

Idle == [phase |-> "idle"]
Job  == [phase : {"comparing", "writing"}, by : {"api", "cli"}, input : Config]

Present(a)  == account[a] # NoRow
InFlight(j) == job[j] # Idle

-----------------------------------------------------------------------------
(* What a render puts into the config.                                     *)

\* The credentials a row may authenticate with at this moment.
Credentials(r) ==
  {r.uuid} \cup {u \in {r.previous} \ {NoUuid, r.uuid} : r.grace}

\* account.status === "active"
Active(r) == r # NoRow /\ r.enabled /\ r.expiry # "past"

ActiveCredentials(rows) ==
  UNION {Credentials(rows[a]) : a \in {b \in Accounts : Active(rows[b])}}

buildServerRenderAccounts(rows) ==
  IF ActiveCredentials(rows) = {} THEN {Placeholder} ELSE ActiveCredentials(rows)

Rendered(rows, s) == [users |-> buildServerRenderAccounts(rows), settings |-> s]

-----------------------------------------------------------------------------

Init ==
  /\ account = [a \in Accounts |-> NoRow]
  /\ spent = {}
  /\ settings \in Settings
  /\ job = [j \in Jobs |-> Idle]
  /\ file = Rendered(account, settings)
  /\ writes = 1
  /\ latest = [input |-> file, rivals |-> {}, outcome |-> "done", slot |-> {}]
  /\ requests = 0

Request == requests < MaxRequests /\ requests' = requests + 1

\* renderSingbox up to its first await: snapshot and spawn, in the same turn
\* as the mutation.  `rivals` remembers the inputs of the renders that are in
\* flight at this moment.
StartRender(by, rows, s) ==
  \E j \in Jobs :
    /\ ~InFlight(j)
    /\ job' = [job EXCEPT ![j] = [phase |-> "comparing", by |-> by, input |-> Rendered(rows, s)]]
    /\ latest' = [input |-> Rendered(rows, s),
                  rivals |-> {job[i].input : i \in {i \in Jobs : InFlight(i)}},
                  outcome |-> "running", slot |-> {j}]

\* The handlers under /api/proxy-accounts share this shape.
Mutate(rows) ==
  /\ Request
  /\ account' = rows
  /\ StartRender("api", rows, settings)
  /\ UNCHANGED <<settings, file, writes>>

createProxyAccount(a) ==
  \E u \in Uuids \ spent, e \in BOOLEAN, x \in Expiry :
    /\ ~Present(a)
    /\ spent' = spent \cup {u}
    /\ Mutate([account EXCEPT ![a] =
         [row |-> TRUE, enabled |-> e, expiry |-> x, uuid |-> u,
          previous |-> NoUuid, grace |-> FALSE]])

\* PATCH, and the enable and disable routes: setProxyEnabled is
\* updateProxyAccount with only `enabled` given.
updateProxyAccount(a) ==
  \E e \in BOOLEAN, x \in Expiry :
    /\ Present(a)
    /\ Mutate([account EXCEPT ![a].enabled = e, ![a].expiry = x])
    /\ UNCHANGED spent

\* MUTANT: the old and the new UUID end up in each other's column.
regenerateProxyUuid_swapped(a) ==
  \E u \in Uuids \ spent :
    /\ Present(a)
    /\ spent' = spent \cup {u}
    /\ Mutate([account EXCEPT ![a].uuid = account[a].previous, ![a].previous = u, ![a].grace = TRUE])

regenerateProxyUuid(a) ==
  \E u \in Uuids \ spent :
    /\ Present(a)
    /\ spent' = spent \cup {u}
    /\ Mutate([account EXCEPT ![a].uuid = u, ![a].previous = account[a].uuid, ![a].grace = TRUE])

\* MUTANT: the handler forgets to render.
deleteProxyAccount_quiet(a) ==
  /\ Present(a)
  /\ Request
  /\ account' = [account EXCEPT ![a] = NoRow]
  /\ UNCHANGED <<spent, settings, job, file, writes, latest>>

deleteProxyAccount(a) ==
  /\ Present(a)
  /\ Mutate([account EXCEPT ![a] = NoRow])
  /\ UNCHANGED spent

\* PATCH /api/settings commits the row and answers: it starts no render.
updateSettings ==
  \E s \in Settings \ {settings} :
    /\ Request
    /\ settings' = s
    /\ UNCHANGED <<account, spent, job, file, writes, latest>>

\* POST /api/render and POST /api/actions/render, and `ct render singbox`,
\* which runs the same code in a container of its own.
RenderOnDemand(by) ==
  /\ Request
  /\ StartRender(by, account, settings)
  /\ UNCHANGED <<account, spent, settings, file, writes>>

-----------------------------------------------------------------------------
(* The render process.                                                     *)

Finish(j, outcome) ==
  /\ job' = [job EXCEPT ![j] = Idle]
  /\ latest' = IF j \in latest.slot
               THEN [latest EXCEPT !.outcome = outcome, !.slot = {}] ELSE latest

\* previous === body: the file is left alone.
CompareEqual(j) ==
  /\ job[j].phase = "comparing"
  /\ file = job[j].input
  /\ Finish(j, "done")
  /\ UNCHANGED <<account, spent, settings, file, writes, requests>>

CompareDifferent(j) ==
  /\ job[j].phase = "comparing"
  /\ file # job[j].input
  /\ job' = [job EXCEPT ![j].phase = "writing"]
  /\ UNCHANGED <<account, spent, settings, file, writes, latest, requests>>

\* atomicWrite: the rename replaces the whole file.
atomicWrite(j) ==
  /\ job[j].phase = "writing"
  /\ file' = job[j].input
  /\ writes' = writes + 1
  /\ Finish(j, "done")
  /\ UNCHANGED <<account, spent, settings, requests>>

\* MUTANT: a nonzero exit is taken for success.
RenderFails_swallowed(j) ==
  /\ InFlight(j)
  /\ Finish(j, "done")
  /\ UNCHANGED <<account, spent, settings, file, writes, requests>>

\* render-server exits nonzero (disk full, bad input, killed): audited and
\* swallowed, the file keeps its content.
RenderFails(j) ==
  /\ InFlight(j)
  /\ Finish(j, "failed")
  /\ UNCHANGED <<account, spent, settings, file, writes, requests>>

\* The admin-api container stops or crashes: its render processes die with it.
\* A crash between the commit and the spawn has the same effect.
\* ensureDefaults at the next start keeps the rendered settings.
ApiRestart ==
  LET dead == {j \in Jobs : InFlight(j) /\ job[j].by = "api"} IN
  /\ dead # {}
  /\ job' = [j \in Jobs |-> IF j \in dead THEN Idle ELSE job[j]]
  /\ latest' = IF latest.slot \cap dead # {}
               THEN [latest EXCEPT !.outcome = "failed", !.slot = {}] ELSE latest
  /\ UNCHANGED <<account, spent, settings, file, writes, requests>>

(* Time passes.                                                            *)

AccountExpires(a) ==
  /\ Present(a)
  /\ account[a].expiry = "ahead"
  /\ account' = [account EXCEPT ![a].expiry = "past"]
  /\ UNCHANGED <<spent, settings, job, file, writes, latest, requests>>

GraceLapses(a) ==
  /\ Present(a)
  /\ account[a].grace
  /\ account' = [account EXCEPT ![a].grace = FALSE]
  /\ UNCHANGED <<spent, settings, job, file, writes, latest, requests>>

-----------------------------------------------------------------------------

Operator(a) ==
  \/ createProxyAccount(a)
  \/ updateProxyAccount(a)
  \/ regenerateProxyUuid(a)
  \/ deleteProxyAccount(a)

Clock(a) == AccountExpires(a) \/ GraceLapses(a)

Progress(j) == CompareEqual(j) \/ CompareDifferent(j) \/ atomicWrite(j)

Next ==
  \/ \E a \in Accounts : Operator(a)
  \/ updateSettings
  \/ \E by \in {"api", "cli"} : RenderOnDemand(by)
  \/ \E j \in Jobs : Progress(j) \/ RenderFails(j)
  \/ ApiRestart
  \/ \E a \in Accounts : Clock(a)

\* A spawned render process runs to its end; requests and deadlines need not come.
Fairness == \A j \in Jobs : WF_vars(Progress(j))

Spec == Init /\ [][Next]_vars /\ Fairness

-----------------------------------------------------------------------------

TypeOK ==
  /\ account \in [Accounts -> Row \cup {NoRow}]
  /\ spent \subseteq Uuids
  /\ settings \in Settings
  /\ job \in [Jobs -> Job \cup {Idle}]
  /\ file \in Config
  /\ writes \in Nat
  /\ latest \in [input : Config, rivals : SUBSET Config,
                 outcome : {"running", "done", "failed"}, slot : SUBSET Jobs]
  /\ requests \in 0..MaxRequests

-----------------------------------------------------------------------------
(* Properties.                                                             *)

Quiescent == \A j \in Jobs : ~InFlight(j)

\* No other render with another input was in flight when the last one started.
Solo == latest.rivals \subseteq {latest.input}

\* Everything a row that is enabled has granted, whatever the deadlines say.
GrantedCredentials(rows) ==
  UNION {{rows[a].uuid, rows[a].previous} : a \in {b \in Accounts : rows[b] # NoRow /\ rows[b].enabled}}

\* A config admits everyone the database admits now and nobody whose account
\* is disabled or deleted.  A credential whose deadline has passed may remain:
\* "after it lapses the old UUID drops out on the next render".
AdmitsAsDb(config) ==
  /\ ActiveCredentials(account) \subseteq config.users
  /\ config.users \subseteq GrantedCredentials(account) \cup {Placeholder}

\* Once the render started last has finished, the file holds its input or
\* that of a render which was in flight when it started: a stale config can
\* come from nowhere else, however the processes interleave, fail or die.
StaleOnlyFromOverlap ==
  latest.outcome = "done" => file \in {latest.input} \cup latest.rivals

\* Every account mutation is covered by the render started last: between two
\* renders the database changes only by deadlines that pass.
LatestRenderCoversDb == AdmitsAsDb(latest.input)

\* A render that overlapped no different one and finished has brought the
\* file into line with the database, and no account mutation has changed that.
SoloRenderMatchesDb ==
  latest.outcome = "done" /\ Solo => AdmitsAsDb(file)

\* app.ts:874-875, "so the live data-plane always reflects the DB": when every
\* render has finished and the last one succeeded, the file admits whom the
\* database admits.  Violated: two overlapping renders may write in either order.
FinishedRendersMatchDb ==
  Quiescent /\ latest.outcome = "done" => AdmitsAsDb(file)
=============================================================================

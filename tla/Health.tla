------------------------------- MODULE Health -------------------------------
(***************************************************************************)
(* Who says whether the stack is up.  Docker runs the containers, restarts *)
(* those that exit, and calls the health checks of those that have one.    *)
(* `ct update` asks Docker twice, before it begins and until its new       *)
(* containers are ready; `ct doctor` asks Docker and the services, one     *)
(* check after the other; the dashboard asks for each of its containers.   *)
(* Each asks in its own words and with its own rules for the answer.       *)
(***************************************************************************)
EXTENDS Naturals, FiniteSets

CONSTANTS
  Services,    \* the containers of the stack
  Checked,     \* those with a health check
  Shown,       \* those the dashboard shows
  AdminApi,
  Caddy,
  MaxProbes    \* CT_UPDATE_SETTLE_ATTEMPTS

ASSUME HealthAssumption ==
  /\ Checked \subseteq Services /\ Shown \subseteq Services
  /\ AdminApi \in Services /\ Caddy \in Services
  /\ MaxProbes \in Nat \ {0}

VARIABLES
  state,     \* of each container, as Docker tells it
  health,    \* the verdict of its health check, None without one
  serves,    \* does the process in it answer?
  update,    \* how far `ct update` has come
  answered,  \* history: of the checked, who has answered since their creation
  doctor,    \* how far `ct doctor` has come, and what it has shown
  outage     \* history: who has not been ready at any time since the doctor began

healthVars == <<state, health, serves, update, answered, doctor, outage>>

None == ""

HealthTypeOK ==
  /\ state \in [Services -> {"missing", "exited", "restarting", "running"}]
  /\ health \in [Services -> {None, "starting", "healthy", "unhealthy"}]
  /\ serves \in [Services -> BOOLEAN]
  /\ update \in [pc : {"idle", "recreate", "wait", "reconciled", "died"}, probes : 0..MaxProbes]
  /\ answered \subseteq Checked
  /\ doctor \in [next : 0..17, failed : BOOLEAN, warned : BOOLEAN]
  /\ outage \subseteq Services

-----------------------------------------------------------------------------
(* The answers, and what is made of them.                                  *)

Existing == {s \in Services : state[s] # "missing"}
Up == {s \in Services : state[s] \in {"running", "restarting"}}

\* `docker compose ps` leaves out stopped containers, or in some versions not.
PsRows == {rows \in SUBSET Existing : Up \subseteq rows}

\* MUTANT: a container whose health check has not failed yet is ready.
serviceReady_starting(s, rows) ==
  s \in rows /\ state[s] = "running" /\ health[s] # "unhealthy"

serviceReady(s, rows) ==
  s \in rows /\ state[s] = "running" /\ health[s] \in {None, "healthy"}

describeUnreadyServices(rows) == {s \in Services : ~serviceReady(s, rows)}

\* The doctor's own words for the same.
checkContainerHealth(rows) ==
  LET missing == Services \ rows
      unhealthy == {s \in rows : ~(state[s] = "running" /\ health[s] \in {None, "healthy"})}
  IN  CASE rows = {} -> "fail"
        [] missing = {} /\ unhealthy = {} -> "pass"
        [] missing \cup unhealthy = Services -> "fail"
        [] OTHER -> "warn"

\* `ps --status running --status restarting`: is there anything to update?
classifyStackUp(running) == running # {}

mapContainerState(s) ==
  CASE state[s] = "running" /\ health[s] \in {"unhealthy", "starting"} -> "degraded"
    [] state[s] = "running" /\ health[s] \in {None, "healthy"} -> "running"
    [] state[s] = "restarting" -> "degraded"
    [] OTHER -> "stopped"

\* Free gigabytes under the repository and under Docker's root.
Disk == [repo : 0..9, docker : 0..9]

DefaultThresholds == [repo |-> 2, docker |-> 4]

classifyDiskSpace(m, min) == ~(m.repo < min.repo \/ m.docker < min.docker)

checkDisk(m, min) ==
  CASE m.repo < min.repo \/ m.docker < min.docker -> "fail"
    [] m.repo >= min.repo /\ m.docker >= min.docker
         /\ (m.repo < 2 * min.repo \/ m.docker < 2 * min.docker) -> "warn"
    [] OTHER -> "pass"

-----------------------------------------------------------------------------
(* Docker and the processes.                                               *)

Ready == {s \in Services : serviceReady(s, Existing)}

HealthInit ==
  /\ state = [s \in Services |-> "missing"]
  /\ health = [s \in Services |-> None]
  /\ serves = [s \in Services |-> FALSE]
  /\ update = [pc |-> "idle", probes |-> 0]
  /\ answered = {}
  /\ doctor = [next |-> 0, failed |-> FALSE, warned |-> FALSE]
  /\ outage = {}

\* The histories after a step of Docker.
Witness ==
  /\ answered' = answered \cup {s \in Checked : serves'[s]}
  /\ outage' = outage \ Ready'

Becomes(s, newState, newHealth, answers) ==
  /\ state' = [state EXCEPT ![s] = newState]
  /\ health' = [health EXCEPT ![s] = newHealth]
  /\ serves' = [serves EXCEPT ![s] = answers]
  /\ Witness
  /\ UNCHANGED <<update, doctor>>

Starting(s) == IF s \in Checked THEN "starting" ELSE None

ProcessAnswers(s) == state[s] = "running" /\ Becomes(s, "running", health[s], TRUE)
ProcessHangs(s) == serves[s] /\ Becomes(s, "running", health[s], FALSE)
ProcessExits(s) == state[s] = "running" /\ Becomes(s, "restarting", None, FALSE)
DockerRestarts(s) == state[s] = "restarting" /\ Becomes(s, "running", Starting(s), FALSE)

\* Some failures in a row are needed before Docker says unhealthy.
HealthCheck(s) ==
  /\ state[s] = "running" /\ s \in Checked
  /\ Becomes(s, "running", IF serves[s] THEN "healthy" ELSE "unhealthy", serves[s])

OperatorStops(s) == s \in Up /\ Becomes(s, "exited", None, FALSE)
OperatorRemoves(s) == s \in Existing /\ Becomes(s, "missing", None, FALSE)
OperatorStarts(s) == s \notin Up /\ Becomes(s, "running", Starting(s), FALSE)

-----------------------------------------------------------------------------
(* `ct update`.                                                            *)

\* checkStackUp only warns; then bundle, database and configs are made.
Preflight ==
  /\ update.pc \in {"idle", "reconciled", "died"}
  /\ \E enough \in {classifyDiskSpace(m, DefaultThresholds) : m \in Disk} :
       update' = [pc |-> IF enough THEN "recreate" ELSE "died", probes |-> 0]
  /\ UNCHANGED <<state, health, serves, answered, doctor, outage>>

\* compose up --force-recreate, which may stop at any container: then the update
\* dies, as it does when redis cannot be pulled.
ComposeUp ==
  /\ update.pc = "recreate"
  /\ \E made \in SUBSET Services :
       /\ state' = [s \in Services |-> IF s \in made THEN "running" ELSE state[s]]
       /\ health' = [s \in Services |-> IF s \in made THEN Starting(s) ELSE health[s]]
       /\ serves' = [s \in Services |-> s \notin made /\ serves[s]]
       /\ \/ update' = [update EXCEPT !.pc = "died"]
          \/ made = Services /\ update' = [update EXCEPT !.pc = "wait"]
       /\ answered' = answered \ made
       /\ outage' = outage \ Ready'
  /\ UNCHANGED doctor

\* waitForRuntimeReady: a probe, which Docker may leave unanswered.
Probe ==
  /\ update.pc = "wait"
  /\ \E rows \in PsRows \cup {{}} :
       \/ /\ describeUnreadyServices(rows) = {}
          /\ update' = [update EXCEPT !.pc = "reconciled"]
       \/ /\ describeUnreadyServices(rows) # {}
          /\ update' = [pc |-> IF update.probes + 1 = MaxProbes THEN "died" ELSE "wait",
                        probes |-> update.probes + 1]
  /\ UNCHANGED <<state, health, serves, answered, doctor, outage>>

-----------------------------------------------------------------------------
(* `ct doctor`: its checks in their order.                                 *)

Severities == {"pass", "warn", "fail"}

\* Are 80 and 443 bound?  Caddy publishes both.
checkPorts == {"warn", IF state[Caddy] = "running" THEN "pass" ELSE "fail"}

checkUpEndpoint == IF serves[AdminApi] THEN {"pass"} ELSE {"fail"}

\* These run a script inside the container of the API.
checkAdminMigration == IF state[AdminApi] = "running" THEN {"pass", "fail"} ELSE {"fail"}
checkSingboxDirectStrategy == IF state[AdminApi] = "running" THEN {"pass", "warn"} ELSE {"warn"}

\* Through Caddy to the API.
checkAdminPublicLatency ==
  IF state[Caddy] = "running" /\ serves[AdminApi] THEN {"pass", "warn"} ELSE {"warn"}

\* CT_MIN_REPO_GB and CT_MIN_DOCKER_GB may be anything.
Disks == {checkDisk(m, DefaultThresholds) : m \in Disk}

\* CHECKS.  Compose, .env, DNS, the certificate, egress, the log and memory are
\* not of the stack.
CHECKS ==
  <<{"pass", "fail"}, Severities, Severities, checkPorts, Severities,
    checkUpEndpoint, checkAdminMigration, checkSingboxDirectStrategy,
    Severities, checkAdminPublicLatency,
    {checkContainerHealth(rows) : rows \in PsRows \cup {{}}},
    {"pass", "warn"}, Disks, Severities, {"info"}, {"info"}>>

\* The check of the certificate and that of the log start programs, and throw
\* when the program is not there.
Throwing == {5, 12}

DoctorStarts ==
  /\ doctor.next \in {0, 17}
  /\ doctor' = [next |-> 1, failed |-> FALSE, warned |-> FALSE]
  /\ outage' = Services \ Ready
  /\ UNCHANGED <<state, health, serves, update, answered>>

RunCheck ==
  /\ doctor.next \in 1..16
  /\ \E severity \in CHECKS[doctor.next] :
       doctor' = [doctor EXCEPT !.next = @ + 1,
                                !.failed = @ \/ severity = "fail",
                                !.warned = @ \/ severity = "warn"]
  /\ UNCHANGED <<state, health, serves, update, answered, outage>>

\* A FAIL line without a hint, and the next check.
CheckThrows ==
  /\ doctor.next \in Throwing
  /\ doctor' = [doctor EXCEPT !.next = @ + 1, !.failed = TRUE]
  /\ UNCHANGED <<state, health, serves, update, answered, outage>>

HealthNext ==
  \/ \E s \in Services :
       \/ ProcessAnswers(s) \/ ProcessHangs(s) \/ ProcessExits(s) \/ DockerRestarts(s)
       \/ HealthCheck(s) \/ OperatorStops(s) \/ OperatorRemoves(s) \/ OperatorStarts(s)
  \/ Preflight \/ ComposeUp \/ Probe
  \/ DoctorStarts \/ RunCheck \/ CheckThrows

HealthSpec == HealthInit /\ [][HealthNext]_healthVars

-----------------------------------------------------------------------------
(* Properties.                                                             *)

DisksAgree == \A m \in Disk :
  classifyDiskSpace(m, DefaultThresholds) <=> checkDisk(m, DefaultThresholds) # "fail"

\* Asked at the same moment, whatever `ps` leaves out: the gate of `ct update`
\* opens exactly when the doctor passes the containers, and then the dashboard
\* shows its own as running; a stack that is down for the preflight fails the
\* doctor; and unless told otherwise the doctor fails a disk that is too small
\* for `ct update`, and no other.
VerdictsAgree ==
  /\ \A rows \in PsRows :
       /\ describeUnreadyServices(rows) = {} <=> checkContainerHealth(rows) = "pass"
       /\ describeUnreadyServices(rows) = {} => \A s \in Shown : mapContainerState(s) = "running"
       /\ ~classifyStackUp(Up) => checkContainerHealth(rows) = "fail"
  /\ DisksAgree

\* `ct update` says that the services are healthy only after each new container
\* that has a health check has answered: one that hangs from the start is found.
GateFindsHung == update.pc = "reconciled" => Checked \subseteq answered

\* An outage that lasts as long as the doctor runs never goes without a WARN,
\* whichever checks ran when.
OutageNoticed == doctor.next = 17 /\ outage # {} => doctor.failed \/ doctor.warned

\* What the operator is told of the stack is true of it.
HealthSeen == VerdictsAgree /\ GateFindsHung /\ OutageNoticed
=============================================================================

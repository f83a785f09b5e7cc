----------------------------- MODULE Retention -----------------------------
(***************************************************************************)
(* The nightly job that shortens the audit log.  Its schedule, payload     *)
(* included, lives in Redis, which outlives the API and loses what it has  *)
(* not saved; the API registers the schedule once, when it starts, and its *)
(* worker runs whatever Redis hands it.                                    *)
(***************************************************************************)
EXTENDS Naturals, FiniteSetsExt

CONSTANTS
  Days,       \* values of CT_AUDIT_RETENTION_DAYS; 0 is among them
  MaxAge      \* bound of the model: the age at which a row stops ageing

ASSUME RetentionAssumption == Days \subseteq Nat /\ 0 \in Days /\ MaxAge \in Nat

VARIABLES
  days,       \* auditRetentionDays of the running API
  scheduling, \* scheduleDefaultJobs has still to reach Redis
  jobs,       \* the repeatable jobs in Redis: the days in their payloads
  saved,      \* the jobs as Redis last saved them to its volume
  reverted,   \* history: Redis has lost jobs since the API registered its own
  oldest      \* the age of the oldest row of audit_log

retentionVars == <<days, scheduling, jobs, saved, reverted, oldest>>

RetentionTypeOK ==
  /\ days \in Days
  /\ scheduling \in BOOLEAN
  /\ jobs \subseteq Days \ {0}
  /\ saved \subseteq Days \ {0}
  /\ reverted \in BOOLEAN
  /\ oldest \in 0..MaxAge

\* The first start of the API, with an empty Redis.
RetentionInit ==
  /\ days \in Days
  /\ scheduling = (days > 0)
  /\ jobs = {}
  /\ saved = {}
  /\ reverted = FALSE
  /\ oldest = 0

\* MUTANT: a registration that does not replace an earlier one.
enqueueRepeatable_adds(d) == jobs \cup {d}

\* A registration under the same name replaces the schedule and its payload.
enqueueRepeatable(d) == {d}

\* MUTANT: a retention of 0 days is scheduled like any other.
ApiStarts_always ==
  /\ days' \in Days
  /\ scheduling' = TRUE
  /\ reverted' = FALSE
  /\ UNCHANGED <<jobs, saved, oldest>>

\* The API starts again, on another `.env` or on the same.
ApiStarts ==
  /\ \E d \in Days : days' = d /\ scheduling' = (d > 0)
  /\ reverted' = FALSE
  /\ UNCHANGED <<jobs, saved, oldest>>

scheduleDefaultJobs ==
  /\ scheduling
  /\ jobs' = enqueueRepeatable(days)
  /\ scheduling' = FALSE
  /\ UNCHANGED <<days, saved, reverted, oldest>>

\* The worker takes the job that is due; it may well do so before the API has
\* registered its own.
runAuditRetention ==
  \E d \in jobs :
    /\ d > 0
    /\ oldest' = Min({oldest, d})
    /\ UNCHANGED <<days, scheduling, jobs, saved, reverted>>

Midnight ==
  /\ oldest' = Min({oldest + 1, MaxAge})
  /\ UNCHANGED <<days, scheduling, jobs, saved, reverted>>

\* --save 60 1.
RedisSaves ==
  /\ saved' = jobs
  /\ UNCHANGED <<days, scheduling, jobs, reverted, oldest>>

\* Redis dies and comes back with what it had saved.
RedisRestarts ==
  /\ jobs' = saved
  /\ reverted' = (reverted \/ saved # jobs)
  /\ UNCHANGED <<days, scheduling, saved, oldest>>

RetentionNext ==
  \/ ApiStarts \/ scheduleDefaultJobs \/ runAuditRetention
  \/ Midnight \/ RedisSaves \/ RedisRestarts

RetentionSpec == RetentionInit /\ [][RetentionNext]_retentionVars

-----------------------------------------------------------------------------

\* What the job deletes is older than the running API's retention, unless that
\* API has not registered its schedule yet, Redis has lost it, or the retention
\* is 0, for which the API registers nothing and withdraws nothing.
PruneFollowsConfig ==
  [][oldest' < oldest => oldest' = days \/ scheduling \/ reverted \/ days = 0]_retentionVars
=============================================================================

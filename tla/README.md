# TLA+ verification of the GPU Rig Monitoring Platform

This directory holds TLA+ models of the platform, the TLC configurations that
check them on small instances and TLAPS proofs of their main invariants.
Paths are relative to the repository root; `accounts/`, `metrics_app/`, `rigs/`,
`dashboard/`, `audit/` and `deploy/` are directories of `gpu_monitor/`.

1. [The system](#1-the-system)
2. [Modules](#2-modules-and-how-they-follow-the-code)
3. [Runs](#3-runs)
4. [Fairness and assumptions about the environment](#4-fairness-and-assumptions-about-the-environment)
5. [Proofs](#5-proofs)
6. [Disagreements](#6-disagreements-between-the-code-and-what-is-said-of-it)
7. [What is not modelled](#7-what-is-not-modelled)
8. [Plan](#8-plan)

## 1. The system

An agent on each mining or GPU rig posts a payload a minute to a Django server,
whose dashboard shows the fleet.

| Part | Code | State it keeps | Operations |
|---|---|---|---|
| Agent | `agent/run.py` (Linux, cron under flock), `agent_windows/run.py` (Task Scheduler and a lock of its own) | none between runs; the kernel's cumulative counters | wait a jitter, call one collector after the other, log the payload, POST it, retry up to three times |
| Agent updater | `agent/check_update.py`, `agent_windows/check_update.py`, `bootstrap_check_update` of `run.py` | the installed `run.py` / `check_update.py`, a `.bak` of each | daily: compare versions, download, validate, back up, replace |
| Ingest API | `metrics_app/views.py`, `serializers.py` | MetricSnapshot and child rows, LatestSnapshot, LatestDockerContainer, the Rig row and its rolling histories | authenticate, throttle, create or claim the rig, one transaction per payload, a post-commit update |
| Rig status | `rigs/models.py`, `rigs/management/commands/update_rig_status.py` | `Rig.status`, `last_seen`, RigStatusEvent | heartbeat, two-phase sweep by cron, deletion |
| API keys and accounts | `accounts/` | ApiKey, UserProfile, UserTag, `Rig.owner`, `Rig.enrolled_by_api_key` | create, revoke, delete, reactivate and transfer keys, register users, edit tags and profiles |
| Dashboard | `dashboard/views.py` | caches of each process | list, detail, HTMX polls, delete, rename, toggle tag |
| Charts and report | `metrics_app/views.py` (ChartDataView), `dashboard/views.py` | chart and report caches | bucketed aggregation; percentiles, outliers, coverage, events, restarts |
| Rate limits | `rate_limit` of `dashboard/views.py`, `IngestRateThrottle` of `metrics_app/views.py` | lists of times in the cache of each worker | serve or refuse |
| Retention | `metrics_app/management/commands/compact_data.py`, `cleanup_old_data.py`, `deploy/data_retention.sh` | the time series tables | tiered compaction, deletion after 31 days |
| Audit | `audit/` | AuditEvent | log one event per request, clean up after 90 days |

How they interact:

* Gunicorn runs four synchronous workers (`deploy/gunicorn.service`).  Each is a
  single-threaded process, so requests interleave only between workers, and only
  at database statements.  There is no `ATOMIC_REQUESTS`: outside the explicit
  `transaction.atomic()` of `process_ingest`, every statement of a view commits
  on its own.  PostgreSQL runs at READ COMMITTED.
* The cron commands are processes of their own which share the database with the
  workers and nothing else.
* The cache is `LocMemCache`: every process, the cron commands included, has one
  of its own.  Dropping an entry in one process says nothing to the others.
* Agents know the server by its HTTP answers only, and the server knows a rig by
  its payloads only.  An agent's files come from a directory that nginx serves and
  a deployment overwrites in place.

What is hard about it, and which properties each part needs to be correct:

| Part | Hard behaviours | Properties |
|---|---|---|
| Rig status | three kinds of process write the same row and log from what they read earlier; sweeps are killed or aborted by a deleted row; two queries with complementary bounds run at different times | a rig shown online or stale was heard from recently; no silent rig is missed; the newest event is the status and the log has no gap; silent rigs go offline |
| Ingest | a payload is retried while its first attempt is still being handled; counters reset; reads precede the transaction; a second statement follows the commit; deletion runs in between | deltas never over-report and, undisturbed, add up; latest is newest; what was acknowledged is stored; histories are deduplicated; container rows are of one payload |
| Retention | buckets are cut by the window's end and merged again by later runs and tiers; foreign keys and unique constraints; a kill or an error at any statement | every reading in exactly one row; no statement refused; nothing young lost; merged neither too early nor never |
| Caches | fills from reads made before a write; invalidation inside an open transaction; other processes that cannot invalidate; a version counter that expires | staleness bounded by time to live and request time; a worker shows its own writes |
| Keys and ownership | check-then-write on rows read earlier; transfers in several commits; reports in flight | a rig follows its key; a report reaches the user of its key; nobody changes a key that is not his |
| Agent updater | a kill between any two file operations; a fetch in the middle of a deployment; versions of different lengths; an update of the updater | a file changes only to what the server handed out, whole and newer; there is always a way to run and a way back; a host catches up |
| Run of the agent | tools that hang; an alarm that goes off in whatever is running; a run longer than a minute | a failing source costs its own section only; runs take turns; a time limit |
| Collectors, devices, pages | cards come, go and fail; values are joined by position and by name across collectors, database arrays and pages | each place shows one card; counters are of their own disk; the sections of one payload agree |
| Report and charts | running totals over rows with gaps, restarts and failures; rows merged in parts by other bucket lengths | totals equal what a definition over the rows says; a chart keeps the readings |
| Rate limits, audit | lists shared by views of different limits; retries that count; one event per request, written after the answer | who kept to his limit is not refused; the log says what was changed |

## 2. Modules, and how they follow the code

| Module | Models | Checked through | Proofs |
|---|---|---|---|
| `RigStatus` | the online / stale / offline life cycle and its event log | `MCRigStatus` | `RigStatusProofs` |
| `Ingest` | agent, network, workers and `rig_delete` around the data of one rig | `MCIngest` | `IngestProofs` |
| `Readings` | abstract: what the database promises of a reading, whatever row it is in | as a property of `Compaction` | `CompactionProofs` |
| `Compaction` | `compact_data` and `cleanup_old_data` on the time series of one rig | `MCCompaction` | `CompactionProofs` |
| `WorkerCache` | the caches of one worker for one rig | `MCWorkerCache` | `WorkerCacheProofs` |
| `Ownership` | keys, rigs and users, by statement | `MCOwnership` | `OwnershipProofs` |
| `AgentFiles` | abstract: what the update promises of the two files | as a property of `AgentUpdate` | `AgentProofs` |
| `AgentUpdate` | the updater, the migration and the server it fetches from | `MCAgentUpdate` | `AgentProofs` |
| `RateLimits` | `rate_limit`, the ingest throttle, the agent they count | `MCRequests` | `RequestProofs` |
| `AuditTrail` | the requests that write the audit log | `MCRequests` | `RequestProofs` |
| `AgentRun` | the minute's run of both agents, in seconds | `MCRequests` | `RequestProofs` |
| `Collectors` | pure operators: the sections of a payload for a given machine | through `Devices` | `AgentProofs` |
| `Devices` | a rig whose hardware changes, its rows and the pages that read them | `MCTelemetry` | `AgentProofs` |
| `Listing` | pure operators: sorted lists and filtered ones | through the others | `TelemetryProofs` |
| `Statistics` | pure operators: percentiles, outliers, coverage | through `Report` | `TelemetryProofs` |
| `Report` | the loops of the report over the rows of a rig | `MCTelemetry` | `TelemetryProofs` |
| `Charts` | the buckets and aggregates of the charts over compacted rows | `MCTelemetry` | `TelemetryProofs` |
| `Absent` | the value of what could not be read | through the others | — |

A module with processes has one action for each database statement, transaction,
file operation or call, with the checks that follow it in the code, because other
processes run exactly between those.  What a process has read and still holds is
part of its record (`req`, `sweep`, `worker`, `job`, `request`, `updater`, `runs`).
Operators whose comment says "Mutation of", "Mutant" or "(mutant)" are plausible
mistakes in the code, kept beside the definition they would replace to show that a
property would notice them; no action uses them.

**RigStatus.**  `rigs` is the `rigs_rig` table reduced to status, whether
`last_seen` is set, and its age in minutes.  `ReceiveHeartbeat` is `IngestView.post`
up to `Rig.objects.get`/`create`; `CommitHeartbeat` the transaction of
`process_ingest`, which logs a transition decided from the status read *before*
it.  `StartSweep`, `SaveTransition`, `LogTransition`, `StartOfflineLoop`,
`EndSweep` are `update_rig_status` and its `_transition`: the save and the event
are separate commits, the second query runs when the first loop is done but uses
the `now` of the start.  `CrashSweep` is the `DatabaseError` of saving a row that
was deleted.  `DeleteEvents`, `DeleteRow` are `rig_delete`.  The history variable
`torn` collects rigs whose status write overlapped another one, was interrupted or
hit a deletion; it is set by those causes, not by the damage.

**Ingest.**  A disk stands for all disks and interfaces, whose deltas are computed
by the same formula; an error or container stands for its fingerprint.  `Collect`,
`Resend`, `GiveUp` are the agent's `main` and `send_payload`; `net` is the network
and the listen queue.  A worker goes through `Accept` (reads the rig row with its
histories), `ReadPrevious` (reads LatestSnapshot outside the transaction),
`Begin` (locks the snapshot row, deletes the container rows visible to it),
`Commit`, `Flush` (the JSON columns, computed from the row of `Accept`) and
`Reply`.  `Fail`, `Crash`, `Lose`, `Reject`, `Reboot` and the five statements of
`rig_delete` may come in between.

**Compaction and Readings.**  A row is not its values but the set of readings it stands for,
`covers`: sums, maxima and last values are right exactly if the covers of a
table's rows partition the readings.  `ReadBatch` is the `CREATE TEMP TABLE` of
one bucket, `SwapBatch` DELETE, INSERT and COMMIT, `NextTable` the order of
`COMPACT_TABLES` and the two tiers, `DeleteOld` a batch of `cleanup_old_data`.
`Consistent` are the database's unique and foreign key constraints; a statement
that would break them is refused, with the consequences it has in each command.
Readings are taken at odd instants and buckets start at even ones, as readings
carry microseconds and bucket starts do not.  `Readings` knows no rows, buckets or
tiers: the database is a set of readings, and all that a maintenance may do is to take
some old ones of one table in hand and put them back.  `Compaction` instantiates it
with the union of the covers and the batch between `ReadBatch` and `SwapBatch`, and
refines it (`MergingUnseen`).

**WorkerCache.**  The database is two version numbers, of the rig row and of the
metrics; an entry remembers the version it shows (`n`), its time to live (`left`)
and how long the database has been ahead of it (`late`).  `Miss`/`Fill` are the
cached views, `Heartbeat`/`Commit`/`Rollback` an ingest, which drops the entries
while its transaction is open, `Edit`/`Invalidate` rename, tags and transfers,
which drop them afterwards.  `Elsewhere` is every other process.

**Ownership.**  `Authenticate`, `FindRig`, `CreateRig`, `StoreHeartbeat` are a
report with regard to keys and owners; `OpenKey` and `OpenRig` the
`get_object_or_404` and checks of the views, `Revoke`, `Reactivate`, `DeleteKey`,
`DropRig` the statements they lead to; `StartTransfer`, `SaveKey`, `MoveRigs`
`admin_transfer_keys` and the transfer of the admin site.  `raced` collects keys
that somebody else held while the key, or a rig it was used for, changed hands,
and keys of a transfer that was cut off between its two statements.

**AgentFiles and AgentUpdate.**  A file's content is its version and a form: whole,
broken (Python refuses it), torn (accepted, but a mix of two releases) or legacy (an
updater that looks on GitHub).  `Deploy`, `Copied` are a deployment that copies the
served files one after the other; `Fetched` is what a download may return meanwhile.
The updater goes file by file, `run.py` first, through `Local`, `Fetch`, `WriteTemp`,
`Validate`, `Backup`, `ReplaceLinux`/`ReplaceWindows` and `SetMode`; a failure of
one step ends the run of both files, as `sys.exit` does.  `BootStart` to
`BootReplace` are `bootstrap_check_update`.  A kill or an error is possible at each
step, and a copy it interrupts may be cut off.  `AgentFiles` is the promise without
any of this: two files, all that was ever offered, and one action that replaces a
file by something offered that is newer and not of another major version
(or by the migration).  `AgentUpdate` instantiates it with what it has handed out and
refines it (`Promised`).

**RateLimits.**  Ages instead of times: `stamps` are the lists in the cache,
`served` the same list without evictions, which the properties compare it with.
`Older` drops from a list what has left the window, as the comprehension
of `rate_limit` does; lists are in order, so that this is a suffix.  `RequestView` is
`rate_limit`, `Attempt` the throttle with an agent that counts its attempts down; `Spread` is the jitter plus the run, at most the 25 s and 30 s of the
agent.

**AuditTrail.**  A request is `Receive`, `Open` (what the view reads), the action of
its kind (`Register`, `CreateTag`, `UpdateTag`, `DeleteTag`, `ToggleTag`, `Save`,
`TransferKey`, `Enrol`: what it writes and the event it attaches) and `Respond`,
where the middleware writes the one event that is left.  `changed` remembers what
each request did, so that the log can be compared with it.

**AgentRun.**  The payload is a chain of calls, `LinuxCalls` or `WindowsCalls`: a record
for each, with its section, how long it takes, its time limit and the call the run
comes to when it has answered, failed or been interrupted by the alarm, which is what
its handlers decide.  `Delays` are the seconds between attempts (1, 2, 4).
`Collect` answers, fails or hangs until the limit; if the alarm is due before the end
it is raised *inside* the call and `Rings` treats it as the code does, as an error
of that call.  Time advances from event to event, so that the two minutes of a
behaviour overlap exactly when their durations say so.

**Collectors and Devices.**  A machine is a record of cards, sensors, partitions,
interfaces, processes and counters; `Collectors` computes from it what each collector
appends, loop by loop, with the values that fail as `None`.  `Beat` of
`Devices` composes that with `process_ingest`: a row per card, and LatestSnapshot
with its parallel arrays; `GpuCards`, `LabelUuid`, `HeaderUuid`, `PrimaryIp`,
`ProcessDetails`, `IdentityChanges` are what the pages compute back from them.
`source` remembers the machine, and the properties compare the page with it.
`MachineFacts` is what NVML, psutil and the kernel promise of a machine (section 4).

**Statistics, Report and Charts.**  `Report` keeps the rows of a rig as heartbeats add
them, with gaps, failing collections and restarts, and computes what
`_build_report_context` and its helpers do.  `Charts` merges rows as
`compact_data` does (in one step, `Compaction` has the transactions) and computes
the series of each handler.  Loops with running totals are written as folds in the
order of the code, and the properties define the result a second time by sets.

**Listing.**  `Sorted` is Python's `sorted` for an order without ties, by rank: the k-th
element is the one that has k - 1 others before it; `Where` is a comprehension with
a condition, by the ascending list of the places it keeps.  `SortSeq` and `SelectSeq` of
the library compute the same but are recursive or overridden, and nothing could be
proved of them.

The modules share no variables: each follows one aspect of the same rows, and an
action of another part appears in it as far as it touches that aspect (an ingest,
for instance, is a heartbeat in `RigStatus`, a report in `Compaction`, a drop of
entries in `WorkerCache`).

## 3. Runs

Bounds are constants of the modules, named "bound" where they are declared.

| Run | Question | Bounds, and why they are enough |
|---|---|---|
| `rigstatus_lifecycle` | do heartbeats, sweeps, kills and deletions in any order keep status, ages and log together, and does a silent rig go offline? | two rigs, so that one's deletion aborts the sweep of the other; thresholds 1 and 2 with a sweep a minute keep the order of the real 2, 10 and 2, and the age cap lies above every compared value; one fault. One worker, since requests of a rig that overlap make it torn; the proofs cover the rest |
| `ingest_deltas` | do stored deltas account for the I/O, and is the latest snapshot the newest? | three payloads (a first, one that may be lost, one after it), two attempts, two workers (at most two attempts of a payload are under way), one fault of any kind |
| `ingest_history` | is what was acknowledged stored, are histories deduplicated, are container rows of one payload? | contents that repeat within and across payloads, history of three and window of two, so that both are cut and differ |
| `ingest_duplicate` | does an exact duplicate leave the rows alone? (violated) | two payloads |
| `compaction` | is every reading in exactly one row of the right resolution, and is no statement refused? | buckets of two and four readings (4 and 8 instants), windows at 2, 6 and 16, so that no window's end lines up with a bucket; a maintenance every 5 instants, so that a bucket is merged in parts by two runs and two tiers; time up to 20, so that the cleanup reaches compacted rows and the raw snapshots they refer to; four reports, one fault |
| `worker_cache` | how old can what a view shows be? | scaled times to live that keep their order; two writes and bumps: one to be missed and one to come after it |
| `ownership` | does a rig stay with the user of its key, a report reach its user only, and a key change by its user only? | two users, two keys, one rig and three workers: two writers and a report between them; symmetric in all four sets |
| `agent_update` | do the two files keep what `AgentFiles` promises, is there always a file to run and one to go back to, and does a host catch up? | both platforms; four releases: a version of two parts, one that differs in the fourth part only, one that goes back, one of another major version; three faults: one for each file of a run and one for the migration |
| `requests` | is nobody refused who did not use up his limit, does the log say what was changed, does every run that may end with its payload do so in order? | window of six (a minute of ten-second units), rate two, views with limits one and two on one list; two workers with any three requests, so that two race and a third sees the result; two minutes of an agent with jitter 0 or 25 and three faults, enough for a run on Windows to outlast its minute (the Linux agent would need four) |
| `telemetry` | do totals equal a definition over the rows, do charts keep the readings, do the pages show the machine that was measured? | four samples with a gap on either side of the limit and a restart; three readings of two values merged by up to three runs, so that a bucket is merged in parts and a merged one again; three heartbeats with two changes of the hardware among machines of both platforms |
| `gpu_fan_refused` | is every heartbeat of a registered rig stored? (violated) | the same |
| `agent_hard_limit` | does `collection_timeout_s` limit the run? (violated) | as `requests` |

A run marked "violated" checks one statement that a comment, docstring or
document makes and the code does not keep (section 6).  The other runs pass.

`requests` and `telemetry` each hold three parts that share no state: a behaviour of
the run belongs to one part (`MCNext`, `MCSpec`), and their interleavings, which show
nothing more, are left out.

Deadlock is checked where the system can go on for ever (`RigStatus`,
`WorkerCache`).  In the others the bounds end a behaviour: minutes, the clock,
requests, releases, heartbeats and the unused identities of keys run out, so
`CHECK_DEADLOCK FALSE` is set there.

A property whose comment speaks of several things is a conjunction of named ones, and
each of those has a mutant of its own.  What the main properties say:

* `SweepMissesNoRig` (why the two queries are complementary although the second
  is evaluated later), `StatusIsRecent`: the status shown is bounded by the last
  complete sweep, whatever happened since.
* `EventsExplainStatus`, `EventLogUnbroken`: outside `torn`, log and row agree.
* `DeltasAreRight`: deltas never add up to more than the disk did
  (`NeverOverReports`), nor to less if nothing was reset, missing or redone
  (`DeltasAddUp`); a *lost* payload costs nothing, because the next delta spans it.
* `StoredOnce`: a 200/202 that arrived means the rows and the histories are there,
  although they are written in two commits (`AckedIsStored`), and an error is listed
  once within the window (`DedupWindow`).
* `StoredExactly`, `NeverRefused`, `MergedByAge`: compaction neither double-counts
  (`CountedOnce`), loses (`NothingLost`), gets stuck, merges too early
  (`ResolutionKept`) nor fails to merge (`BucketsMerged`).
* `MergingUnseen`: the refinement of `Readings`.  At most the batch that is in hand
  while the rig is deleted may come back.
* `BoundedStaleness`, `OwnWritesSeen`, `ChartsFollowCounter`: what a view may show.
* `RigsFollowTheirKey`, `ReportsReachTheirUser`, `KeysChangedByTheirUser`: outside
  `raced`, ownership is consistent at every statement.
* `Promised`: the refinement of `AgentFiles`.  `StillRuns`: `run.py` can always be
  started and the next update can read its version.  `RollbackKept`: the backup is
  the file that was replaced; a kill may cost it, but never together with the
  installed file.  `CatchesUp`: once deployments are over the files are as new as the
  served ones.  It allows for a torn updater: a mixed file that Python accepts may not
  update itself any more, which is why `StillRuns` asks for `run.py` only.
* `LimitsHold`: nobody is refused below his limit or because he asked too early,
  bursts are bounded, and an agent whose first attempts are answered is never refused.
* `AuditHolds`: there is an administrator as soon as there is a user, a change has a
  row once the request is answered (an enrolment has none, section 6), and a row names
  something that was changed.
* `FaultsAreContained`, `RunsTakeTurns`: a source that fails or hangs costs its
  section of the payload and no other, the job state is never invented, payloads
  reach the server in order, and a minute is skipped only while an earlier run is at
  work.
* `StatisticsAreRight`, `EventsAreReal`, `TotalsOnlyGrow`: the loops of the report
  find the events, periods and restarts that a definition over the rows finds, and
  a heartbeat takes nothing back.
* `ChartsKeepTheReadings`: sums, flags and averages of a chart are of the readings of
  its buckets, however often and in whichever parts they were merged.
* `PayloadIsOfTheRig`, `PagesShowTheRig`: what is collected by two loops agrees, what
  is joined by name is of the same disk, and a place on a page shows one card.

## 4. Fairness and assumptions about the environment

* `SilentGoesOffline` is checked under weak fairness of `Tick` and of the steps of the
  sweep.  Time passes, and cron starts the command every two minutes and lets it run;
  nothing else is fair: agents, users and workers may stop at any step.  `Tick` waits
  for a sweep that is due: cron does not skip.  Kills of sweeps are bounded by
  `MaxFaults`; with unboundedly many no sweep need ever finish.  A sweep ends by
  itself because it has fetched finitely many rows.
* `CatchesUp` is checked under weak fairness of `UpdaterStep` and `BootStep`: cron and
  the Task Scheduler start `check_update.py` every day and `run.py` every minute, and
  each is a loop-free script whose calls have time limits.  Deployments are not fair,
  and neither is the end of a copy: the property is about hosts whose server is done.
* `Overlap = FALSE` in the runs of `Ingest`: no payload is built while a request of
  an older one is under way.  An agent runs once a minute under flock and ends
  itself after 30 s (`SIGALRM`), and a request lives at most 30 s in a worker
  (gunicorn `--timeout 30`); what waits in the listen queue longer than that, and a
  run that outlives its alarm (`agent_hard_limit`), are the cases this excludes.  With
  `Overlap = TRUE`, `DeltasAreRight` and `LatestIsNewest` fail (section 6).
* One `update_rig_status`, one maintenance and one `check_update.py` of a host at a
  time: their runs are far shorter than their periods.  `RigStatus` lets a sweep take
  up to `CronPeriod`, `Compaction` lets each of its commands take `MaxRun` while
  reports and deletions go on.
* A rename within a directory is atomic (`os.replace`); copying a file is not.
* A clock that does not go back.
* `MachineFacts` and `DevicesAssumption` say what the properties of `Devices` need of a
  machine: temperatures, loads and counters are numbers; a pid is that of one process
  (`psutil.process_iter` keeps one per pid); a device name lies on one physical disk,
  which is in the counters if there are any; an address is not the empty string;
  the RAPL counter advances by less than its range between its two readings, 0.1 s
  apart (`agent/run.py:336`), while it takes minutes to wrap at full load; and a page
  takes no more processes (10) than a payload has (20).

## 5. Proofs

TLAPS proves the following for every value of the constants that satisfies the
module's assumption (`ThresholdAssumption`, `IngestAssumption`, `ContentAssumption`,
`CompactionAssumption`, `CacheAssumption`, `OwnershipAssumption`,
`UpdateAssumption`, `LimitAssumption`, `RateAssumption`, `AuditAssumption`,
`RunAssumption`, `ReportAssumption`, `ChartAssumption`, `StatisticsAssumption`,
`CollectorsAssumption`, `DevicesAssumption`).  Each is a theorem `Spec => []P`
(or `Spec => [][A]_vars`) from an inductive invariant; there is a lemma for the
initial states and one step for each action.

| Module | Theorems | Inductive invariant, and why the property alone is not inductive |
|---|---|---|
| `RigStatusProofs` | `TypeCorrect`, `StatusRecency`, `SweepCompleteness` | `EndSweep` tightens the bounds on ages, which needs to know that the sweep skipped no silent rig: `SweepMissesNoRig`, for each loop and with regard to what is still to be saved |
| the same | `StatusExplained`, `LogUnbroken` | `Isolated`: a rig that is not torn has at most one writer, and what that writer has read is still so |
| `IngestProofs` | `LatestShown`, `ContainersTogether` (both for `~Overlap`), `AcknowledgedStays` | `UnderWay`: agent, network and workers hold nothing newer than the minute, and nothing older without `Overlap`; so the rows that a transaction did not see when it deleted the container rows are of its own payload. What a worker will answer or flush is already stored, or the rig was deleted since |
| the same | `TypeCorrect`, `HistoriesDeduplicated` | `Typed`: every history that is held anywhere, in the rig row or in the row a worker has read, is `Rolling`: its fingerprints are its own end, it is not longer than its cap, and equal entries are further apart than the window (`AppendedFacts`) |
| the same | `DeltasRight` (for `~Overlap`) | `Covered`: the rows of earlier payloads and what the payload under way adds to them, compared with *any* reading a worker may have read, stay within the I/O of the disk, since a later worker replaces the row of the first; `Measured`: the reading under way is the counter, or the counter was reset since; `Complete`: as long as nothing was disturbed, workers compare with the newest reading |
| the same | `StoredOnceAlways` (for `~Overlap`) | `Recorded`: a payload that is acknowledged, or whose worker is about to, is `Kept`: it is in the histories of the rig row and in the row that every other worker will write back, unless that one handles the same payload. A rig that is gone has nothing that counts as stored |
| `CompactionProofs` | `TypeCorrect`, `StatementsAccepted`, `ReadingsCountedOnce`, `ReadingsKept`, `ReadingsStoredExactly`, `ResolutionIsKept` | a batch is read in one step and swapped in another: `BatchFaithful` relates the temporary table to the rows, `RowsDated` and `RunDated` keep what is reported meanwhile apart from what a run may touch, `CleanedInOrder` keeps children from outliving their snapshot. `CoversNear` (the readings of a row are of the bucket its time stamp begins) is why the cleanup, which looks at the time stamp of a row only, deletes no reading that is owed (`OwedYoung`); `Aged` says of rows and of the temporary table what had to be old enough to be merged so far |
| the same | `MergedWhenOld` | `BucketsMerged` speaks of a run that is over, so `MergedSoFar` says it of the buckets that a running one is through with. It is disturbed not by new rows but by old ones that change their kind: a snapshot whose children are gone is one row more to merge. `WideIsOld` and `RefIsRead` keep that out of the windows: tier 3 takes only children whose snapshots are past the tier 2 window, and the cleanup only those whose snapshots are past the retention |
| the same | `MergingIsUnseen` | the refinement `Spec => Kept!Spec`: a read is `Take`, a swap `PutBack` (or `LetGo` if it is refused), a batch of the cleanup `Expire`; `BatchFaithful` is what makes the batch the union of rows that are there |
| `WorkerCacheProofs` | `TypeCorrect`, `StalenessBounded`, `OwnWritesShown`, `ChartsCurrent` | what is said of entries must hold of a read not yet stored: `Bounded` (age and remaining life add up), `PlainFresh`, `ChartsFresh` (with the two windows in which a worker has dropped but not committed, or committed but not dropped) |
| `OwnershipProofs` | `TypeCorrect`, `OwnershipFollows`, `ReportsArrive`, `KeysGuarded` | `Shape`, `Held` (whoever holds a key that is not raced acts for its user), `Closed`, `Accepted` |
| `AgentProofs` | `TypeCorrect`, `HostStillRuns`, `BackupsKeepTheLastGood`, `KeepsItsPromise` | `HandInv`: the download in hand was handed out, is newer than the file it is for and, once checked, whole; `MigrationInv`: the updater and the migration are never at work together, or the file that was compared would not be the file that is replaced; `ServedInv` and `BackupInv`: what is served has been released, and a backup is of what was installed |
| the same | `DevicesTyped`, `PagesShow`, `PayloadReal` (of `DSpec`) | the properties say nothing of where the snapshot came from, so `DevicesInv` does: it is that of a payload of one machine of this rig (`SnapshotOfSource`), and each row has the errors that the journal *now* has of the row's window (`ErrorsOfRows`), which survives new lines because they are later (`ErrorsStay`). What is left is about the collectors: every entry is of the card at its place (`OfCards`), a core that is shown is one of the readings whose maximum is the CPU's temperature (`CoreOfPreferred`), the cards that are summed are a part of those that report (`PowerTotals`), a counter that wraps once is put right by one range (`ModOnce`), a process with fewer than ten ahead of it survives both cuts (`ShownFirst`), and two changes that follow each other in the list have nothing between them (`ChangesLead`) |
| `RequestProofs` | `FaultsContained`, `TurnsAreTaken` (of `ARSpec`), `RunTyped` | sections and calls are numbered in the order in which a payload is put together; `FaultInv`: a run at a call has settled, with a value or with a fault of its own collector, every section of a smaller number. That each row of the two tables of calls keeps this (`LinuxRows`, `WindowsRows`) is what a new collector has to be checked against. `TurnInv`: runs hold the lock one at a time, none waits longer than its jitter, and the one that is due first is the one that goes on; `TryInv`: attempts and the time they take |
| the same | `LimitsAreKept`, `LimitsTyped` | the list in the cache is the end of the list of everything served, and what is missing from it was dropped by an eviction (`ListInv`); of the reports of one run of the agent at most one is answered, and at most two runs reach into one window (`AnsweredOnce`) |
| the same | `LogIsComplete` (of `ASpec`) | `Progress`: what a request that is not answered yet has changed and attached, and that a view which goes on found an account or a tag that some request had created; `Numbered`: requests have numbers of their own |
| the same | `PartsImplemented`, `RequestsTyped` (of `MCSpec`) | the composition that the run checks is, on the variables of each part, that part's own specification; so what is proved of `Spec`, `ASpec` and `ARSpec` holds of it |
| `TelemetryProofs` | `EventsReal`, `ReportTyped` (of `RSpec`) | each loop is a walk over the rows, with an invariant of its own: `Found`, `Lasting` and `Longest` for the temperatures (which runs of hot rows have begun, how long the open one and the longest one last), `Apart` for active and idle time together, `Periods` for the uptimes. The last one needs to know how many restarts came before each row, which no row shows: `InEpochs` of the state invariant `ReportInv` supplies it, and with the order of time it survives that rows leave the window (`SuffixEpochs`) |
| the same | `TotalsGrow` | the walks over the rows before and after a heartbeat agree on the rows they share (`SameWalk`), the new snapshot says nothing of an earlier row (`JobsStay`), and a sum of more and greater weights is not smaller (`SumGrows`) |
| the same | `StatisticsRight` (of `RSpec`) | follows from the types of `ReportInv` and from lemmas about the operators. A percentile is a point of the polygon through the sorted values, which rises (`PointGrows`). That *fewer than half* are outliers holds for each of the three rules because the values at or below the median deviation are none (`MedianAtLeast`, `NoOutlier`). Covered time is a sum over the gaps that are not outages, and all gaps add up to the time between the first and the last row (`GapsAddUp`). The sign of the slope is Chebyshev's inequality, by induction over the subsets of the rows: a row adds to the numerator what the others make about it (`About`), a sum of products `(t[i] - t[j]) * (y[i] - y[j])` that are not negative (`AboutAdds`, `FitIsPositive`) |
| the same | `ChartsRight`, `ChartsKept` (of `CSpec`) | `ChartInv`: the rows of each table hold the readings, each in one row (`Store`); a row has the sum and the maximum of its readings, and an average between two of them (`Stands`), which survives merging because readings are summed over a partition (`SumOfSums`) and an average of averages lies between two of them (`AverageBetween`). Where a row is found is harder, since a merge moves it to the start of its bucket: for the charts of each tier it stays in the bucket of its readings, or row and readings are older than every whole bucket of the chart (`Near`). A merge into tier `k` keeps the second for the charts of the finer tiers, because it ends at the age of the tier before (`MergedOlder`), and the first for its own and the coarser ones, because lengths divide each other and it begins at a multiple (`MergedNear`) |

`KeepsItsPromise` is the refinement `Spec => F!Spec`: the initial states map to
initial states and each step to `Offer`, `Upgrade`, `Migrate` or a stutter.

The invariants were checked by TLC on the instances of section 3 before they were
proved.  Only model-checked:

* `SilentGoesOffline` and `CatchesUp`: liveness is out of the prover's reach.
* `EveryHeartbeatIsStored` and the other statements of the runs that are violated.

The induction principles of the library take an operator as a parameter and cannot be
used here.  `IngestProofs` and `TelemetryProofs` therefore prove one about sets (`Induction`: a set of
natural numbers that has 0 and every successor is all of them, from the cardinality
of intervals), with it that a function defined by recursion over the subsets of a
finite set is what its definition says (`FoldExists`), and so what `MapThenSumSet` and
`FoldLeft` compute (`SumFacts`, `FoldSteps`, `WalkSteps`).  A window is written as the end of a sequence and
the steps of the loops have names, so that the prover can expand them.

The proofs also corrected the models: two cases of `Collect` in `AgentRun` overlapped
(an alarm that is due at the very second a call answers), so that TLC took the one
that is written first and the prover could not tell which; they are disjoint now.  So did two
cases of `Series` in `Charts`, where a bucket without rows is one of its own now.
`ChartsRight` needs the age of tier 1 not to exceed that of tier 2 (`Age`, 1 and 7 days in
the code): otherwise a merge would reach into whole buckets of a finer chart.

## 6. Disagreements between the code and what is said of it

With a run that shows them (`PROJECT.json` quotes the statements):

* `ingest_duplicate`: a retry is compared with itself and replaces its delta by zero.
* `gpu_fan_refused`: a fan that stops from 100 % makes the divisor of the
  fan-adjusted index zero; the heartbeat is answered 500, and so is every later one
  until the fan turns.
* `agent_hard_limit`: the one alarm of the Linux agent is taken for an error of
  whatever collector it goes off in, is not set again, and nothing limits the rest.

Met while modelling and without a run of their own.  Status, ingest, retention:

* A heartbeat that read the rig online commits after a sweep made it stale; the change
  back is not logged (`metrics_app/serializers.py:792`).
* The sweep saves STALE or OFFLINE over a heartbeat that came after its query: a rig
  heard from seconds ago may be shown offline until its next heartbeat
  (`rigs/management/commands/update_rig_status.py:16`).
* An ingest that commits between the statements of `rig_delete` leaves rows of a rig
  that does not exist (`dashboard/views.py:843`).
* A payload without containers leaves the container rows of an older one
  (`metrics_app/serializers.py:622`).
* Two payloads of different minutes that are handled at once are compared with the
  same previous snapshot, and the I/O between them is counted twice.
* The deduplication window (200) is shorter than the history (1000), so an error can
  be listed twice although `rigs/models.py:43` describes the list as deduplicated.
  `DedupWindow` says what does hold.
* `metrics_app/views.py:212` and `:525` say that MetricSnapshot is not compacted; it is
  the last entry of `COMPACT_TABLES`.

Caches, keys, audit:

* The version counter of the charts keeps its first time to live, expires and restarts
  at one while charts of a low version are still cached (`serializers.py:787`).
* `docs/GPU_Rig_Monitoring_Architecture.md` promises fresh data after a heartbeat;
  three of four workers keep their entries until they expire, and the
  `invalidate_rig_cache` of `update_rig_status` reaches no worker at all.
  `dashboard/views.py:28` says the permission is validated against the database; it is
  decided from the cached owner.  `BoundedStaleness` gives the bound that does hold.
* A transfer of keys that is cut off, or races with another one or with a report that
  adopts its key, leaves a rig with another owner than its key
  (`accounts/views.py:237`).  The transfer of the admin site does not clear the old
  owner's tags (`accounts/admin.py:64`), the other transfer does.
* A request keeps one audit event, the last: a transfer of several keys logs one.
  The event of an enrolment is attached to the REST framework's wrapper and not to
  the request the middleware looks at, so it is never logged.

Agents:

* `docker` that hangs in the test call ends the run, since its `TimeoutExpired` is not
  caught there; the docstring says an empty list is returned if both ways fail
  (`agent/run.py:1387`).
* A card that is lost empties the whole list of cards, although
  `docs/ingest-serialization-cost-analysis.md` says that NVML exceptions are caught
  per device.  The power total stops at the first card that cannot report.
* One mount that raises `OSError` empties the list of disks on Linux, and costs only
  itself on Windows.
* On Windows the bus id of a card that does not report one is the one of the card
  before it, the link speed of the first interface is given to all, and without a
  drive map the model of every drive is that of the first disk.
* An error in `log_payload` other than a missing permission loses the payload.
* A `rig_uuid` of `auto` is made anew on every run if the configuration cannot be
  written.
* Bind mounts give several rows for one device name, which the server takes for one.

Report and charts:

* The oldest bucket of a chart may have lost readings to the retention or to the row
  that the compaction made of them (`WholeIndices` leaves it out).
* Time of an outage between two idle rows counts as underutilized.
* The label of the error chart says errors per hour for buckets of 15 minutes.
* `_safe_gpu_label` writes "GPU-None" for a card without a UUID, and where several
  models tie the one called the latest is arbitrary.

## 7. What is not modelled

* The parsing of command output (nvidia-smi, docker, journalctl, wmic), optional
  static identifiers of a card, motherboard and software, which are copied; several
  containers and disks in `AgentRun`, whose loops repeat what one does; `disk_usage`
  that hangs on a dead network mount; an agent that is killed.
* The temporary files an interrupted updater leaves behind; a manual run of the
  updater beside the daily one; the helpers that register the tasks on Windows.
* Templates, JavaScript, the list of rigs, CSV, logging, units and rounding: input,
  output and presentation.
* AVG over rows that are averages of different numbers of readings: `Compaction` says
  which readings a row stands for, and `Charts` only that an average stays between
  the readings (`AveragesStayInRange`).
* What becomes of a batch whose rig was deleted between its read and its INSERT:
  `StoredExactly` and `NeverRefused` except it, and `MergingUnseen` says only that no
  more than this batch comes back.
* `Rig.update_status`, which has no caller.  Names of keys, `last_used_at`, migration
  of legacy keys, log-in and log-out: each writes one row of one user.
* The admin site's forms, which let staff edit any field of any row.
* The backfill tool, a one-off that copies rows to earlier times, and deployment
  scripts other than the copy of the agent's files and the cron lines, whose numbers
  are assumptions of the models.

## 8. Plan

Done, in this order, most important behaviour first: `RigStatus`, `Ingest`,
`Compaction`, `WorkerCache`, `Ownership`; then `AgentUpdate` with its abstract
specification, `RateLimits`, `AuditTrail`, `AgentRun`, `Collectors` and `Devices`,
`Statistics`, `Report` and `Charts`, with the proofs of section 5.

What is left:

1. An abstract heartbeat log that `RigStatus` implements for rigs that are not torn.
2. Several workers in `WorkerCache` together with the throttle, to bound what a rig
   or a user gets from all of them.

------------------------------ MODULE RigStatus ------------------------------
(***************************************************************************)
(* The online / stale / offline life cycle of a rig.  Three programs write *)
(* Rig.status and the RigStatusEvent log, each in its own process:         *)
(*                                                                         *)
(*   - a Gunicorn worker in IngestView.post / process_ingest, which reads  *)
(*     the rig row, works for a while and then commits one transaction     *)
(*     computed from the row it read;                                      *)
(*   - the cron command update_rig_status, which runs two queries and then *)
(*     saves the rows it fetched one by one, each save and each event in a *)
(*     transaction of its own;                                             *)
(*   - the dashboard's rig_delete view, which deletes the events and then  *)
(*     the row, again in separate transactions.                            *)
(*                                                                         *)
(* Time is counted in minutes.  Only differences to "now" matter to the    *)
(* code, so a row keeps the age of last_seen, capped at AgeCap.            *)
(***************************************************************************)
EXTENDS Integers

CONSTANTS
    Rigs,          \* rig UUIDs
    Workers,       \* Gunicorn worker processes, one request at a time each
    StaleAfter,    \* minutes of silence after which a rig is stale
    OfflineAfter,  \* minutes of silence after which a rig is offline
    CronPeriod,    \* minutes between two starts of update_rig_status
    AgeCap,        \* bound: ages above it are not told apart
    MaxFaults      \* bound: rig deletions and killed sweeps in a behaviour

ASSUME ThresholdAssumption ==
    /\ StaleAfter \in Nat /\ OfflineAfter \in Nat
    /\ CronPeriod \in Nat \ {0} /\ AgeCap \in Nat /\ MaxFaults \in Nat
    /\ StaleAfter < OfflineAfter
    /\ OfflineAfter + CronPeriod < AgeCap

VARIABLES
    rigs,       \* the rigs_rig table: present, status, heard, age of last_seen
    lastEvent,  \* the newest RigStatusEvent of each rig
    req,        \* the ingest requests being handled, at most one per worker
    sweep,      \* the running update_rig_status command
    sinceStart, \* minutes since the last sweep started
    sinceGood,  \* minutes since the start of the last sweep that ran to its end
    deleting,   \* rigs whose rig_delete view has deleted the events only
    faults,     \* how many deletions and kills there were
    torn        \* history: rigs whose status write was not isolated, see below

vars == <<rigs, lastEvent, req, sweep, sinceStart, sinceGood, deleting, faults,
          torn>>

Online  == "online"
Stale   == "stale"
Offline == "offline"
Status  == {Online, Stale, Offline}

NoEvent == [previous |-> Offline, status |-> Offline]
Event   == [previous : Status, status : Status]
Age     == 0 .. AgeCap
Row     == [present : BOOLEAN, status : Status, heard : BOOLEAN, age : Age]

\* A request keeps the rig it read and the status it read it with.
Request == [worker : Workers, rig : Rigs, seen : Status]

\* A sweep is idle, in its stale loop or in its offline loop; todo holds the
\* rows fetched and not yet saved, logging the row saved whose event is not
\* yet inserted (at most one).
Fetched == [rig : Rigs, status : Status]
Sweep   == [pc : {"idle", "stale", "offline"},
            todo : SUBSET Fetched, logging : SUBSET Fetched]

\* The row of a rig that does not exist, and the row Rig.objects.create makes.
Absent == [present |-> FALSE, status |-> Offline, heard |-> FALSE, age |-> 0]

\* Mutation of Fresh: the status is no value of Rig.Status.
FreshUnknown == [present |-> TRUE, status |-> "unknown", heard |-> FALSE, age |-> 0]

Fresh  == [present |-> TRUE, status |-> Offline, heard |-> FALSE, age |-> 0]

Older(a) == IF a < AgeCap THEN a + 1 ELSE AgeCap

Init ==
    /\ rigs = [r \in Rigs |-> Absent]
    /\ lastEvent = [r \in Rigs |-> NoEvent]
    /\ req = {}
    /\ sweep = [pc |-> "idle", todo |-> {}, logging |-> {}]
    /\ sinceStart = 0 /\ sinceGood = 0
    /\ deleting = {} /\ faults = 0 /\ torn = {}

-----------------------------------------------------------------------------
(***************************************************************************)
(* Ingest: IngestView.post reads or creates the rig, process_ingest commits *)
(* the heartbeat.  The event is decided from the status read first.        *)
(***************************************************************************)

Handling(r) == {q \in req : q.rig = r}
InSweep(r)  == {f \in sweep.todo \cup sweep.logging : f.rig = r}

\* Rig.objects.get, or create on DoesNotExist.
GetOrCreate(r) == IF rigs[r].present THEN rigs[r] ELSE Fresh

ReceiveHeartbeat(w, r) ==
    /\ \A q \in req : q.worker # w
    /\ rigs' = [rigs EXCEPT ![r] = GetOrCreate(r)]
    /\ req' = req \cup {[worker |-> w, rig |-> r,
                         seen |-> GetOrCreate(r).status]}
    /\ torn' = IF Handling(r) \cup InSweep(r) # {} THEN torn \cup {r} ELSE torn
    /\ UNCHANGED <<lastEvent, sweep, sinceStart, sinceGood, deleting, faults>>

\* Mutation of CommitHeartbeat: only a return from offline is logged.
CommitLogsOfflineOnly(q) ==
    /\ rigs[q.rig].present
    /\ lastEvent' = IF q.seen # Offline THEN lastEvent
                    ELSE [lastEvent EXCEPT ![q.rig] =
                            [previous |-> Offline, status |-> Online]]
    /\ rigs' = [rigs EXCEPT ![q.rig] =
                  [present |-> TRUE, status |-> Online, heard |-> TRUE, age |-> 0]]
    /\ req' = req \ {q}
    /\ UNCHANGED <<sweep, sinceStart, sinceGood, deleting, faults, torn>>

\* The transaction: log the transition to online, stamp last_seen, set the
\* status.  rig.save(update_fields=...) needs the row to be there still.
CommitHeartbeat(q) ==
    /\ rigs[q.rig].present
    /\ lastEvent' = IF q.seen = Online THEN lastEvent
                    ELSE [lastEvent EXCEPT ![q.rig] =
                            [previous |-> q.seen, status |-> Online]]
    /\ rigs' = [rigs EXCEPT ![q.rig] =
                  [present |-> TRUE, status |-> Online, heard |-> TRUE, age |-> 0]]
    /\ req' = req \ {q}
    /\ UNCHANGED <<sweep, sinceStart, sinceGood, deleting, faults, torn>>

\* The payload is rejected, an exception rolls the transaction back (the row
\* is gone, for one), or the worker is killed: nothing of it stays.
DropHeartbeat(q) ==
    /\ req' = req \ {q}
    /\ UNCHANGED <<rigs, lastEvent, sweep, sinceStart, sinceGood, deleting,
                   faults, torn>>

-----------------------------------------------------------------------------
(***************************************************************************)
(* update_rig_status.  Both thresholds are taken from the "now" of the     *)
(* start of the command; a row without last_seen matches neither query.    *)
(***************************************************************************)

Fetch(set) == {[rig |-> r, status |-> rigs[r].status] :
                 r \in {x \in set : rigs[x].present /\ rigs[x].heard}}

\* Mutations of StaleRows and OfflineRows: a threshold one minute late, and
\* the stale rigs left out of the second query.
StaleRowsLate ==
    Fetch({r \in Rigs : /\ rigs[r].status = Online
                        /\ rigs[r].age > StaleAfter + 1
                        /\ rigs[r].age <= OfflineAfter})
StaleRowsNarrow ==
    Fetch({r \in Rigs : /\ rigs[r].status = Online
                        /\ rigs[r].age > StaleAfter
                        /\ rigs[r].age < OfflineAfter})
OfflineRowsLate ==
    Fetch({r \in Rigs : /\ rigs[r].status # Offline
                        /\ rigs[r].age - sinceStart > OfflineAfter + 1})
OfflineRowsOnlineOnly ==
    Fetch({r \in Rigs : /\ rigs[r].status = Online
                        /\ rigs[r].age - sinceStart > OfflineAfter})

StaleRows ==
    Fetch({r \in Rigs : /\ rigs[r].status = Online
                        /\ rigs[r].age > StaleAfter
                        /\ rigs[r].age <= OfflineAfter})

OfflineRows ==
    Fetch({r \in Rigs : /\ rigs[r].status # Offline
                        /\ rigs[r].age - sinceStart > OfflineAfter})

Raced(rows) == {f.rig : f \in {g \in rows : Handling(g.rig) # {}}}

StartSweep ==
    /\ sweep.pc = "idle"
    /\ sweep' = [pc |-> "stale", todo |-> StaleRows, logging |-> {}]
    /\ sinceStart' = 0
    /\ torn' = torn \cup Raced(StaleRows)
    /\ UNCHANGED <<rigs, lastEvent, req, sinceGood, deleting, faults>>

Verdict == IF sweep.pc = "stale" THEN Stale ELSE Offline

\* _transition up to the save: writes the new status over whatever the row
\* holds by now.
SaveTransition(f) ==
    /\ sweep.logging = {} /\ rigs[f.rig].present
    /\ rigs' = [rigs EXCEPT ![f.rig].status = Verdict]
    /\ sweep' = [sweep EXCEPT !.todo = @ \ {f}, !.logging = {f}]
    /\ UNCHANGED <<lastEvent, req, sinceStart, sinceGood, deleting, faults,
                   torn>>

\* Mutation of LogTransition: the event claims the rig was online before.
LogFromOnline(f) ==
    /\ lastEvent' = [lastEvent EXCEPT ![f.rig] =
                       [previous |-> Online, status |-> Verdict]]
    /\ sweep' = [sweep EXCEPT !.logging = {}]
    /\ UNCHANGED <<rigs, req, sinceStart, sinceGood, deleting, faults, torn>>

\* The rest of _transition: insert the event.
LogTransition(f) ==
    /\ lastEvent' = [lastEvent EXCEPT ![f.rig] =
                       [previous |-> f.status, status |-> Verdict]]
    /\ sweep' = [sweep EXCEPT !.logging = {}]
    /\ UNCHANGED <<rigs, req, sinceStart, sinceGood, deleting, faults, torn>>

\* The first loop is over: the second query is evaluated.
StartOfflineLoop ==
    /\ sweep.pc = "stale" /\ sweep.todo = {} /\ sweep.logging = {}
    /\ sweep' = [pc |-> "offline", todo |-> OfflineRows, logging |-> {}]
    /\ torn' = torn \cup Raced(OfflineRows)
    /\ UNCHANGED <<rigs, lastEvent, req, sinceStart, sinceGood, deleting,
                   faults>>

EndSweep ==
    /\ sweep.pc = "offline" /\ sweep.todo = {} /\ sweep.logging = {}
    /\ sweep' = [sweep EXCEPT !.pc = "idle"]
    /\ sinceGood' = sinceStart
    /\ UNCHANGED <<rigs, lastEvent, req, sinceStart, deleting, faults, torn>>

StopSweep ==
    /\ sweep' = [pc |-> "idle", todo |-> {}, logging |-> {}]
    /\ UNCHANGED <<rigs, lastEvent, req, sinceStart, sinceGood, deleting>>

\* The save of a deleted row raises DatabaseError out of handle(): the rows
\* left in todo are not looked at in this run.
CrashSweep ==
    /\ sweep.logging = {} /\ \E f \in sweep.todo : ~rigs[f.rig].present
    /\ StopSweep
    /\ UNCHANGED <<faults, torn>>

\* The process is killed, perhaps between a save and its event.
KillSweep ==
    /\ sweep.pc # "idle" /\ faults < MaxFaults
    /\ StopSweep
    /\ faults' = faults + 1
    /\ torn' = torn \cup {f.rig : f \in sweep.logging}

-----------------------------------------------------------------------------
(***************************************************************************)
(* rig_delete, and the clock.                                              *)
(***************************************************************************)

DeleteEvents(r) ==
    /\ rigs[r].present /\ r \notin deleting /\ faults < MaxFaults
    /\ lastEvent' = [lastEvent EXCEPT ![r] = NoEvent]
    /\ deleting' = deleting \cup {r}
    /\ faults' = faults + 1
    /\ torn' = torn \cup {r}
    /\ UNCHANGED <<rigs, req, sweep, sinceStart, sinceGood>>

DeleteRow(r) ==
    /\ r \in deleting
    /\ rigs' = [rigs EXCEPT ![r] = Absent]
    /\ deleting' = deleting \ {r}
    /\ UNCHANGED <<lastEvent, req, sweep, sinceStart, sinceGood, faults, torn>>

\* cron starts the command at least every CronPeriod minutes, and a run ends
\* before the next is due.
Tick ==
    /\ sinceStart < CronPeriod
    /\ sinceStart' = sinceStart + 1
    /\ sinceGood' = Older(sinceGood)
    /\ rigs' = [r \in Rigs |-> IF rigs[r].heard
                               THEN [rigs[r] EXCEPT !.age = Older(@)]
                               ELSE rigs[r]]
    /\ UNCHANGED <<lastEvent, req, sweep, deleting, faults, torn>>

-----------------------------------------------------------------------------
SweepStep ==
    \/ StartSweep \/ StartOfflineLoop \/ EndSweep \/ CrashSweep
    \/ \E f \in sweep.todo : SaveTransition(f)
    \/ \E f \in sweep.logging : LogTransition(f)

Next ==
    \/ \E w \in Workers, r \in Rigs : ReceiveHeartbeat(w, r)
    \/ \E q \in req : CommitHeartbeat(q) \/ DropHeartbeat(q)
    \/ SweepStep
    \/ KillSweep
    \/ \E r \in Rigs : DeleteEvents(r) \/ DeleteRow(r)
    \/ Tick

Spec == Init /\ [][Next]_vars

\* The clock and cron go on; agents, users and workers may stop.
FairSpec == Spec /\ WF_vars(Tick) /\ WF_vars(SweepStep)

-----------------------------------------------------------------------------
(***************************************************************************)
(* Properties.                                                             *)
(***************************************************************************)

TypeOK ==
    /\ rigs \in [Rigs -> Row]
    /\ lastEvent \in [Rigs -> Event]
    /\ req \subseteq Request
    /\ sweep \in Sweep
    /\ sinceStart \in 0 .. CronPeriod /\ sinceGood \in Age
    /\ deleting \subseteq Rigs /\ faults \in 0 .. MaxFaults
    /\ torn \subseteq Rigs

Pending(r) == \E f \in sweep.todo : f.rig = r

Overdue(r, limit) == rigs[r].heard /\ rigs[r].age > limit + sinceStart

\* No silent rig slips through a running sweep.  In the stale loop an online
\* rig silent beyond StaleAfter is still to be saved, or silent enough for the
\* offline query; in the offline loop a rig silent beyond OfflineAfter is
\* offline or still to be saved, and no other online rig is overdue.  A rig the
\* stale loop is about to overwrite is not offline.  Heartbeats, deletions and
\* the clock run on meanwhile (update_rig_status.handle).
SweepMissesNoRig ==
    /\ \A r \in Rigs : rigs[r].heard => rigs[r].present
    /\ sweep.pc = "stale" =>
         /\ \A r \in Rigs : rigs[r].status = Online /\ Overdue(r, StaleAfter)
                              => Overdue(r, OfflineAfter) \/ Pending(r)
         /\ \A r \in Rigs : rigs[r].heard /\ Pending(r)
                              => rigs[r].status # Offline
    /\ sweep.pc = "offline" =>
         /\ \A r \in Rigs : rigs[r].status = Online /\ Overdue(r, StaleAfter)
                              => Overdue(r, OfflineAfter)
         /\ \A r \in Rigs : rigs[r].status # Offline /\ Overdue(r, OfflineAfter)
                              => Pending(r)

\* A rig shown online has been heard from recently: within StaleAfter minutes
\* of the start of the last sweep that ran to its end, whatever ingests,
\* deletions and failed sweeps happened since (the stale query of
\* update_rig_status and the heartbeat's reset of last_seen together).
OnlineIsRecent ==
    \A r \in Rigs : rigs[r].status = Online /\ rigs[r].heard
                      => rigs[r].age <= StaleAfter + sinceGood

\* A rig not yet offline has been heard from within OfflineAfter minutes of
\* that start (both queries of update_rig_status).
LiveIsRecent ==
    \A r \in Rigs : rigs[r].status # Offline /\ rigs[r].heard
                      => rigs[r].age <= OfflineAfter + sinceGood

\* The status shown is as old as both thresholds and the last complete sweep
\* allow, and no older (handle of update_rig_status as a whole).
StatusIsRecent == OnlineIsRecent /\ LiveIsRecent

\* The newest event of a rig says the rig's status, once the sweep has logged
\* what it saved: the uptime report reads the log, the badge reads the row.
\* Rigs whose status write overlapped another one, was interrupted or hit a
\* deletion (torn) are excepted: an event may then be missing, because the heartbeat
\* that ended another status had read the row before it was written.
EventsExplainStatus ==
    \A r \in Rigs \ torn :
        (\A f \in sweep.logging : f.rig # r)
            => lastEvent[r].status = rigs[r].status

\* Each event starts in the status the event before it ended in (torn rigs
\* excepted): the history of RigStatusEvent has no gap.
EventLogUnbroken ==
    [][\A r \in Rigs \ torn' :
          lastEvent'[r] # lastEvent[r]
              => lastEvent'[r].previous = lastEvent[r].status]_vars

\* A rig that has been heard from and then stays silent ends up offline, for
\* good, in spite of deletions of other rigs and killed sweeps.
SilentGoesOffline ==
    \A r \in Rigs :
        <>[](rigs[r].heard /\ Handling(r) = {}) => <>[](rigs[r].status = Offline)

=============================================================================

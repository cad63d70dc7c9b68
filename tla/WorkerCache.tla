------------------------------ MODULE WorkerCache ------------------------------
(***************************************************************************)
(* The caches of the dashboard, for one rig and one Gunicorn worker.  A     *)
(* worker handles one request at a time and has a cache of its own          *)
(* (LocMemCache): the rig row with its owner and status (rig_light), the    *)
(* latest snapshot (lsnap), the report, and the charts, whose keys carry a  *)
(* version that the worker's heartbeats bump.  The other workers do the     *)
(* same with caches of their own; they and the status sweep reach this one  *)
(* through the database only, so what they write invalidates nothing here   *)
(* and the time to live bounds how long it is missed.                       *)
(*                                                                          *)
(* The database is two version numbers, of the rig row and of the metrics.  *)
(***************************************************************************)
EXTENDS Integers

CONSTANTS
    LightTtl,    \* rig_light (30 s)
    SnapTtl,     \* lsnap (50 s)
    ReportTtl,   \* report (55 s)
    ChartTtl,    \* a chart (55 s)
    VersionTtl,  \* the version counter of the charts (3600 s)
    MaxRequest,  \* how long a request may take before its worker is killed (30 s)
    MaxWrites,   \* bound: writes to the rig row
    MaxBumps     \* bound: the version counter

ASSUME CacheAssumption ==
    /\ LightTtl \in Nat \ {0} /\ SnapTtl \in Nat \ {0} /\ ReportTtl \in Nat \ {0}
    /\ ChartTtl \in Nat \ {0} /\ VersionTtl \in Nat \ {0}
    /\ MaxRequest \in Nat /\ MaxWrites \in Nat /\ MaxBumps \in Nat \ {0}

VARIABLES
    rig,      \* version of the rig row in the database
    data,     \* version of the metrics in the database
    cache,    \* cache[key]: the entry under a key
    counter,  \* the chart_v entry
    request,  \* the request in hand
    own       \* history: the latest versions this process wrote

vars == <<rig, data, cache, counter, request, own>>

Key == ({"light", "snap", "report"} \X {0}) \cup ({"chart"} \X (0 .. MaxBumps))

\* An entry holds the version n it was computed from and expires when nothing
\* is left.  late counts the time for which the database has been ahead of it;
\* old says that the counter was lost since the key was formed.
Entry == [n : 0 .. MaxWrites, left : Nat, late : Nat, old : BOOLEAN]
None  == [n |-> 0, left |-> 0, late |-> 0, old |-> FALSE]

Request == [pc : {"idle", "fill", "commit", "invalidate"}, key : Key,
            n : 0 .. MaxWrites, took : 0 .. MaxRequest, late : Nat, old : BOOLEAN]
Idle == [pc |-> "idle", key |-> <<"light", 0>>, n |-> 0, took |-> 0,
         late |-> 0, old |-> FALSE]

Counter   == [n : 0 .. MaxBumps, left : 0 .. VersionTtl]
NoCounter == [n |-> 0, left |-> 0]

Empty == [key \in Key |-> None]

Init ==
    /\ rig = 0 /\ data = 0
    /\ cache = Empty /\ counter = NoCounter /\ request = Idle
    /\ own = [rig |-> 0, data |-> 0]

Ttl(key) == CASE key[1] = "light"  -> LightTtl
              [] key[1] = "snap"   -> SnapTtl
              [] key[1] = "report" -> ReportTtl
              [] key[1] = "chart"  -> ChartTtl

Source(key) == IF key[1] = "light" THEN rig ELSE data

\* A missing counter reads as version zero (ChartDataView.get).
Version == IF counter.left > 0 THEN counter.n ELSE 0

\* The keys a view of the worker looks up now.
Current == {key \in Key : key[1] = "chart" => key[2] = Version}

-----------------------------------------------------------------------------
(***************************************************************************)
(* Views: a hit changes nothing, a miss reads the database and then stores *)
(* what it read.                                                           *)
(***************************************************************************)

\* Mutation of Miss: cache.set follows a hit too and prolongs it.
MissOrHit(key) ==
    /\ request.pc = "idle" /\ key \in Current
    /\ request' = [Idle EXCEPT !.pc = "fill", !.key = key,
                     !.n = IF cache[key].left > 0 THEN cache[key].n ELSE Source(key),
                     !.late = cache[key].late]
    /\ UNCHANGED <<rig, data, cache, counter, own>>

Miss(key) ==
    /\ request.pc = "idle" /\ key \in Current /\ cache[key].left = 0
    /\ request' = [Idle EXCEPT !.pc = "fill", !.key = key, !.n = Source(key)]
    /\ UNCHANGED <<rig, data, cache, counter, own>>

Fill ==
    /\ request.pc = "fill"
    /\ cache' = [cache EXCEPT ![request.key] =
                   [n |-> request.n, left |-> Ttl(request.key),
                    late |-> request.late, old |-> request.old]]
    /\ request' = Idle
    /\ UNCHANGED <<rig, data, counter, own>>

-----------------------------------------------------------------------------
(***************************************************************************)
(* Heartbeats and edits.                                                   *)
(***************************************************************************)

\* Mutation of Dropped: an ingest calls invalidate_rig_cache only.
DroppedWithoutReport == {"light", "snap"}

\* What process_ingest and invalidate_rig_cache delete.
Dropped == {"light", "snap", "report"}
Edited  == {"light", "snap"}

Without(entries, kinds) ==
    [key \in Key |-> IF key[1] \in kinds THEN None ELSE entries[key]]

\* Mutation of Bumped: the counter that exists stays as it is.
BumpedOnce(c) == IF c.left > 0 THEN c ELSE [n |-> 1, left |-> VersionTtl]

\* cache.incr keeps the time to live; it fails on a missing counter, which
\* then starts from one.
Bumped(c) == IF c.left > 0 THEN [c EXCEPT !.n = c.n + 1]
             ELSE [n |-> 1, left |-> VersionTtl]

\* process_ingest invalidates while its transaction is still open.
Heartbeat ==
    /\ request.pc = "idle" /\ rig < MaxWrites
    /\ counter.left > 0 => counter.n < MaxBumps
    /\ cache' = Without(cache, Dropped)
    /\ counter' = Bumped(counter)
    /\ request' = [Idle EXCEPT !.pc = "commit"]
    /\ UNCHANGED <<rig, data, own>>

\* Mutation of Commit: the rig row is not saved with the metrics.
CommitWithoutRow ==
    /\ request.pc = "commit" /\ rig < MaxWrites
    /\ data' = data + 1
    /\ own' = [rig |-> rig, data |-> data']
    /\ request' = Idle
    /\ UNCHANGED <<rig, cache, counter>>

Commit ==
    /\ request.pc = "commit" /\ rig < MaxWrites
    /\ rig' = rig + 1 /\ data' = data + 1
    /\ own' = [rig |-> rig', data |-> data']
    /\ request' = Idle
    /\ UNCHANGED <<cache, counter>>

Rollback ==
    /\ request.pc = "commit"
    /\ request' = Idle
    /\ UNCHANGED <<rig, data, cache, counter, own>>

\* rig_rename, rig_toggle_tag, admin_transfer_keys and the transfer of the
\* admin site: the statement, then invalidate_rig_cache.
Edit ==
    /\ request.pc = "idle" /\ rig < MaxWrites
    /\ rig' = rig + 1
    /\ own' = [own EXCEPT !.rig = rig']
    /\ request' = [Idle EXCEPT !.pc = "invalidate"]
    /\ UNCHANGED <<data, cache, counter>>

Invalidate ==
    /\ request.pc = "invalidate"
    /\ cache' = Without(cache, Edited)
    /\ request' = Idle
    /\ UNCHANGED <<rig, data, counter, own>>

\* The other workers: a heartbeat or an edit; and update_rig_status, a process
\* of its own, whose invalidate_rig_cache reaches no worker.
Elsewhere ==
    /\ rig < MaxWrites /\ rig' = rig + 1
    /\ data' \in {data, data + 1}
    /\ UNCHANGED <<cache, counter, request, own>>

-----------------------------------------------------------------------------
(***************************************************************************)
(* Time, eviction and restarts.                                            *)
(***************************************************************************)

\* The counter is gone: its charts are from before.
Orphaned(entries) ==
    [key \in Key |-> IF key[1] = "chart" /\ entries[key].left > 0
                     THEN [entries[key] EXCEPT !.old = TRUE] ELSE entries[key]]

\* An entry, one tick on.
Aged(key, e) == IF e.left <= 1 THEN None
                ELSE [e EXCEPT !.left = e.left - 1,
                               !.late = IF e.n < Source(key) THEN e.late + 1 ELSE e.late]

Later == [key \in Key |-> Aged(key, cache[key])]

LaterRequest ==
    IF request.pc = "idle" THEN request
    ELSE [request EXCEPT !.took = request.took + 1,
                         !.late = IF request.pc = "fill" /\ request.n < Source(request.key)
                                  THEN request.late + 1 ELSE request.late]

Tick ==
    /\ request.pc # "idle" => request.took < MaxRequest
    /\ cache' = IF counter.left = 1 THEN Orphaned(Later) ELSE Later
    /\ counter' = IF counter.left <= 1 THEN NoCounter
                  ELSE [counter EXCEPT !.left = counter.left - 1]
    /\ request' = IF counter.left = 1 /\ request.key[1] = "chart"
                  THEN [LaterRequest EXCEPT !.old = TRUE] ELSE LaterRequest
    /\ UNCHANGED <<rig, data, own>>

\* LocMemCache makes room (MAX_ENTRIES).
Evict ==
    /\ request.pc = "idle"
    /\ \/ \E key \in Key :
            /\ cache[key].left > 0
            /\ cache' = [cache EXCEPT ![key] = None]
            /\ UNCHANGED counter
       \/ /\ counter.left > 0
          /\ counter' = NoCounter
          /\ cache' = Orphaned(cache)
    /\ UNCHANGED <<rig, data, request, own>>

\* Gunicorn kills or replaces a worker; the cache goes with the process.
Restart ==
    /\ cache' = Empty
    /\ counter' = NoCounter
    /\ request' = Idle
    /\ own' = [rig |-> 0, data |-> 0]
    /\ UNCHANGED <<rig, data>>

Next ==
    \/ \E key \in Key : Miss(key)
    \/ Fill \/ Heartbeat \/ Commit \/ Rollback \/ Edit \/ Invalidate
    \/ Elsewhere \/ Tick \/ Evict \/ Restart

Spec == Init /\ [][Next]_vars

-----------------------------------------------------------------------------
(***************************************************************************)
(* Properties                                                              *)
(***************************************************************************)

\* Every variable keeps its type; the metrics are written with the rig row.
TypeOK ==
    /\ rig \in 0 .. MaxWrites /\ data \in 0 .. rig
    /\ cache \in [Key -> Entry]
    /\ counter \in Counter
    /\ request \in Request
    /\ own \in [rig : 0 .. MaxWrites, data : 0 .. MaxWrites]

\* No view shows, and no permission is decided from, something the database
\* has been ahead of for longer than the time to live and one request: the
\* previous owner of a rig is refused, and a status that the sweep changed is
\* seen, at most that much later ("max 30s staleness", _RIG_CACHE_TTL_S).
BoundedStaleness ==
    \A key \in Key :
      cache[key].left > 0 => cache[key].late <= Ttl(key) + MaxRequest

\* A worker that has answered a heartbeat or an edit shows nothing older than
\* that from its rig, snapshot and report caches (process_ingest and
\* invalidate_rig_cache drop them before the answer).
OwnWritesSeen ==
    request.pc \in {"idle", "fill"} =>
      \A key \in Key : key[1] # "chart" /\ cache[key].left > 0 =>
        cache[key].n >= IF key[1] = "light" THEN own.rig ELSE own.data

\* Nor from its charts, as long as the counter of the charts is not lost.
ChartsFollowCounter ==
    request.pc \in {"idle", "fill"} =>
      \A key \in Current :
        /\ key[1] = "chart" /\ cache[key].left > 0 /\ ~cache[key].old
        => cache[key].n >= own.data

===============================================================================

------------------------------ MODULE Compaction ------------------------------
(***************************************************************************)
(* The nightly maintenance of one rig's time series: compact_data merges    *)
(* the rows of old buckets into one row per device, cleanup_old_data then   *)
(* deletes what is past the retention.  Both run while agents report,       *)
(* dashboards delete rigs and the machine may go down.                      *)
(*                                                                          *)
(* A row is not its values but the readings it stands for (covers): a sum,  *)
(* a maximum or a latest value over a bucket is right exactly if the        *)
(* covers of the rows partition the readings.                               *)
(*                                                                          *)
(* Agents stamp readings with microseconds, compacted rows carry the start  *)
(* of their bucket, and the two never coincide: readings are taken at odd   *)
(* instants, buckets start at even ones.                                    *)
(***************************************************************************)
EXTENDS Integers, FiniteSets

CONSTANTS
    Children,   \* number of child tables (GPU, storage, network), a device each
    Bucket2,    \* length of a tier 2 bucket (15 minutes)
    Bucket3,    \* length of a tier 3 bucket (one hour)
    Tier1,      \* age up to which rows stay raw (1 day)
    Tier2,      \* age up to which buckets have length Bucket2 (7 days)
    Tier3,      \* retention (31 days)
    Period,     \* time between two starts of the maintenance (1 day)
    BatchSize,  \* rows a DELETE of cleanup_old_data removes at most
    MaxTime,    \* bound: the clock
    MaxRun,     \* bound: how long each of the two commands runs
    MaxReports, \* bound: reports in a behaviour
    MaxFaults   \* bound: kills, failing statements and rig deletions

ASSUME CompactionAssumption ==
    /\ Children \in Nat \ {0} /\ BatchSize \in Nat \ {0}
    /\ Bucket2 \in Nat \ {0} /\ Bucket3 \in Nat \ {0}
    /\ \A t \in 0 .. MaxTime : t % Bucket3 = 0 => t % Bucket2 = 0
    /\ \A t \in 0 .. MaxTime : t % Bucket2 = 0 => t % 2 = 0
    /\ Tier1 \in Nat /\ Tier2 \in Nat /\ Tier3 \in Nat
    /\ Tier1 < Tier2 /\ Tier2 < Tier3 /\ Period \in Nat \ {0}
    /\ MaxTime \in Nat /\ MaxRun \in Nat /\ MaxReports \in Nat /\ MaxFaults \in Nat

VARIABLES
    now,      \* the clock
    rows,     \* the rows of the time series tables
    job,      \* the running maintenance
    reports,  \* how many reports there were
    faults,   \* how many kills, failures and deletions there were
    owed,     \* history: readings that must still be stored
    lastGood  \* history: the start of the last compaction, if it went through

vars == <<now, rows, job, reports, faults, owed, lastGood>>

\* Tables 1 .. Children hold child rows; MetricSnapshot comes last in both
\* COMPACT_TABLES and CLEANUP_TABLES.
Snapshots == Children + 1
Tables    == 1 .. Snapshots
Instant   == 0 .. MaxTime

\* A snapshot row is identified by ref, a child row points to its snapshot
\* with it.  Compacted snapshots get new ids that nothing points to.
NewId == -1
Row == [table : Tables, ts : Instant, ref : Instant \cup {NewId},
        covers : SUBSET Instant]

Job == [pc : {"idle", "read", "swap", "clean"}, tier : {2, 3},
        table : Tables, from : Nat, start : Instant, made : SUBSET Row,
        skipped : BOOLEAN]

Idle  == [pc |-> "idle", tier |-> 2, table |-> 1, from |-> 0, start |-> 0,
          made |-> {}, skipped |-> FALSE]
Never == -1

Of(tb)        == {r \in rows : r.table = tb}
Referenced(s) == \E c \in rows : c.table # Snapshots /\ c.ref = s.ref

Init ==
    /\ now = 0 /\ rows = {} /\ job = Idle
    /\ reports = 0 /\ faults = 0 /\ owed = {} /\ lastGood = Never

-----------------------------------------------------------------------------
(***************************************************************************)
(* What goes on around the maintenance.                                    *)
(***************************************************************************)

\* process_ingest: a snapshot, and a row for each device in the payload.
Report(devices) ==
    /\ now % 2 = 1 /\ reports < MaxReports
    /\ \A s \in Of(Snapshots) : s.ts # now
    /\ rows' = rows \cup {[table |-> tb, ts |-> now, ref |-> now, covers |-> {now}] :
                            tb \in devices \cup {Snapshots}}
    /\ owed' = owed \cup ((devices \cup {Snapshots}) \X {now})
    /\ reports' = reports + 1
    /\ UNCHANGED <<now, job, faults, lastGood>>

\* rig_delete: its first statement deletes the snapshots and, by the cascade,
\* the child rows, whatever the maintenance is doing.
DeleteRig ==
    /\ faults < MaxFaults /\ rows # {}
    /\ rows' = {} /\ owed' = {} /\ faults' = faults + 1
    /\ UNCHANGED <<now, job, reports, lastGood>>

\* A reading is owed until a row that holds it may be past the retention: a
\* row is as old as the start of its bucket.
Tick ==
    /\ now < MaxTime /\ (job.pc # "idle" => now < job.start + MaxRun)
    /\ now' = now + 1
    /\ owed' = {x \in owed : x[2] >= now' - Tier3 + Bucket3 - 1}
    /\ UNCHANGED <<rows, job, reports, faults, lastGood>>

-----------------------------------------------------------------------------
(***************************************************************************)
(* compact_data: tier 2, then tier 3; in each the child tables before the  *)
(* snapshots; in each table one transaction per bucket, oldest first.      *)
(***************************************************************************)

Bucket(tier) == IF tier = 2 THEN Bucket2 ELSE Bucket3
OldestAge(tier) == IF tier = 2 THEN Tier2 ELSE Tier3
YoungestAge(tier) == IF tier = 2 THEN Tier1 ELSE Tier2
Starts(tier) == {lo \in Instant : lo % Bucket(tier) = 0}

\* The first bucket of a run begins before the window (_round_to_bucket), the
\* last one ends with it.
WindowStart == job.start - OldestAge(job.tier)
WindowEnd   == job.start - YoungestAge(job.tier)
FirstStart  == WindowStart - Bucket(job.tier) + 1

\* Mutation of BatchEnd: the window's end does not cut the last bucket.
BatchEndWhole(lo) == lo + Bucket(job.tier)

BatchEnd(lo) == IF lo + Bucket(job.tier) < WindowEnd THEN lo + Bucket(job.tier)
                ELSE WindowEnd

\* Mutation of Eligible: the foreign keys of the children are not looked at.
EligibleNoFk(tb, lo) == {r \in Of(tb) : lo <= r.ts /\ r.ts < BatchEnd(lo)}

\* The rows a batch replaces; a snapshot some child points to stays.
Eligible(tb, lo) ==
    {r \in Of(tb) : /\ lo <= r.ts /\ r.ts < BatchEnd(lo)
                    /\ tb = Snapshots => ~Referenced(r)}

\* Mutation of Batches: a bucket that ends where the window does is left out.
BatchesStrict == {lo \in Starts(job.tier) : /\ lo >= job.from /\ lo >= FirstStart
                                            /\ lo + Bucket(job.tier) < WindowEnd
                                            /\ Eligible(job.table, lo) # {}}

\* A table that has no row in the window itself is passed over.
Counted == \E r \in Of(job.table) : WindowStart <= r.ts /\ r.ts < WindowEnd

Batches == {lo \in Starts(job.tier) : /\ lo >= job.from /\ lo >= FirstStart
                                      /\ lo < WindowEnd
                                      /\ Eligible(job.table, lo) # {}
                                      /\ job.from = 0 => Counted}

\* Newest of a set of rows, the one whose static fields the query takes.
Newest(r, set) == r \in set /\ \A q \in set : q.ts <= r.ts

\* The aggregation query: bucket_ts, static fields of the newest row.
Compacted(tb, lo, set, newest) ==
    [table |-> tb, ts |-> lo,
     ref |-> IF tb = Snapshots THEN NewId ELSE newest.ref,
     covers |-> UNION {r.covers : r \in set}]

\* The crontab entry of data_retention.sh; a run may also not take place.
StartMaintenance ==
    /\ job.pc = "idle" /\ now % Period = 0
    /\ job' = [Idle EXCEPT !.pc = "read", !.start = now]
    /\ lastGood' = Never
    /\ UNCHANGED <<now, rows, reports, faults, owed>>

\* CREATE TEMP TABLE ... AS <aggregation of the first bucket that has rows>.
ReadBatch ==
    /\ job.pc = "read"
    /\ \E lo \in Batches : \E newest \in Eligible(job.table, lo) :
         /\ \A other \in Batches : lo <= other
         /\ Newest(newest, Eligible(job.table, lo))
         /\ job' = [job EXCEPT !.pc = "swap", !.from = lo,
                      !.made = {Compacted(job.table, lo,
                                          Eligible(job.table, lo), newest)}]
    /\ UNCHANGED <<now, rows, reports, faults, owed, lastGood>>

\* The constraints of the database: unique (rig, time, device), and the
\* foreign key of a child row.
Consistent(set) ==
    /\ \A r, q \in set : r.table = q.table /\ r.ts = q.ts => r = q
    /\ \A c \in set : c.table # Snapshots =>
         \E s \in set : s.table = Snapshots /\ s.ref = c.ref

\* Mutations of AfterSwap: the raw rows stay; the DELETE takes the bucket to
\* its end although the SELECT stopped where the window ends.
AfterSwapNoDelete == rows \cup job.made
AfterSwapWhole ==
    (rows \ {r \in Of(job.table) : /\ job.from <= r.ts
                                   /\ r.ts < job.from + Bucket(job.tier)
                                   /\ job.table = Snapshots => ~Referenced(r)})
    \cup job.made

AfterSwap == (rows \ Eligible(job.table, job.from)) \cup job.made

\* cleanup_old_data takes its own time; it follows a compaction that went
\* through and one that failed alike (|| true in data_retention.sh).
Cleaning == [Idle EXCEPT !.pc = "clean", !.start = now]

\* DELETE the bucket, INSERT from the temporary table, COMMIT.
SwapBatch ==
    /\ job.pc = "swap"
    /\ IF Consistent(AfterSwap)
       THEN /\ rows' = AfterSwap
            /\ job' = [job EXCEPT !.pc = "read", !.made = {},
                                  !.from = job.from + Bucket(job.tier)]
       ELSE rows' = rows /\ job' = Cleaning
    /\ UNCHANGED <<now, reports, faults, owed, lastGood>>

NextTable ==
    /\ job.pc = "read" /\ Batches = {}
    /\ \/ /\ job.table < Snapshots
          /\ job' = [job EXCEPT !.table = job.table + 1, !.from = 0]
          /\ UNCHANGED lastGood
       \/ /\ job.table = Snapshots /\ job.tier = 2
          /\ job' = [job EXCEPT !.tier = 3, !.table = 1, !.from = 0]
          /\ UNCHANGED lastGood
       \/ /\ job.table = Snapshots /\ job.tier = 3
          /\ job' = Cleaning
          /\ lastGood' = job.start
    /\ UNCHANGED <<now, rows, reports, faults, owed>>

-----------------------------------------------------------------------------
(***************************************************************************)
(* cleanup_old_data: children first, in batches.  An error is logged and   *)
(* the next table follows.                                                 *)
(***************************************************************************)

Cutoff   == job.start - Tier3
Old(tb)  == {r \in Of(tb) : r.ts < Cutoff}

\* Mutation of CleanNext: the loop runs past the last table.
CleanNextPast == [job EXCEPT !.table = job.table + 1]

CleanNext == IF job.table < Snapshots
             THEN [job EXCEPT !.table = job.table + 1] ELSE Idle

DeleteOld ==
    /\ job.pc = "clean"
    /\ \E batch \in SUBSET Old(job.table) :
         /\ \/ Cardinality(batch) = BatchSize
            \/ batch = Old(job.table) /\ Cardinality(batch) < BatchSize
         /\ IF Consistent(rows \ batch)
            THEN /\ rows' = rows \ batch
                 /\ job' = IF Cardinality(batch) = BatchSize THEN job ELSE CleanNext
            ELSE rows' = rows /\ job' = CleanNext
    /\ UNCHANGED <<now, reports, faults, owed, lastGood>>

\* A statement fails: compact_data stops, cleanup_old_data logs the error and
\* goes on with the next table.
Fail ==
    /\ job.pc # "idle" /\ faults < MaxFaults
    /\ job' = IF job.pc = "clean"
              THEN IF job.table < Snapshots THEN [CleanNext EXCEPT !.skipped = TRUE]
                                            ELSE Idle
              ELSE Cleaning
    /\ faults' = faults + 1
    /\ UNCHANGED <<now, rows, reports, owed, lastGood>>

\* The machine goes down, or the commands are killed; the open transaction
\* is rolled back.
Kill ==
    /\ job.pc # "idle" /\ faults < MaxFaults
    /\ job' = Idle /\ faults' = faults + 1
    /\ UNCHANGED <<now, rows, reports, owed, lastGood>>

Next ==
    \/ \E devices \in SUBSET (1 .. Children) : Report(devices)
    \/ DeleteRig \/ Tick
    \/ StartMaintenance \/ ReadBatch \/ SwapBatch \/ NextTable
    \/ DeleteOld \/ Fail \/ Kill

Spec == Init /\ [][Next]_vars

-----------------------------------------------------------------------------
(***************************************************************************)
(* Properties                                                              *)
(***************************************************************************)

\* Every variable keeps its type.
TypeOK ==
    /\ now \in Instant
    /\ rows \subseteq Row
    /\ job \in Job
    /\ reports \in 0 .. MaxReports /\ faults \in 0 .. MaxFaults
    /\ owed \subseteq Tables \X Instant
    /\ lastGood \in Instant \cup {Never}

\* The database refuses no statement of the maintenance, unless the rig was
\* deleted in the middle of a batch or an earlier table was skipped.
\* Compaction dates a child row back to the start of its bucket and leaves the
\* snapshot it points to where it is, so the children of an old snapshot are
\* old too and went before it (_compact_table's NOT EXISTS, the order of
\* CLEANUP_TABLES); and nothing is inserted where a row is ("no overlapping
\* timestamps").
NeverRefused ==
    /\ job.pc = "swap" /\ Eligible(job.table, job.from) # {} => Consistent(AfterSwap)
    /\ job.pc = "clean" /\ ~job.skipped => Consistent(rows \ Old(job.table))

\* Each reading is in one row of its table, however often kills, partial
\* buckets and later runs have merged its bucket again: the SUM columns count
\* nothing twice.  (COMPACT_TABLES, sum aggregates.)
CountedOnce ==
    \A r, q \in rows : r.table = q.table /\ r.covers \cap q.covers # {} => r = q

\* Nothing younger than the retention is lost, give or take a bucket: not by
\* a kill between two statements, not by a failed batch, not by the cleanup
\* taking a row for its bucket's start (the ATOMIC BLOCK of _compact_table).
NothingLost ==
    \A x \in owed : \E r \in Of(x[1]) : x[2] \in r.covers

BucketOf(t, size) == t - (t % size)

\* Charts of the last day find raw rows, charts of the last week rows of one
\* tier 2 bucket (ChartDataView reads rows as compact_data left them): a row
\* that merges readings has none from the last day, and one that spans more
\* than a tier 2 bucket has none from the last week, save the bucket the
\* window's end cuts.
ResolutionKept ==
    \A r \in rows : \A t, u \in r.covers :
      /\ t # u => t < now - Tier1
      /\ BucketOf(t, Bucket2) # BucketOf(u, Bucket2) => t < now - Tier2 + Bucket2

\* The rows of a bucket the compaction may replace.
Crowd(tb, lo, size) == {r \in Of(tb) : /\ lo <= r.ts /\ r.ts < lo + size
                                       /\ tb = Snapshots => ~Referenced(r)}

\* Once a compaction has gone through and until the next one starts, each
\* device has one row in every bucket that lies in the window, and so has the
\* snapshot table but for the snapshots children point to, until the cleanup
\* reaches the bucket and the children in it.
BucketsMerged ==
    lastGood # Never =>
      \A tb \in Tables, tier \in {2, 3} : \A lo \in Starts(tier) :
        /\ lo >= lastGood - OldestAge(tier)
        /\ lo + Bucket(tier) <= lastGood - YoungestAge(tier)
        /\ BucketOf(lo, Bucket3) >= now - Tier3
        => Cardinality(Crowd(tb, lo, Bucket(tier))) <= 1

\* Each reading that must be there is in one row of its table.
StoredExactly == CountedOnce /\ NothingLost

ReadingsOf(set) == UNION {{r.table} \X r.covers : r \in set}

Kept == INSTANCE Readings WITH
    Table <- Tables, RawFor <- Tier1, Retention <- Tier3, Span <- Bucket3,
    stored <- ReadingsOf(rows), inHand <- ReadingsOf(job.made)

\* Seen as a set of readings, the tables do what Readings promises: they gain
\* the readings of a report, lose those past the retention or all of a deleted
\* rig, and get none back but the batch that was in hand during a deletion
\* (the temporary table of _compact_table outlives rig_delete).
MergingUnseen == Kept!Spec

\* Rows are merged when their age says so, neither before it nor never (the
\* windows of _compact_table with the two tiers of COMPACT_TABLES).
MergedByAge == ResolutionKept /\ BucketsMerged
===============================================================================

--------------------------------- MODULE Charts --------------------------------
(***************************************************************************)
(* The charts of one field of a rig (ChartDataView) over rows that          *)
(* compact_data has merged: a chart takes the bucket length of the tier its *)
(* range reaches back to, and aggregates what rows it finds.  A run of      *)
(* compact_data is one step here; Compaction has its transactions, and what *)
(* may happen between them.                                                 *)
(*                                                                          *)
(* A row carries what the aggregates keep of its readings: their average,   *)
(* their sum and their maximum, the first two rounded down.                 *)
(***************************************************************************)
EXTENDS Statistics

CONSTANTS
    Bucket,      \* Bucket[tier]: the bucket length of tier 1, 2 and 3 (1, 15, 60 min)
    Age,         \* Age[tier]: the age up to which the tier goes (1, 7, 31 days)
    Values,      \* what a reading may be
    MaxTime,     \* bound: the clock
    MaxReadings, \* bound: heartbeats
    MaxRuns      \* bound: runs of compact_data

Tier == 1 .. 3

ASSUME ChartAssumption ==
    /\ Bucket \in [Tier -> Nat \ {0}] /\ Age \in [Tier -> Nat \ {0}]
    /\ Bucket[2] % Bucket[1] = 0 /\ Bucket[3] % Bucket[2] = 0
    /\ \A tier \in Tier : Age[tier] % Bucket[tier] = 0
    /\ Age[1] <= Age[2]
    /\ Values \subseteq Nat

VARIABLES
    clock,
    table,     \* the rows of a device in a child table
    snapshots, \* the rows of MetricSnapshot
    readings,  \* history: what was measured, and when
    runs       \* runs of compact_data so far

ctVars == <<clock, table, snapshots, readings, runs>>

CInit == clock = 0 /\ table = {} /\ snapshots = {} /\ readings = {} /\ runs = 0

Raw(r) == [ts |-> r.at, of |-> {r.at}, avg |-> r.v, sum |-> r.v, max |-> r.v]

\* A heartbeat leaves a row in both tables (process_ingest).
Measure(v) ==
    /\ clock < MaxTime /\ Cardinality(readings) < MaxReadings
    /\ readings' = readings \cup {[at |-> clock, v |-> v]}
    /\ table' = table \cup {Raw([at |-> clock, v |-> v])}
    /\ snapshots' = snapshots \cup {Raw([at |-> clock, v |-> v])}
    /\ clock' = clock + 1
    /\ UNCHANGED runs

Pass ==
    /\ clock < MaxTime
    /\ clock' = clock + 1
    /\ UNCHANGED <<table, snapshots, readings, runs>>

-----------------------------------------------------------------------------
(***************************************************************************)
(* compact_data                                                            *)
(***************************************************************************)
Floor(t, length) == length * (t \div length)

Sum(R)     == MapThenSumSet(LAMBDA r : r.sum, R)
Average(R) == MapThenSumSet(LAMBDA r : r.avg, R) \div Cardinality(R)
Highest(R) == Max({r.max : r \in R})

\* Mutant: the average of a delta is kept instead of its sum.
MergedAverage(R, start) ==
    [ts |-> start, of |-> UNION {r.of : r \in R}, avg |-> Average(R), sum |-> Average(R),
     max |-> Highest(R)]

\* Mutant: the flag is the one of the latest row.
MergedLast(R, start) ==
    [ts |-> start, of |-> UNION {r.of : r \in R}, avg |-> Average(R), sum |-> Sum(R),
     max |-> (CHOOSE r \in R : \A o \in R : o.ts <= r.ts).max]

\* _build_compaction_query: AVG, SUM and MAX over the rows of a bucket.
Merged(R, start) ==
    [ts |-> start, of |-> UNION {r.of : r \in R}, avg |-> Average(R), sum |-> Sum(R),
     max |-> Highest(R)]

\* Mutant: the row is put at the end of its bucket.
BatchesLate(tier) ==
    LET from == Floor(clock - Age[tier], Bucket[tier])
        end  == clock - Age[tier - 1]
    IN {[start |-> b + Bucket[tier] - 1, from |-> b, end |-> Min({b + Bucket[tier], end})] :
          b \in {b \in from .. end - 1 : b % Bucket[tier] = 0}}

\* _compact_table: the batches of a tier, of which the last may be cut off.
Batches(tier) ==
    LET from == Floor(clock - Age[tier], Bucket[tier])
        end  == clock - Age[tier - 1]
    IN {[start |-> b, from |-> b, end |-> Min({b + Bucket[tier], end})] :
          b \in {b \in from .. end - 1 : b % Bucket[tier] = 0}}

In(R, batch) == {r \in R : batch.from <= r.ts /\ r.ts < batch.end}

\* The row of a child table keeps the snapshot_id of its latest reading, and
\* NOT EXISTS leaves the snapshot it points to alone.
Held(batch) ==
    LET measured == UNION {r.of : r \in In(table, batch)}
    IN {s \in snapshots : measured # {} /\ s.of = {Max(measured)}}

CompactTable(tier) ==
    LET full == {b \in Batches(tier) : In(table, b) # {}}
    IN (table \ UNION {In(table, b) : b \in full})
          \cup {Merged(In(table, b), b.start) : b \in full}

CompactSnapshots(tier) ==
    LET Free(b) == In(snapshots, b) \ Held(b)
        full    == {b \in Batches(tier) : Free(b) # {}}
    IN (snapshots \ UNION {Free(b) : b \in full}) \cup {Merged(Free(b), b.start) : b \in full}

\* compact_data --phase: the child tables before the snapshots.
Compact(tier) ==
    /\ runs < MaxRuns
    /\ runs' = runs + 1
    /\ table' = CompactTable(tier)
    /\ snapshots' = CompactSnapshots(tier)
    /\ UNCHANGED <<clock, readings>>

CNext == Pass \/ (\E v \in Values : Measure(v)) \/ Compact(2) \/ Compact(3)

CSpec == CInit /\ [][CNext]_ctVars

-----------------------------------------------------------------------------
(***************************************************************************)
(* ChartDataView: the chart whose range is the age of a tier.              *)
(***************************************************************************)

\* _build_buckets
ChartEnd(tier)   == Floor(clock, Bucket[tier])
ChartStart(tier) == ChartEnd(tier) - Age[tier]
Indices(tier)    == 0 .. Age[tier] \div Bucket[tier] - 1

\* The oldest bucket of a chart lies across the age at which the next tier
\* merges, and may have lost readings to a bucket that starts before the chart.
WholeIndices(tier) == Indices(tier) \ {0}

\* _bucket_index of the truncated timestamp
BucketIndex(tier, ts) == (Floor(ts, Bucket[tier]) - ChartStart(tier)) \div Bucket[tier]

\* _read_prebucketed: the rows that a bucket of the chart aggregates.
Group(tier, R, i) ==
    {r \in R : /\ ChartStart(tier) <= r.ts /\ r.ts <= ChartEnd(tier)
               /\ BucketIndex(tier, r.ts) = i}

Series(tier, R, agg_func) ==
    [i \in Indices(tier) |->
        LET group == Group(tier, R, i)
        IN IF group = {} THEN None
           ELSE CASE agg_func = "sum" -> Sum(group)
                  [] agg_func = "avg" -> Average(group)]

\* The handlers: one series for each device, of which the model has one.
GpuChart(tier)      == Series(tier, table, "avg")
DiskUsageChart(tier) == Series(tier, table, "avg")
DiskDeltaChart(tier) == Series(tier, table, "sum")
NetworkChart(tier)  == Series(tier, table, "sum")
SnapshotChart(tier) == Series(tier, snapshots, "avg")
ErrorChart(tier)    == [i \in Indices(tier) |-> Sum(Group(tier, snapshots, i))]
JobChart(tier) ==
    [i \in Indices(tier) |-> IF Group(tier, snapshots, i) = {} THEN 0
                             ELSE Highest(Group(tier, snapshots, i))]

\* Load, uptime and the cores: of the rows of a bucket, which come in any order,
\* the last one is shown.
CoreChart(tier) == [i \in Indices(tier) |-> {r.avg : r \in Group(tier, snapshots, i)}]

-----------------------------------------------------------------------------
\* What was measured in the time that a bucket of the chart stands for.
Measured(tier, i) ==
    LET from == ChartStart(tier) + i * Bucket[tier]
    IN {r.v : r \in {r \in readings : r.at \in from .. from + Bucket[tier] - 1}}
Total(tier, i) ==
    LET from == ChartStart(tier) + i * Bucket[tier]
    IN MapThenSumSet(LAMBDA r : r.v, {r \in readings : r.at \in from .. from + Bucket[tier] - 1})

\* A chart of sums shows in each bucket but the oldest all that was measured then
\* and nothing else, for every range and however often the rows were merged
\* before, also in parts (disk and network deltas, error_count).
ChartTotalsAreKept ==
    \A tier \in Tier :
        /\ \A i \in WholeIndices(tier) : ErrorChart(tier)[i] = Total(tier, i)
        /\ \A chart \in {NetworkChart(tier), DiskDeltaChart(tier)} :
              \A i \in WholeIndices(tier) :
                  chart[i] = IF Measured(tier, i) = {} THEN None ELSE Total(tier, i)

\* A chart shows an active job in a bucket exactly if a heartbeat of that time
\* reported one (MAX over has_active_job in both places).
ActiveJobsAreShown ==
    \A tier \in Tier : \A i \in WholeIndices(tier) :
        JobChart(tier)[i] > 0 <=> \E v \in Measured(tier, i) : v > 0

\* An average of averages is not the average, but it stays between the least
\* and the greatest reading of its time, and it is there if there is one.  So
\* does the one row that the charts of the load and of the cores show.
AveragesStayInRange ==
    \A tier \in Tier : \A i \in WholeIndices(tier) :
        LET vs      == Measured(tier, i)
            shown    == {GpuChart(tier)[i], DiskUsageChart(tier)[i], SnapshotChart(tier)[i]}
            possible == IF vs = {} THEN {None} ELSE Min(vs) .. Max(vs)
        IN /\ shown \subseteq possible
           /\ CoreChart(tier)[i] \subseteq possible
           /\ CoreChart(tier)[i] = {} <=> vs = {}

\* Whatever compact_data has merged before a chart is opened, it shows the
\* readings of its buckets (ChartDataView and _build_compaction_query).
ChartsKeepTheReadings == ChartTotalsAreKept /\ ActiveJobsAreShown /\ AveragesStayInRange
================================================================================

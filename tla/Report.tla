--------------------------------- MODULE Report --------------------------------
(***************************************************************************)
(* The report of one rig with one GPU (_build_report_context): the rows its *)
(* heartbeats leave, and the totals that the loops of the report make of    *)
(* them.  A row of GPUMetric and the row of MetricSnapshot of a heartbeat   *)
(* have the same timestamp; a heartbeat whose GPU collection failed has a   *)
(* snapshot only.  The report may be opened at any time.                    *)
(***************************************************************************)
EXTENDS Statistics

CONSTANTS
    Window,      \* range_hours, in minutes
    MaxGap,     \* GPU_TEMPERATURE_MAX_SAMPLE_GAP_S, and the cap of active time
    Threshold,  \* GPU_TEMPERATURE_THRESHOLD_C
    Busy,       \* utilization from which a GPU counts as active (5 %)
    Beats,      \* what a heartbeat may bring: gpu, a reading or NoGpu, and job, has_active_job
    NoGpu,
    Gaps,       \* times between two heartbeats
    MaxSamples, \* bound: heartbeats
    MaxBoots    \* bound: restarts of the rig

\* NVML's values: a temperature and a power without sign, a utilization in percent.
GpuReading == [temp : Nat \cup {None}, util : 0 .. 100 \cup {None}, power : Nat \cup {None}]

ASSUME ReportAssumption ==
    /\ MaxGap \in Nat \ {0} /\ Window \in Nat \ {0} /\ Gaps \subseteq Nat \ {0}
    /\ MaxSamples \in Nat /\ MaxBoots \in Nat
    /\ Threshold \in Int /\ Busy \in Int /\ None \notin Int
    /\ Beats \subseteq [gpu : GpuReading \cup {NoGpu}, job : {0, 1, None}]

VARIABLES
    now,
    gpu,    \* the rows of GPUMetric, in the order of time
    snaps,  \* the rows of MetricSnapshot
    up,     \* how long the rig has been up
    boots   \* history: how long it was up before each restart

rpVars == <<now, gpu, snaps, up, boots>>

RInit == now = 0 /\ gpu = <<>> /\ snaps = <<>> /\ up = 0 /\ boots = <<>>

\* A heartbeat a while after the last one.
Heartbeat(d, beat) ==
    /\ Len(snaps) < MaxSamples
    /\ now' = now + d /\ up' = up + d
    /\ gpu' = IF beat.gpu = NoGpu THEN gpu
              ELSE Append(gpu, [at |-> now', temp |-> beat.gpu.temp, util |-> beat.gpu.util,
                                power |-> beat.gpu.power])
    /\ snaps' = Append(snaps, [at |-> now', job |-> beat.job,
                               uptime |-> IF beat.gpu = NoGpu THEN None ELSE up'])
    /\ UNCHANGED boots

Restart ==
    /\ Len(boots) < MaxBoots /\ up > 0
    /\ boots' = Append(boots, up) /\ up' = 0
    /\ UNCHANGED <<now, gpu, snaps>>

RNext == Restart \/ \E d \in Gaps, beat \in Beats : Heartbeat(d, beat)

RSpec == RInit /\ [][RNext]_rpVars

-----------------------------------------------------------------------------
(***************************************************************************)
(* base_filter, and what the loops over its rows compute.                  *)
(***************************************************************************)

\* The rows are in the order of time: those of the window come last.
InWindow(rows) ==
    SubSeq(rows, 1 + Cardinality({i \in DOMAIN rows : rows[i].at < now - Window}), Len(rows))
GpuRaw == InWindow(gpu)
Snaps  == InWindow(snaps)

Gap(rows, i)    == rows[i + 1].at - rows[i].at
Joined(rows, i) == /\ i \in 1 .. Len(rows) - 1
                   /\ rows[i].temp # None /\ rows[i + 1].temp # None
                   /\ Gap(rows, i) \in 1 .. MaxGap
Hot(row) == row.temp # None /\ row.temp > Threshold

\* Mutant: a long gap does not end an event.
ExceedanceStepThrough(rows, s, i) ==
    IF rows[i].temp = None THEN [s EXCEPT !.above = FALSE, !.current = 0]
    ELSE LET starts == Hot(rows[i]) /\ ~s.above
             span   == IF Joined(rows, i) THEN Gap(rows, i) ELSE 0
             hot    == IF Hot(rows[i]) THEN span ELSE 0
             event  == (IF starts THEN 0 ELSE s.current) + hot
         IN [events   |-> s.events + (IF starts THEN 1 ELSE 0),
             observed |-> s.observed + span,
             exceeded |-> s.exceeded + hot,
             current  |-> event,
             longest  |-> Max({s.longest, event}),
             above    |-> Hot(rows[i])]

\* A turn of the loop over the temperatures: a reading that is missing and a
\* gap that is too long end an event.
ExceedanceStep(rows, s, i) ==
    IF rows[i].temp = None THEN [s EXCEPT !.above = FALSE, !.current = 0]
    ELSE LET broken == i > 1 /\ ~Joined(rows, i - 1)
             starts == Hot(rows[i]) /\ (broken \/ ~s.above)
             span   == IF Joined(rows, i) THEN Gap(rows, i) ELSE 0
             hot    == IF Hot(rows[i]) THEN span ELSE 0
             event  == (IF starts \/ broken THEN 0 ELSE s.current) + hot
         IN [events   |-> s.events + (IF starts THEN 1 ELSE 0),
             observed |-> s.observed + span,
             exceeded |-> s.exceeded + hot,
             current  |-> event,
             longest  |-> Max({s.longest, event}),
             above    |-> Hot(rows[i])]

Exceedance(rows) ==
    LET Step(s, i) == ExceedanceStep(rows, s, i)
    IN FoldLeftDomain(Step, [events |-> 0, observed |-> 0, exceeded |-> 0,
                             current |-> 0, longest |-> 0, above |-> FALSE], rows)

\* job_state_by_timestamp, of the snapshots of the window.
JobAt(jobs, t) ==
    IF \E i \in DOMAIN jobs : jobs[i].at = t
    THEN jobs[CHOOSE i \in DOMAIN jobs : jobs[i].at = t].job ELSE None

Idling(row, jobs)  == row.util # None /\ JobAt(jobs, row.at) = 1 /\ row.util < Busy
Working(row, jobs) == row.util # None /\ JobAt(jobs, row.at) = 1 /\ row.util >= Busy

\* Underutilization: from the first row of a run of idling rows to the row
\* that ends it, or to the last row.
IdlingStep(rows, jobs, s, i) ==
    CASE Idling(rows[i], jobs) /\ s.start = None -> [s EXCEPT !.start = rows[i].at]
      [] ~Idling(rows[i], jobs) /\ s.start # None ->
             [total |-> s.total + rows[i].at - s.start, start |-> None]
      [] OTHER -> s

Underutilized(rows, jobs) ==
    LET Step(s, i) == IdlingStep(rows, jobs, s, i)
        end        == FoldLeftDomain(Step, [total |-> 0, start |-> None], rows)
    IN end.total + (IF end.start = None THEN 0 ELSE rows[Len(rows)].at - end.start)

\* Mutant: a row counts until now.
ActiveTimeToNow(rows, jobs, until) ==
    MapThenSumSet(LAMBDA i : Min({until - rows[i].at, MaxGap}),
                  {i \in DOMAIN rows : Working(rows[i], jobs)})

\* Mutant: the last row counts in full at once.
ActiveTimeAhead(rows, jobs, until) ==
    LET End(i) == IF i < Len(rows) THEN rows[i + 1].at ELSE rows[i].at + MaxGap
    IN MapThenSumSet(LAMBDA i : Min({End(i) - rows[i].at, MaxGap}),
                     {i \in DOMAIN rows : Working(rows[i], jobs)})

\* Active GPU hours: each row counts until the next one, the last until now, and
\* at most MaxGap.
Counted(rows, until, i) ==
    Min({(IF i < Len(rows) THEN rows[i + 1].at ELSE until) - rows[i].at, MaxGap})

ActiveTime(rows, jobs, until) ==
    MapThenSumSet(LAMBDA i : Counted(rows, until, i), {i \in DOMAIN rows : Working(rows[i], jobs)})

\* Job state transitions between two rows that know the state.
TransitionStep(s, job) ==
    [n    |-> s.n + (IF job # None /\ s.prev # None /\ job # s.prev THEN 1 ELSE 0),
     prev |-> job]

Transitions(rows) ==
    FoldLeft(TransitionStep, [n |-> 0, prev |-> None], [i \in DOMAIN rows |-> rows[i].job]).n

\* Mutant: a missing value ends a period.
UptimeStepEnds(s, u) ==
    CASE u = None \/ (s.prev # None /\ u < s.prev) ->
             [done |-> IF s.peak = None THEN s.done ELSE Append(s.done, s.peak),
              prev |-> u, peak |-> u]
      [] OTHER -> [s EXCEPT !.prev = u, !.peak = IF @ = None THEN u ELSE Max({@, u})]

\* A turn of the loop over uptime_s: a smaller value ends a period.
UptimeStep(s, u) ==
    CASE u = None -> [s EXCEPT !.prev = None, !.peak = None]
      [] u # None /\ s.prev # None /\ u < s.prev ->
             [done |-> IF s.peak = None THEN s.done ELSE Append(s.done, s.peak),
              prev |-> u, peak |-> u]
      [] OTHER -> [s EXCEPT !.prev = u, !.peak = IF @ = None THEN u ELSE Max({@, u})]

CompletedPeriods(rows) ==
    FoldLeft(UptimeStep, [done |-> <<>>, prev |-> None, peak |-> None],
             [i \in DOMAIN rows |-> rows[i].uptime]).done

\* Mutant: a sample at exactly the limit is in no band.
PowerBandOpen(p) == IF p > 100 THEN {10} ELSE {b \in 0 .. 9 : b * 10 <= p /\ p < (b + 1) * 10}

\* The bands of normalized power a sample is counted in: 10 stands for >100%.
PowerBand(p) ==
    IF p > 100 THEN {10}
    ELSE {b \in 0 .. 9 : (b * 10 <= p /\ p < (b + 1) * 10) \/ (b = 9 /\ p = 100)}

UtilizationBand(u) ==
    {b \in {"Low", "Medium", "High"} :
        CASE b = "Low"    -> 0 <= u /\ u < 30
          [] b = "Medium" -> 30 <= u /\ u < 70
          [] b = "High"   -> 70 <= u /\ u <= 100}

\* Mutant: the tolerance is taken in points.
MatchedPoints(rows) ==
    LET known(r) == r.util # None /\ r.temp # None
        s        == Where(rows, known)
        center   == Percentile([i \in DOMAIN s |-> s[i].util], 50)
        near(r)  == Distance(100 * r.util, center) <= 10 * 100
    IN Where(s, near)

\* The rows whose utilization is within ten percent of the median.
Matched(rows) ==
    LET known(r) == r.util # None /\ r.temp # None
        s        == Where(rows, known)
        center   == Percentile([i \in DOMAIN s |-> s[i].util], 50)
        near(r)  == 10 * Distance(100 * r.util, center) <= center
    IN Where(s, near)

\* The least-squares slope of the temperature over the matched rows, as a
\* fraction: the code divides both of these by the number of rows.
Slope(m) ==
    LET I == DOMAIN m
        N == Len(m)
        T == [i \in I |-> m[i].at - m[1].at]
        Y == [i \in I |-> m[i].temp]
        Sum(w) == MapThenSumSet(LAMBDA i : w[i], I)
    IN [above |-> N * Sum([i \in I |-> T[i] * Y[i]]) - Sum(T) * Sum(Y),
        below |-> IF N < 2 THEN 0 ELSE N * Sum([i \in I |-> T[i] * T[i]]) - Sum(T) * Sum(T)]

-----------------------------------------------------------------------------
(***************************************************************************)
(* What the report promises.                                               *)
(***************************************************************************)
Known(rows, Field(_)) == Valid([i \in DOMAIN rows |-> Field(rows[i])])
Times(rows) == [i \in DOMAIN rows |-> rows[i].at]

\* The percentiles of the temperature grow with their rank and lie between the
\* smallest and the largest reading (_percentile_stats).
PercentilesOrdered ==
    LET temps == Known(GpuRaw, LAMBDA r : r.temp)
        P(p)  == Percentile(temps, p)
        all   == {temps[i] : i \in DOMAIN temps}
    IN temps # <<>> => /\ 100 * Min(all) <= P(50) /\ P(50) <= P(95)
                       /\ P(95) <= P(99) /\ P(99) <= 100 * Max(all)

\* Less than half of the readings are outliers, whichever of its three rules
\* the report falls back to (_robust_distribution_stats).
OutliersAreFew ==
    LET temps == Known(GpuRaw, LAMBDA r : r.temp)
    IN Len(temps) >= MinOutlierSamples => 2 * Outliers(temps) < Len(temps)

\* Covered time is all the time between the first and the last row except the
\* outages (_telemetry_coverage_stats), and temperatures are observed then.
CoverageLeavesOutOutages ==
    LET t       == Times(GpuRaw)
        outages == {i \in 1 .. Len(t) - 1 : t[i + 1] - t[i] > MaxGap}
    IN t # <<>> =>
          /\ Covered(t, MaxGap) = t[Len(t)] - t[1]
                - MapThenSumSet(LAMBDA i : t[i + 1] - t[i], outages)
          /\ Exceedance(GpuRaw).observed <= Covered(t, MaxGap)

\* The loop over the temperatures finds the events there are: an event is hot
\* rows that follow each other without a gap, and it lasts to the row after.
ExceedanceIsRight ==
    LET rows == GpuRaw
        I    == DOMAIN rows
        e    == Exceedance(rows)
        Span(a, b) == IF \A k \in a .. b - 1 : Hot(rows[k]) /\ Joined(rows, k)
                      THEN rows[b].at - rows[a].at ELSE 0
        hot  == {i \in I : Hot(rows[i])}
    IN /\ e.events = Cardinality({i \in hot : i - 1 \notin hot \/ ~Joined(rows, i - 1)})
       /\ e.exceeded = MapThenSumSet(LAMBDA i : Gap(rows, i), {i \in hot : Joined(rows, i)})
       /\ e.longest = Max({0} \cup {Span(a, b) : a, b \in I})

\* No time is both active and underutilized, and both together are no longer
\* than what the report looks back on.
WorkAndIdlingDisjoint ==
    GpuRaw # <<>> =>
        ActiveTime(GpuRaw, Snaps, now) + Underutilized(GpuRaw, Snaps) <= now - GpuRaw[1].at

\* Each uptime period of the report ended in a restart of its own and was not
\* longer than the rig had been up then: a heartbeat without uptime or a long
\* outage may hide a restart, but invents none.
RestartsAreReal ==
    LET done == CompletedPeriods(Snaps)
        I    == DOMAIN done
    IN \E f \in [I -> DOMAIN boots] :
          /\ \A i, j \in I : i < j => f[i] < f[j]
          /\ \A i \in I : done[i] <= boots[f[i]]

\* Every sample with a valid power limit is in one power band, every sample
\* with a utilization in one utilization band.
BandsPartition ==
    \A i \in DOMAIN GpuRaw :
        /\ GpuRaw[i].power # None => Cardinality(PowerBand(GpuRaw[i].power)) = 1
        /\ GpuRaw[i].util # None => Cardinality(UtilizationBand(GpuRaw[i].util)) = 1

\* The rows a slope is fitted to are of one load: none uses less than four
\* fifths of another.  A temperature that only rose has no falling slope.
SlopeIsOfOneLoad ==
    \A m \in {Matched(GpuRaw)} :
        /\ \A i, j \in DOMAIN m : 5 * m[i].util >= 4 * m[j].util
        /\ (\A i, j \in DOMAIN m : i < j => m[i].temp <= m[j].temp) => Slope(m).above >= 0
        /\ Slope(m).below > 0 <=> Len(m) >= 2

\* As long as no row leaves the window, a heartbeat takes nothing back: no event,
\* no transition, no period and no time that the report has shown gets less.
TotalsOnlyGrow ==
    [][(now' <= Window) =>
          /\ Exceedance(GpuRaw).events <= Exceedance(GpuRaw').events
          /\ Exceedance(GpuRaw).longest <= Exceedance(GpuRaw').longest
          /\ Transitions(Snaps) <= Transitions(Snaps')
          /\ Underutilized(GpuRaw, Snaps) <= Underutilized(GpuRaw', Snaps')
          /\ ActiveTime(GpuRaw, Snaps, now) <= ActiveTime(GpuRaw', Snaps', now')]_rpVars

\* The figures of a report are of the readings they name, without the outages
\* and with every reading in one place (_percentile, _robust_distribution_stats,
\* _telemetry_coverage_stats and the bands of _build_report_context).
StatisticsAreRight ==
    /\ PercentilesOrdered /\ OutliersAreFew /\ BandsPartition
    /\ CoverageLeavesOutOutages
    /\ SlopeIsOfOneLoad

\* The loops of a report find what a definition over the rows finds: the
\* exceedances, the time at work and idle, the restarts (_build_report_context).
EventsAreReal == ExceedanceIsRight /\ WorkAndIdlingDisjoint /\ RestartsAreReal
================================================================================

------------------------------- MODULE Statistics ------------------------------
(***************************************************************************)
(* The statistics of the report and the charts, over the values of a field  *)
(* in the rows of a window.  A reading that failed is None.                 *)
(*                                                                          *)
(* Percentiles are exact: they are given in hundredths of the unit of their *)
(* values, as the fraction between two ranks has two digits.                *)
(***************************************************************************)
EXTENDS Absent, Listing, SequencesExt, FiniteSetsExt

CONSTANT MinOutlierSamples  \* min_outlier_samples (5)

ASSUME StatisticsAssumption == MinOutlierSamples \in Nat \ {0}

Valid(values) == Where(values, LAMBDA v : v # None)

\* sorted(values)
BySize(values) ==
    LET order == Sorted(DOMAIN values, LAMBDA i, j : \/ values[i] < values[j]
                                                   \/ (values[i] = values[j] /\ i < j))
    IN [k \in DOMAIN values |-> values[order[k]]]

\* Mutant: the fraction weighs the wrong neighbour.
PercentileSwapped(values, p) ==
    LET s     == BySize(Valid(values))
        place == (Len(s) - 1) * p
        low   == 1 + place \div 100
        part  == place % 100
    IN IF s = <<>> THEN None
       ELSE s[low] * part + s[Min({low + 1, Len(s)})] * (100 - part)

\* _percentile: linear interpolation between the two closest ranks.
Percentile(values, p) ==
    LET s     == BySize(Valid(values))
        place == (Len(s) - 1) * p
        low   == 1 + place \div 100
        part  == place % 100
    IN IF s = <<>> THEN None
       ELSE s[low] * (100 - part) + s[Min({low + 1, Len(s)})] * part

Distance(x, y) == IF x < y THEN y - x ELSE x - y

\* Mutant: the threshold is applied to the deviation itself.
OutlierPlain(v, center, mad, p25, p75) == Distance(100 * v, center) > 350

\* A candidate outlier of _robust_distribution_stats: by the modified Z-score,
\* by Tukey's fences if the MAD is zero, by being different if both are.
Outlier(v, center, mad, p25, p75) ==
    CASE mad > 0   -> 6745 * Distance(100 * v, center) > 350 * mad
      [] p75 > p25 /\ mad = 0 -> \/ 200 * v < 2 * p25 - 3 * (p75 - p25)
                                 \/ 200 * v > 2 * p75 + 3 * (p75 - p25)
      [] OTHER     -> 100 * v # center

\* How many values are candidates, once there are enough of them.
Outliers(values) ==
    LET s      == Valid(values)
        center == Percentile(s, 50)
        mad    == Percentile([i \in DOMAIN s |-> Distance(100 * s[i], center)], 50)
        Out(v) == Outlier(v, center, mad, Percentile(s, 25), Percentile(s, 75))
    IN IF Len(s) < MinOutlierSamples THEN None ELSE Len(Where(s, Out))

\* Mutant: a long gap counts as the longest one that is allowed.
CoveredCapped(times, maxGap) ==
    MapThenSumSet(LAMBDA i : Min({times[i + 1] - times[i], maxGap}), 1 .. Len(times) - 1)

\* The covered time of _telemetry_coverage_stats: what lies between two rows
\* that are not too far apart.
Covered(times, maxGap) ==
    MapThenSumSet(LAMBDA i : times[i + 1] - times[i],
                  {i \in 1 .. Len(times) - 1 : times[i + 1] - times[i] \in 1 .. maxGap})
================================================================================

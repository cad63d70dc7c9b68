--------------------------- MODULE CompactionProofs ---------------------------
(***************************************************************************)
(* Proofs about Compaction, for every number of tables, every bucket and    *)
(* window length that satisfies CompactionAssumption and every bound.       *)
(*                                                                          *)
(* NeverRefused and CountedOnce are not inductive.  A batch is read in one  *)
(* step and swapped in another, so BatchFaithful says what the temporary    *)
(* table still has to do with the rows; that in turn needs RowsDated and    *)
(* RunDated, which keep what a running compaction may touch apart from what *)
(* is reported meanwhile.  The cleanup is never refused because it works    *)
(* through the tables in order (CleanedInOrder) and a child row is never    *)
(* dated after its snapshot (RowsDated).                                    *)
(*                                                                          *)
(* NothingLost rests on CoversNear and OwedYoung: the cleanup looks at the  *)
(* time stamp of a row only, but the readings a row stands for are of the   *)
(* bucket that begins there.  ResolutionKept rests on Aged, which holds of  *)
(* the temporary table too.                                                 *)
(*                                                                          *)
(* BucketsMerged speaks of a run that is over, so MergedSoFar says it of the *)
(* buckets a running one is through with.  A snapshot that loses its        *)
(* children is one row more to merge: tier 3 takes only children whose      *)
(* snapshots are older than the tier 2 window (WideIsOld), and the cleanup  *)
(* only those whose snapshots are past the retention (RefIsRead).           *)
(***************************************************************************)
EXTENDS Compaction, FiniteSetTheorems, TLAPS

\* A row is not from the future, a child row is not dated after its snapshot,
\* a snapshot is compacted or has the odd time stamp of its report, and the
\* readings of a compacted row are older than the present.
RowsDated ==
    \A r \in rows :
      /\ r.ts <= now
      /\ r.table # Snapshots => r.ref \in Instant /\ r.ts <= r.ref
      /\ r.table = Snapshots => r.ref = NewId \/ (r.ref = r.ts /\ r.ts % 2 = 1)
      /\ \A t \in r.covers : t = r.ts \/ t < now

\* While a compaction runs, every compacted row is from before its start.
RunDated ==
    /\ job.pc # "idle" => job.start <= now
    /\ job.pc \in {"read", "swap"} =>
         \A r \in rows : \A t \in r.covers : t = r.ts \/ t < job.start

\* The rows the batch was read from are still there, or the rig was deleted
\* since and every row is a report made after the start of the run.
SourceIntact(m) ==
    /\ m.covers = UNION {r.covers : r \in Eligible(job.table, job.from)}
    /\ job.table # Snapshots =>
         \E r \in Eligible(job.table, job.from) : r.ref = m.ref
SourceGone == \A r \in rows : r.ts >= job.start /\ r.covers = {r.ts}

MadeShape(m) ==
    /\ m \in Row /\ m.table = job.table /\ m.ts = job.from
    /\ job.from \in Starts(job.tier) /\ m.ts <= job.start
    /\ job.table # Snapshots => m.ref \in Instant /\ m.ts <= m.ref
    /\ job.table = Snapshots => m.ref = NewId
    /\ \A t \in m.covers : t < job.start

BatchFaithful ==
    job.pc = "swap" =>
      \E m \in job.made : /\ job.made = {m}
                          /\ MadeShape(m)
                          /\ SourceIntact(m) \/ SourceGone

\* The cleanup leaves nothing old behind in the tables it has done.
CleanedInOrder ==
    job.pc = "clean" /\ ~job.skipped =>
      \A r \in rows : r.table < job.table => r.ts >= Cutoff

IInv == /\ TypeOK /\ RowsDated /\ RunDated /\ Consistent(rows) /\ CountedOnce
        /\ BatchFaithful /\ CleanedInOrder

-----------------------------------------------------------------------------
\* Buckets have a positive length and windows ages, in both tiers.
LEMMA TierFacts ==
    ASSUME NEW tier \in {2, 3}
    PROVE  /\ Bucket(tier) \in Nat \ {0}
           /\ OldestAge(tier) \in Nat /\ YoungestAge(tier) \in Nat
  BY CompactionAssumption DEF Bucket, OldestAge, YoungestAge

\* A bucket starts at an even instant (_round_to_bucket).
LEMMA StartsAreEven ==
    ASSUME NEW tier \in {2, 3}, NEW lo \in Starts(tier)
    PROVE  lo \in Instant /\ lo % 2 = 0
  <1>1. lo \in 0 .. MaxTime /\ lo % Bucket(tier) = 0
    BY DEF Starts, Instant
  <1>2. lo % Bucket2 = 0
    BY <1>1, CompactionAssumption DEF Bucket
  <1> QED BY <1>1, <1>2, CompactionAssumption DEF Instant

\* The rows of a batch are from before the start of the run.
LEMMA BatchIsPast ==
    ASSUME TypeOK, NEW lo \in Instant
    PROVE  BatchEnd(lo) \in Int /\ BatchEnd(lo) <= job.start
  <1>1. job.tier \in {2, 3} /\ job.start \in Int
    BY CompactionAssumption DEF TypeOK, Job, Instant
  <1> QED BY <1>1, TierFacts, CompactionAssumption
             DEF BatchEnd, WindowEnd, Instant

\* What a batch makes is a row.
LEMMA CompactedIsRow ==
    ASSUME TypeOK, NEW tb \in Tables, NEW lo \in Instant,
           NEW newest \in Eligible(tb, lo)
    PROVE  Compacted(tb, lo, Eligible(tb, lo), newest) \in Row
  <1>1. Eligible(tb, lo) \subseteq Row
    BY DEF TypeOK, Eligible, Of
  <1>2. UNION {r.covers : r \in Eligible(tb, lo)} \in SUBSET Instant
    BY <1>1 DEF Row
  <1>3. (IF tb = Snapshots THEN NewId ELSE newest.ref) \in Instant \cup {NewId}
    BY <1>1 DEF Row
  <1> QED BY <1>2, <1>3 DEF Compacted, Row

\* Every step keeps every variable in its type.
LEMMA TypeStep == TypeOK /\ [Next]_vars => TypeOK'
  <1> SUFFICES ASSUME TypeOK, [Next]_vars PROVE TypeOK'
    OBVIOUS
  <1>0. /\ Tables \subseteq Nat /\ 1 \in Tables /\ 0 \in Instant
        /\ Snapshots \in Nat /\ Snapshots \in Tables
        /\ Instant \subseteq Nat
    BY CompactionAssumption DEF Tables, Snapshots, Instant
  <1>00. Idle \in Job /\ Cleaning \in Job
    BY <1>0 DEF Idle, Cleaning, Job, TypeOK
  <1>000. job.pc = "clean" => CleanNext \in Job
    BY <1>0, <1>00 DEF CleanNext, TypeOK, Job, Tables, Snapshots
  <1>1. ASSUME NEW devices \in SUBSET (1 .. Children), Report(devices)
        PROVE  TypeOK'
    <2>1. devices \cup {Snapshots} \subseteq Tables
      BY <1>0, CompactionAssumption DEF Tables, Snapshots
    <2>2. \A tb \in devices \cup {Snapshots} :
            [table |-> tb, ts |-> now, ref |-> now, covers |-> {now}] \in Row
      BY <2>1 DEF TypeOK, Row
    <2>3. rows' \subseteq Row /\ owed' \subseteq Tables \X Instant
      BY <1>1, <2>1, <2>2 DEF TypeOK, Report
    <2>4. reports' \in 0 .. MaxReports
      BY <1>1, CompactionAssumption DEF TypeOK, Report
    <2> QED BY <1>1, <2>3, <2>4 DEF TypeOK, Report
  <1>2. CASE DeleteRig
    BY <1>2, CompactionAssumption DEF TypeOK, DeleteRig
  <1>3. CASE Tick
    BY <1>3, CompactionAssumption DEF TypeOK, Tick, Instant
  <1>4. CASE StartMaintenance
    <2>1. job' \in Job
      BY <1>4, <1>0 DEF TypeOK, StartMaintenance, Idle, Job
    <2> QED BY <1>4, <2>1 DEF TypeOK, StartMaintenance
  <1>5. CASE ReadBatch
    <2>0. PICK lo \in Batches :
            \E newest \in Eligible(job.table, lo) :
              job' = [job EXCEPT !.pc = "swap", !.from = lo,
                        !.made = {Compacted(job.table, lo,
                                            Eligible(job.table, lo), newest)}]
      BY <1>5 DEF ReadBatch
    <2>1. PICK newest \in Eligible(job.table, lo) :
            job' = [job EXCEPT !.pc = "swap", !.from = lo,
                      !.made = {Compacted(job.table, lo,
                                          Eligible(job.table, lo), newest)}]
      BY <2>0
    <2>2. lo \in Instant /\ job.table \in Tables
      BY DEF Batches, Starts, TypeOK, Job
    <2>3. Compacted(job.table, lo, Eligible(job.table, lo), newest) \in Row
      BY <2>2, CompactedIsRow
    <2>4. job' \in Job
      BY <2>1, <2>2, <2>3, <1>0 DEF TypeOK, Job
    <2> QED BY <1>5, <2>4 DEF TypeOK, ReadBatch
  <1>6. CASE SwapBatch
    <2>1. job.from + Bucket(job.tier) \in Nat
      BY TierFacts DEF TypeOK, Job
    <2>2. job' \in Job
      BY <1>6, <2>1, <1>00 DEF TypeOK, Job, SwapBatch
    <2>3. rows' \subseteq Row
      BY <1>6 DEF TypeOK, Job, SwapBatch, AfterSwap
    <2> QED BY <1>6, <2>2, <2>3 DEF TypeOK, SwapBatch
  <1>7. CASE NextTable
    <2>1. job.table < Snapshots => job.table + 1 \in Tables
      BY <1>0 DEF TypeOK, Job, Tables
    <2>2. job' \in Job
      BY <1>7, <2>1, <1>0, <1>00 DEF TypeOK, Job, NextTable
    <2> QED BY <1>7, <2>2 DEF TypeOK, NextTable, Job
  <1>8. CASE DeleteOld
    <2>1. job' \in Job /\ rows' \subseteq Row
      BY <1>8, <1>000 DEF TypeOK, DeleteOld
    <2> QED BY <1>8, <2>1 DEF TypeOK, DeleteOld
  <1>9. CASE Fail
    <2>1. job' \in Job
      BY <1>9, <1>00, <1>000 DEF Fail, Job
    <2> QED BY <1>9, <2>1, CompactionAssumption DEF TypeOK, Fail
  <1>10. CASE Kill
    BY <1>10, <1>00, CompactionAssumption DEF TypeOK, Kill
  <1>11. CASE UNCHANGED vars
    BY <1>11 DEF vars, TypeOK
  <1> QED BY <1>1, <1>2, <1>3, <1>4, <1>5, <1>6, <1>7, <1>8, <1>9, <1>10,
             <1>11 DEF Next

\* The invariant holds of an empty database.
LEMMA InitIInv == Init => IInv
  <1> SUFFICES ASSUME Init PROVE IInv
    OBVIOUS
  <1>1. TypeOK
    BY CompactionAssumption
       DEF Init, TypeOK, Instant, Idle, Job, Never, Tables, Snapshots
  <1> QED BY <1>1 DEF Init, IInv, RowsDated, RunDated, Consistent, CountedOnce,
                      BatchFaithful, CleanedInOrder, Idle

-----------------------------------------------------------------------------
\* The rows a batch replaces are from before the start of the run.
LEMMA EligibleIsPast ==
    ASSUME TypeOK, NEW tb, NEW lo \in Instant, NEW r \in Eligible(tb, lo)
    PROVE  r \in rows /\ r.table = tb /\ r.ts < job.start /\ lo <= r.ts
  <1>1. r \in rows /\ r.table = tb /\ lo <= r.ts /\ r.ts < BatchEnd(lo)
    BY DEF Eligible, Of
  <1>2. r.ts \in Int /\ job.start \in Int
    BY <1>1, CompactionAssumption DEF TypeOK, Row, Job, Instant
  <1> QED BY <1>1, <1>2, BatchIsPast

\* What the fields of a job are that ends, and of a cleanup that begins.
LEMMA FreshJobs ==
    /\ Idle.pc = "idle"
    /\ Cleaning.pc = "clean" /\ Cleaning.table = 1 /\ Cleaning.start = now
    /\ Cleaning.skipped = FALSE
  <1>1. Idle.pc = "idle" /\ Cleaning.pc = "clean" /\ Cleaning.start = now
    BY DEF Cleaning, Idle
  <1>2. Cleaning.table = 1
    BY DEF Cleaning, Idle
  <1>3. Cleaning.skipped = FALSE
    BY DEF Cleaning, Idle
  <1> QED BY <1>1, <1>2, <1>3

\* The idle record is a job.
LEMMA IdleIsJob == Idle \in Job
  BY CompactionAssumption DEF Idle, Job, Tables, Snapshots, Instant

\* Moving on to the next table (CleanNext) keeps the cutoff.
CleanNextFacts ==
    /\ CleanNext \in Job /\ CleanNext.pc = "clean"
    /\ CleanNext.table = job.table + 1
    /\ CleanNext.start = job.start /\ CleanNext.skipped = job.skipped
    /\ job.table < Snapshots

\* The cleanup goes on with the next table or is over (handle of cleanup_old_data).
LEMMA CleanNextLemma ==
    ASSUME TypeOK, job.pc = "clean"
    PROVE  CleanNext = Idle \/ CleanNextFacts
  <1>1. Tables \subseteq Nat /\ Snapshots \in Nat
    BY CompactionAssumption DEF Tables, Snapshots
  <1>2. job.table < Snapshots => job.table + 1 \in Tables
    BY <1>1 DEF TypeOK, Job, Tables
  <1> QED BY <1>2 DEF CleanNext, CleanNextFacts, TypeOK, Job

\* Rows keep their dates in order.
LEMMA DatedStep == IInv /\ [Next]_vars => RowsDated' /\ RunDated'
  <1> SUFFICES ASSUME IInv, [Next]_vars PROVE RowsDated' /\ RunDated'
    OBVIOUS
  <1>0. /\ TypeOK /\ RowsDated /\ RunDated
        /\ now \in Int /\ job.start \in Int
        /\ \A r \in rows : /\ r.ts \in Int
                           /\ \A t \in r.covers : t \in Int
    BY CompactionAssumption DEF IInv, TypeOK, Job, Row, Instant
  <1>1. ASSUME NEW devices \in SUBSET (1 .. Children), Report(devices)
        PROVE  RowsDated' /\ RunDated'
    <2>1. /\ now' = now /\ job' = job /\ now \in Instant /\ now % 2 = 1
          /\ \A r \in rows' : r \in rows \/ /\ r.ts = now /\ r.ref = now
                                            /\ r.covers = {now}
      BY <1>1 DEF Report, IInv, TypeOK
    <2> QED BY <1>0, <2>1 DEF RowsDated, RunDated
  <1>2. CASE DeleteRig
    BY <1>0, <1>2 DEF DeleteRig, RowsDated, RunDated
  <1>3. CASE Tick
    <2>1. rows' = rows /\ job' = job /\ now' = now + 1
      BY <1>3 DEF Tick
    <2> QED BY <1>0, <2>1 DEF RowsDated, RunDated
  <1>4. CASE StartMaintenance
    <2>1. rows' = rows /\ now' = now /\ job'.start = now
      BY <1>4 DEF StartMaintenance, Idle
    <2> QED BY <1>0, <2>1 DEF RowsDated, RunDated
  <1>5. CASE ReadBatch
    <2>1. /\ rows' = rows /\ now' = now /\ job'.start = job.start
          /\ job.pc = "read"
      BY <1>0, <1>5 DEF ReadBatch, TypeOK, Job
    <2> QED BY <1>0, <2>1 DEF RowsDated, RunDated
  <1>6. CASE SwapBatch
    <2>1. PICK m \in job.made : job.made = {m} /\ MadeShape(m)
      BY <1>6 DEF IInv, BatchFaithful, SwapBatch
    <2>2. rows' \subseteq rows \cup {m} /\ now' = now
      BY <1>6, <2>1 DEF SwapBatch, AfterSwap
    <2>3. \/ job'.pc = "read" /\ job'.start = job.start
          \/ job'.pc = "clean" /\ job'.start = now /\ rows' = rows
      BY <1>0, <1>6 DEF SwapBatch, TypeOK, Job, Cleaning, Idle
    <2>4. m.ts \in Int /\ \A t \in m.covers : t \in Int /\ t < job.start
      BY <2>1, CompactionAssumption DEF MadeShape, Row, Instant
    <2>5. job.start <= now /\ job.pc = "swap"
      BY <1>0, <1>6 DEF RunDated, SwapBatch
    <2>6. RowsDated'
      BY <1>0, <2>1, <2>2, <2>4, <2>5 DEF RowsDated, MadeShape
    <2>7. RunDated'
      BY <1>0, <2>2, <2>3, <2>4, <2>5 DEF RunDated
    <2> QED BY <2>6, <2>7
  <1>7. CASE NextTable
    <2>1. /\ rows' = rows /\ now' = now /\ job.pc = "read"
          /\ \/ job'.pc = "read" /\ job'.start = job.start
             \/ job'.pc = "clean" /\ job'.start = now
      BY <1>0, <1>7 DEF NextTable, TypeOK, Job, Cleaning, Idle
    <2> QED BY <1>0, <2>1 DEF RowsDated, RunDated
  <1>8. CASE DeleteOld
    <2>1. /\ rows' \subseteq rows /\ now' = now /\ job.pc = "clean"
          /\ job'.pc \in {"clean", "idle"}
          /\ job'.pc = "clean" => job'.start = job.start
      BY <1>0, <1>8 DEF DeleteOld, CleanNext, TypeOK, Job, Idle
    <2> QED BY <1>0, <2>1 DEF RowsDated, RunDated
  <1>9. CASE Fail \/ Kill
    <2>1. rows' = rows /\ now' = now /\ job.pc # "idle"
      BY <1>9 DEF Fail, Kill
    <2>2. CASE job' = Idle \/ job' = Cleaning
      <3>1. job'.pc = "idle" \/ (job'.pc = "clean" /\ job'.start = now)
        BY <2>2, FreshJobs
      <3> QED BY <1>0, <2>1, <3>1 DEF RowsDated, RunDated
    <2>3. CASE job.pc = "clean" /\ job' = [CleanNext EXCEPT !.skipped = TRUE]
      <3>1. CleanNext \in Job /\ (CleanNext.pc = "idle" \/ CleanNext.start = job.start)
                              /\ CleanNext.pc \in {"clean", "idle"}
        BY <1>0, <2>3, FreshJobs, CleanNextLemma, IdleIsJob DEF CleanNextFacts
      <3>2. job'.pc = CleanNext.pc /\ job'.start = CleanNext.start
        BY <2>3, <3>1 DEF Job
      <3> QED BY <1>0, <2>1, <3>1, <3>2 DEF RowsDated, RunDated
    <2> QED BY <1>9, <2>2, <2>3 DEF Fail, Kill
  <1>10. CASE UNCHANGED vars
    BY <1>0, <1>10 DEF vars, RowsDated, RunDated
  <1> QED BY <1>1, <1>2, <1>3, <1>4, <1>5, <1>6, <1>7, <1>8, <1>9, <1>10
          DEF Next

-----------------------------------------------------------------------------
\* A row with the time stamp of the present is a report of the present.
LEMMA PresentRows ==
    ASSUME IInv, NEW r \in rows, r.ts = now,
           \A s \in Of(Snapshots) : s.ts # now
    PROVE  FALSE
  <1>1. r.table # Snapshots
    BY DEF Of
  <1>2. r.ref \in Instant /\ r.ts <= r.ref
    BY <1>1 DEF IInv, RowsDated
  <1>3. PICK s \in rows : s.table = Snapshots /\ s.ref = r.ref
    BY <1>1 DEF IInv, Consistent
  <1>4. s.ref # NewId
    BY <1>2, <1>3, CompactionAssumption DEF Instant, NewId
  <1>5. s.ref = s.ts /\ s.ts <= now
    BY <1>3, <1>4 DEF IInv, RowsDated
  <1>6. s.ts = now
    BY <1>2, <1>3, <1>5, CompactionAssumption DEF IInv, TypeOK, Row, Instant
  <1> QED BY <1>3, <1>6 DEF Of

\* The row a report stores in a table.
Fresh(tb) == [table |-> tb, ts |-> now, ref |-> now, covers |-> {now}]

\* What a report adds.
LEMMA FreshRows ==
    ASSUME NEW devices \in SUBSET (1 .. Children), Report(devices)
    PROVE  /\ rows \subseteq rows' /\ Fresh(Snapshots) \in rows'
           /\ \A r \in rows' : r \in rows \/ r = Fresh(r.table)
  <1>1. rows' = rows \cup {Fresh(tb) : tb \in devices \cup {Snapshots}}
    BY DEF Report, Fresh
  <1>2. \A tb : Fresh(tb).table = tb
    BY DEF Fresh
  <1> QED BY <1>1, <1>2

\* The constraints of the database hold after every step.
LEMMA ConsistentStep == IInv /\ [Next]_vars => Consistent(rows)'
  <1> SUFFICES ASSUME IInv, [Next]_vars PROVE Consistent(rows)'
    OBVIOUS
  <1>0. Consistent(rows)
    BY DEF IInv
  <1>1. ASSUME NEW devices \in SUBSET (1 .. Children), Report(devices)
        PROVE  Consistent(rows)'
    <2>1. \A r \in rows : r.ts # now
      BY <1>1, PresentRows DEF Report
    <2>2. /\ rows \subseteq rows' /\ Fresh(Snapshots) \in rows'
          /\ \A r \in rows' : r \in rows \/ r = Fresh(r.table)
      BY <1>1, FreshRows
    <2>3. \A tb : Fresh(tb).table = tb /\ Fresh(tb).ts = now /\ Fresh(tb).ref = now
      BY DEF Fresh
    <2>4. \A r, q \in rows' : r.table = q.table /\ r.ts = q.ts => r = q
      BY <1>0, <2>1, <2>2, <2>3 DEF Consistent
    <2>5. ASSUME NEW c \in rows', c.table # Snapshots
          PROVE  \E s \in rows' : s.table = Snapshots /\ s.ref = c.ref
      <3>1. CASE c \in rows
        BY <1>0, <2>2, <2>5, <3>1 DEF Consistent
      <3>2. CASE c = Fresh(c.table)
        BY <2>2, <2>3, <3>2
      <3> QED BY <2>2, <3>1, <3>2
    <2> QED BY <2>4, <2>5 DEF Consistent
  <1>2. CASE DeleteRig
    BY <1>2 DEF DeleteRig, Consistent
  <1>3. CASE SwapBatch
    BY <1>0, <1>3 DEF SwapBatch, Consistent, AfterSwap
  <1>4. CASE DeleteOld
    BY <1>0, <1>4 DEF DeleteOld, Consistent
  <1>5. CASE rows' = rows
    BY <1>0, <1>5 DEF Consistent
  <1> QED BY <1>1, <1>2, <1>3, <1>4, <1>5
          DEF Next, vars, Tick, StartMaintenance, ReadBatch, NextTable, Fail, Kill

\* No step counts a reading twice.
LEMMA CountedStep == IInv /\ [Next]_vars => CountedOnce'
  <1> SUFFICES ASSUME IInv, [Next]_vars PROVE CountedOnce'
    OBVIOUS
  <1>0. CountedOnce /\ TypeOK
    BY DEF IInv
  <1>1. ASSUME NEW devices \in SUBSET (1 .. Children), Report(devices)
        PROVE  CountedOnce'
    <2>1. \A r \in rows : r.ts # now
      BY <1>1, PresentRows DEF Report
    <2>2. \A r \in rows : now \notin r.covers
      BY <2>1, CompactionAssumption DEF IInv, TypeOK, RowsDated, Instant
    <2>3. \A r \in rows' : r \in rows \/ r = Fresh(r.table)
      BY <1>1, FreshRows
    <2>4. \A tb : Fresh(tb).covers = {now}
      BY DEF Fresh
    <2>5. \A r, q \in rows' :
            r.table = q.table /\ r.covers \cap q.covers # {} => r = q
      BY <1>0, <2>2, <2>3, <2>4 DEF CountedOnce
    <2> QED BY <2>5 DEF CountedOnce
  <1>2. CASE DeleteRig
    BY <1>2 DEF DeleteRig, CountedOnce
  <1>3. CASE SwapBatch
    <2>1. CASE rows' = rows
      BY <1>0, <2>1 DEF CountedOnce
    <2>2. CASE rows' = AfterSwap
      <3>1. PICK m \in job.made : /\ job.made = {m} /\ MadeShape(m)
                                  /\ SourceIntact(m) \/ SourceGone
        BY <1>3 DEF IInv, BatchFaithful, SwapBatch
      <3>2. ASSUME NEW r \in rows \ Eligible(job.table, job.from),
                   r.table = m.table, NEW t \in r.covers, t \in m.covers
            PROVE  FALSE
        <4>1. CASE SourceIntact(m)
          <5>1. PICK q \in Eligible(job.table, job.from) : t \in q.covers
            BY <3>2, <4>1 DEF SourceIntact
          <5>2. q \in rows /\ q.table = job.table
            BY <5>1 DEF Eligible, Of
          <5>3. r = q
            BY <1>0, <3>1, <3>2, <5>1, <5>2 DEF CountedOnce, MadeShape
          <5> QED BY <3>2, <5>1, <5>3
        <4>2. CASE SourceGone
          <5>1. t = r.ts /\ r.ts >= job.start
            BY <3>2, <4>2 DEF SourceGone
          <5>2. t < job.start
            BY <3>1, <3>2 DEF MadeShape
          <5>3. t \in Int /\ job.start \in Int
            BY <1>0, <5>1, CompactionAssumption DEF TypeOK, Row, Job, Instant
          <5> QED BY <5>1, <5>2, <5>3
        <4> QED BY <3>1, <4>1, <4>2
      <3>3. rows' = (rows \ Eligible(job.table, job.from)) \cup {m}
        BY <2>2, <3>1 DEF AfterSwap
      <3> QED BY <1>0, <3>2, <3>3 DEF CountedOnce
    <2> QED BY <1>3, <2>1, <2>2 DEF SwapBatch
  <1>4. CASE DeleteOld
    BY <1>0, <1>4 DEF DeleteOld, CountedOnce
  <1>5. CASE rows' = rows
    BY <1>0, <1>5 DEF CountedOnce
  <1> QED BY <1>1, <1>2, <1>3, <1>4, <1>5
          DEF Next, vars, Tick, StartMaintenance, ReadBatch, NextTable, Fail, Kill

\* Nothing that a report stores belongs to the batch.
LEMMA ReportKeepsBatch ==
    ASSUME IInv, job.pc = "swap", job.from \in Instant,
           NEW devices \in SUBSET (1 .. Children), Report(devices)
    PROVE  Eligible(job.table, job.from)' = Eligible(job.table, job.from)
  <1>0. TypeOK /\ job' = job /\ now' = now
    BY DEF IInv, Report
  <1>1. /\ rows \subseteq rows'
        /\ \A r \in rows' : r \in rows \/ r = Fresh(r.table)
    BY FreshRows
  <1>2. \A tb : Fresh(tb).ts = now /\ Fresh(tb).ref = now
    BY DEF Fresh
  <1>3. /\ BatchEnd(job.from) \in Int /\ BatchEnd(job.from) <= job.start
        /\ job.start <= now /\ job.start \in Int /\ now \in Int
    BY <1>0, BatchIsPast, CompactionAssumption
       DEF IInv, RunDated, TypeOK, Job, Instant
  <1>4. BatchEnd(job.from)' = BatchEnd(job.from)
    BY <1>0 DEF BatchEnd, WindowEnd
  <1>5. ASSUME NEW r \in rows', r.ts < BatchEnd(job.from)
        PROVE  r \in rows /\ r.ts \in Int
    BY <1>0, <1>1, <1>2, <1>3, <1>5, CompactionAssumption DEF TypeOK, Row, Instant
  <1>6. ASSUME NEW s \in rows, s.table = Snapshots, s.ts < BatchEnd(job.from),
               NEW c \in rows', c.table # Snapshots, c.ref = s.ref
        PROVE  c \in rows
    <2>1. s.ref # now
      BY <1>0, <1>3, <1>6, CompactionAssumption
         DEF IInv, RowsDated, TypeOK, Row, Instant, NewId
    <2> QED BY <1>1, <1>2, <1>6, <2>1
  <1>7. ASSUME NEW s \in rows, s.table = Snapshots, s.ts < BatchEnd(job.from)
        PROVE  Referenced(s)' <=> Referenced(s)
    BY <1>1, <1>6, <1>7 DEF Referenced
  <1>8. ASSUME NEW r \in rows, r.ts < BatchEnd(job.from)
        PROVE  r \in Eligible(job.table, job.from)' <=> r \in Eligible(job.table, job.from)
    BY <1>0, <1>1, <1>4, <1>7, <1>8 DEF Eligible, Of
  <1>9. \A r \in Eligible(job.table, job.from)' : r \in rows' /\ r.ts < BatchEnd(job.from)
    BY <1>0, <1>4 DEF Eligible, Of
  <1>10. \A r \in Eligible(job.table, job.from) : r \in rows /\ r.ts < BatchEnd(job.from)
    BY DEF Eligible, Of
  <1> QED BY <1>5, <1>8, <1>9, <1>10

\* The temporary table stays what the rows it was read from make it.
LEMMA FaithfulStep == IInv /\ [Next]_vars => BatchFaithful'
  <1> SUFFICES ASSUME IInv, [Next]_vars PROVE BatchFaithful'
    OBVIOUS
  <1>0. TypeOK /\ BatchFaithful /\ TypeOK'
    BY TypeStep DEF IInv
  <1>1. ASSUME NEW devices \in SUBSET (1 .. Children), Report(devices)
        PROVE  BatchFaithful'
    <2>1. SUFFICES ASSUME job.pc = "swap" PROVE BatchFaithful'
      BY <1>1 DEF Report, BatchFaithful
    <2>2. PICK m \in job.made : /\ job.made = {m} /\ MadeShape(m)
                                /\ SourceIntact(m) \/ SourceGone
      BY <1>0, <2>1 DEF BatchFaithful
    <2>3. job' = job /\ MadeShape(m)'
      BY <1>1, <2>2 DEF Report, MadeShape
    <2>4. job.from \in Instant
      BY <2>2 DEF MadeShape, Starts
    <2>5. Eligible(job.table, job.from)' = Eligible(job.table, job.from)
      BY <1>1, <2>1, <2>4, ReportKeepsBatch
    <2>6. SourceIntact(m) => SourceIntact(m)'
      BY <2>3, <2>5 DEF SourceIntact
    <2>7. SourceGone => SourceGone'
      <3>1. \A tb : Fresh(tb).ts = now /\ Fresh(tb).covers = {now}
        BY DEF Fresh
      <3>2. job.start <= now
        BY <2>1 DEF IInv, RunDated
      <3>3. \A r \in rows' : r \in rows \/ r = Fresh(r.table)
        BY <1>1, FreshRows
      <3> QED BY <2>3, <3>1, <3>2, <3>3 DEF SourceGone
    <2> QED BY <2>2, <2>3, <2>6, <2>7 DEF BatchFaithful
  <1>2. CASE DeleteRig
    <2>1. job' = job /\ SourceGone'
      BY <1>2 DEF DeleteRig, SourceGone
    <2>2. \A m \in job.made : MadeShape(m) => MadeShape(m)'
      BY <2>1 DEF MadeShape
    <2> QED BY <1>0, <2>1, <2>2 DEF BatchFaithful
  <1>3. CASE job' = job /\ rows' = rows
    <2>1. Eligible(job.table, job.from)' = Eligible(job.table, job.from)
      BY <1>3 DEF Eligible, Of, Referenced, BatchEnd, WindowEnd
    <2>2. \A m \in job.made : /\ MadeShape(m) => MadeShape(m)'
                              /\ SourceIntact(m) => SourceIntact(m)'
      BY <1>3, <2>1 DEF MadeShape, SourceIntact
    <2>3. SourceGone => SourceGone'
      BY <1>3 DEF SourceGone
    <2> QED BY <1>0, <1>3, <2>2, <2>3 DEF BatchFaithful
  <1>4. CASE ReadBatch
    <2>1. /\ rows' = rows /\ now' = now /\ job.pc = "read"
          /\ job.table \in Tables /\ job.tier \in {2, 3} /\ job.start \in Int
      BY <1>0, <1>4, CompactionAssumption DEF ReadBatch, TypeOK, Job, Instant
    <2>2. PICK lo \in Batches : \E newest \in Eligible(job.table, lo) :
            job' = [job EXCEPT !.pc = "swap", !.from = lo,
                      !.made = {Compacted(job.table, lo,
                                          Eligible(job.table, lo), newest)}]
      BY <1>4 DEF ReadBatch
    <2>3. PICK newest \in Eligible(job.table, lo) :
            job' = [job EXCEPT !.pc = "swap", !.from = lo,
                      !.made = {Compacted(job.table, lo,
                                          Eligible(job.table, lo), newest)}]
      BY <2>2
    <2>4. PICK m : m = Compacted(job.table, lo, Eligible(job.table, lo), newest)
      OBVIOUS
    <2>5. /\ job'.made = {m} /\ job'.table = job.table /\ job'.tier = job.tier
          /\ job'.from = lo /\ job'.start = job.start
      BY <1>0, <2>3, <2>4 DEF TypeOK, Job
    <2>6. lo \in Instant /\ lo \in Starts(job.tier)
      BY DEF Batches, Starts
    <2>7. m \in Row
      BY <1>0, <2>1, <2>4, <2>6, CompactedIsRow
    <2>8. \A r \in Eligible(job.table, lo) :
            r \in rows /\ r.table = job.table /\ r.ts < job.start /\ lo <= r.ts
      BY <1>0, <2>6, EligibleIsPast
    <2>9. /\ m.table = job.table /\ m.ts = lo
          /\ m.ref = (IF job.table = Snapshots THEN NewId ELSE newest.ref)
          /\ m.covers = UNION {r.covers : r \in Eligible(job.table, lo)}
      BY <2>4 DEF Compacted
    <2>10. lo \in Int /\ newest.ts \in Int
      BY <1>0, <2>6, <2>8, CompactionAssumption DEF TypeOK, Row, Instant
    <2>11. m.ts <= job.start
      BY <2>1, <2>8, <2>9, <2>10
    <2>12. job.table # Snapshots => m.ref \in Instant /\ m.ts <= m.ref
      <3>1. SUFFICES ASSUME job.table # Snapshots
                     PROVE  newest.ref \in Instant /\ lo <= newest.ref
        BY <2>9
      <3>2. newest.ref \in Instant /\ newest.ts <= newest.ref
        BY <2>8, <3>1 DEF IInv, RowsDated
      <3> QED BY <2>8, <2>10, <3>2, CompactionAssumption DEF Instant
    <2>13. \A t \in m.covers : t < job.start
      BY <2>1, <2>8, <2>9 DEF IInv, RunDated
    <2>14. MadeShape(m)'
      BY <2>5, <2>6, <2>7, <2>9, <2>11, <2>12, <2>13 DEF MadeShape, Starts, Bucket
    <2>15. Eligible(job.table, job.from)' = Eligible(job.table, lo)
      BY <2>1, <2>5
         DEF Eligible, Of, Referenced, BatchEnd, WindowEnd, Bucket, YoungestAge
    <2>16. SourceIntact(m)'
      BY <2>5, <2>9, <2>15 DEF SourceIntact
    <2> QED BY <2>5, <2>14, <2>16 DEF BatchFaithful
  <1>5. CASE job'.pc # "swap"
    BY <1>5 DEF BatchFaithful
  <1>6. ASSUME \/ StartMaintenance \/ SwapBatch \/ NextTable
               \/ DeleteOld \/ Fail \/ Kill
        PROVE  job'.pc # "swap"
    <2>1. CASE StartMaintenance
      BY <2>1 DEF StartMaintenance, Idle
    <2>2. CASE SwapBatch
      BY <1>0, <2>2, FreshJobs DEF SwapBatch, TypeOK, Job
    <2>3. CASE NextTable
      BY <1>0, <2>3, FreshJobs DEF NextTable, TypeOK, Job
    <2>4. CASE DeleteOld
      BY <1>0, <2>4, FreshJobs, CleanNextLemma DEF DeleteOld, CleanNextFacts
    <2>5. CASE Fail
      <3>1. job.pc = "clean" => /\ CleanNext.pc # "swap" /\ CleanNext \in Job
        BY <1>0, FreshJobs, CleanNextLemma, IdleIsJob DEF CleanNextFacts
      <3> QED BY <2>5, <3>1, FreshJobs DEF Fail, Job
    <2>6. CASE Kill
      BY <2>6, FreshJobs DEF Kill
    <2> QED BY <1>6, <2>1, <2>2, <2>3, <2>4, <2>5, <2>6
  <1> QED BY <1>1, <1>2, <1>3, <1>4, <1>5, <1>6 DEF Next, vars, Tick

-----------------------------------------------------------------------------
\* A batch of the cleanup leaves no child row without its snapshot: the
\* children of an old snapshot are older still, and their tables are done.
LEMMA CleanAccepted ==
    ASSUME IInv, job.pc = "clean", ~job.skipped, NEW batch \in SUBSET Old(job.table)
    PROVE  Consistent(rows \ batch)
  <1>1. ASSUME NEW c \in rows, c.table # Snapshots
        PROVE  \E s \in rows \ batch : s.table = Snapshots /\ s.ref = c.ref
    <2>1. PICK s \in rows : s.table = Snapshots /\ s.ref = c.ref
      BY <1>1 DEF IInv, Consistent
    <2>2. SUFFICES ASSUME s \in batch PROVE FALSE
      BY <2>1
    <2>3. job.table = Snapshots /\ s.ts < Cutoff
      BY <2>1, <2>2 DEF Old, Of
    <2>4. c.ref \in Instant /\ c.ts <= c.ref
      BY <1>1 DEF IInv, RowsDated
    <2>5. s.ref = s.ts
      BY <2>1, <2>4, CompactionAssumption DEF IInv, RowsDated, Instant, NewId
    <2>6. c.table < job.table
      BY <1>1, <2>3, CompactionAssumption DEF IInv, TypeOK, Row, Tables, Snapshots
    <2>7. c.ts >= Cutoff
      BY <1>1, <2>6 DEF IInv, CleanedInOrder
    <2>8. c.ts \in Int /\ s.ts \in Int /\ Cutoff \in Int
      BY CompactionAssumption DEF IInv, TypeOK, Row, Job, Instant, Cutoff
    <2> QED BY <2>1, <2>3, <2>4, <2>5, <2>7, <2>8
  <1> QED BY <1>1 DEF IInv, Consistent

\* The cleanup works through the tables in order.
LEMMA CleanStep == IInv /\ [Next]_vars => CleanedInOrder'
  <1> SUFFICES ASSUME IInv, [Next]_vars PROVE CleanedInOrder'
    OBVIOUS
  <1>0. /\ TypeOK /\ TypeOK' /\ CleanedInOrder
        /\ \A r \in rows : r.ts \in Int /\ r.table \in Int
        /\ job.start \in Int /\ now \in Int /\ job.table \in Int
    BY TypeStep, CompactionAssumption
       DEF IInv, TypeOK, Row, Job, Instant, Tables, Snapshots
  <1>1. ASSUME NEW devices \in SUBSET (1 .. Children), Report(devices)
        PROVE  CleanedInOrder'
    <2>1. job' = job /\ (job.pc = "clean" => job.start <= now)
      BY <1>1 DEF Report, IInv, RunDated
    <2>2. \A r \in rows' : r \in rows \/ r = Fresh(r.table)
      BY <1>1, FreshRows
    <2>3. \A tb : Fresh(tb).ts = now
      BY DEF Fresh
    <2> QED BY <1>0, <2>1, <2>2, <2>3, CompactionAssumption
            DEF CleanedInOrder, Cutoff
  <1>2. CASE job' = job /\ rows' \subseteq rows
    BY <1>0, <1>2 DEF CleanedInOrder, Cutoff
  <1>3. CASE job'.pc # "clean"
    BY <1>3 DEF CleanedInOrder
  <1>4. CASE job' = Cleaning
    <2>1. \A r \in rows' : r.table >= 1 /\ r.table \in Int
      BY <1>0, CompactionAssumption DEF TypeOK, Row, Tables, Snapshots
    <2> QED BY <1>4, <2>1, FreshJobs DEF CleanedInOrder
  <1>5. CASE DeleteOld
    <2>1. PICK batch \in SUBSET Old(job.table) :
            /\ \/ Cardinality(batch) = BatchSize
               \/ batch = Old(job.table) /\ Cardinality(batch) < BatchSize
            /\ IF Consistent(rows \ batch)
               THEN /\ rows' = rows \ batch
                    /\ job' = IF Cardinality(batch) = BatchSize THEN job
                              ELSE CleanNext
               ELSE rows' = rows /\ job' = CleanNext
      BY <1>5 DEF DeleteOld
    <2>2. job.pc = "clean"
      BY <1>5 DEF DeleteOld
    <2>3. CASE job' = job
      BY <1>2, <2>1, <2>3
    <2>4. CASE job' = CleanNext /\ job' # job
      <3>1. SUFFICES ASSUME CleanNextFacts, ~job.skipped PROVE CleanedInOrder'
        BY <1>3, <2>2, <2>4, CleanNextLemma, FreshJobs, <1>0
           DEF CleanNextFacts, CleanedInOrder
      <3>2. Consistent(rows \ batch)
        BY <2>2, <3>1, CleanAccepted
      <3>3. rows' = rows \ Old(job.table)
        BY <2>1, <2>4, <3>2
      <3>4. \A r \in rows' : r.table = job.table => r.ts >= Cutoff
        BY <1>0, <3>3, CompactionAssumption DEF Old, Of, Cutoff
      <3>5. \A r \in rows' : r.table < job.table => r.ts >= Cutoff
        BY <2>2, <3>1, <3>3 DEF IInv, CleanedInOrder
      <3>6. Cutoff' = Cutoff /\ job'.table = job.table + 1
        BY <2>4, <3>1 DEF Cutoff, CleanNextFacts
      <3>7. \A r \in rows' : r.table \in Int
        BY <1>0, <3>3
      <3> QED BY <1>0, <3>4, <3>5, <3>6, <3>7 DEF CleanedInOrder
    <2> QED BY <2>1, <2>3, <2>4
  <1>6. CASE Fail
    <2>1. job.pc # "clean" => job' = Cleaning
      BY <1>6 DEF Fail
    <2>2. CASE job.pc = "clean" /\ job.table < Snapshots
      <3>1. job' = [CleanNext EXCEPT !.skipped = TRUE]
        BY <1>6, <2>2 DEF Fail
      <3>2. CleanNext \in Job
        BY <1>0, <2>2, CleanNextLemma, IdleIsJob DEF CleanNextFacts
      <3>3. job'.skipped
        BY <3>1, <3>2 DEF Job
      <3> QED BY <3>3 DEF CleanedInOrder
    <2>3. CASE job.pc = "clean" /\ ~(job.table < Snapshots)
      BY <1>3, <1>6, <2>3, FreshJobs DEF Fail
    <2> QED BY <1>4, <2>1, <2>2, <2>3
  <1>7. CASE StartMaintenance
    BY <1>3, <1>7 DEF StartMaintenance, Idle
  <1>8. CASE ReadBatch
    <2>1. job'.pc = "swap"
      BY <1>0, <1>8 DEF ReadBatch, TypeOK, Job
    <2> QED BY <1>3, <2>1
  <1>9. CASE SwapBatch
    <2>1. job'.pc = "read" \/ job' = Cleaning
      BY <1>0, <1>9 DEF SwapBatch, TypeOK, Job
    <2> QED BY <1>3, <1>4, <2>1
  <1>10. CASE NextTable
    <2>1. job'.pc = "read" \/ job' = Cleaning
      BY <1>0, <1>10 DEF NextTable, TypeOK, Job
    <2> QED BY <1>3, <1>4, <2>1
  <1>11. CASE Kill
    BY <1>3, <1>11, FreshJobs DEF Kill
  <1>12. CASE DeleteRig
    BY <1>12 DEF DeleteRig, CleanedInOrder
  <1> QED BY <1>1, <1>2, <1>5, <1>6, <1>7, <1>8, <1>9, <1>10, <1>11, <1>12
          DEF Next, vars, Tick

\* A batch fits where the rows it replaces were.
LEMMA SwapAccepted ==
    ASSUME IInv, job.pc = "swap", Eligible(job.table, job.from) # {}
    PROVE  Consistent(AfterSwap)
  <1> DEFINE E == Eligible(job.table, job.from)
  <1>0. TypeOK /\ Consistent(rows)
    BY DEF IInv
  <1>1. PICK m \in job.made : /\ job.made = {m} /\ MadeShape(m)
                              /\ SourceIntact(m) \/ SourceGone
    BY DEF IInv, BatchFaithful
  <1>2. job.from \in Instant /\ job.from % 2 = 0 /\ m.table = job.table
                             /\ m.ts = job.from
    BY <1>0, <1>1, StartsAreEven DEF MadeShape, TypeOK, Job
  <1>3. PICK e \in E : e \in rows /\ e.ts < job.start /\ job.from <= e.ts
                                  /\ e.ts < BatchEnd(job.from)
    BY <1>0, <1>2, EligibleIsPast DEF Eligible
  <1>4. e.ts \in Int /\ job.start \in Int /\ job.from \in Int
                     /\ BatchEnd(job.from) \in Int
    BY <1>0, <1>2, <1>3, BatchIsPast, CompactionAssumption
       DEF TypeOK, Row, Job, Instant
  <1>5. SourceIntact(m)
    BY <1>1, <1>3, <1>4 DEF SourceGone
  <1>6. AfterSwap = (rows \ E) \cup {m}
    BY <1>1 DEF AfterSwap
  <1>7. ASSUME NEW q \in rows \ E, q.table = m.table, q.ts = m.ts
        PROVE  FALSE
    <2>1. job.from < BatchEnd(job.from)
      BY <1>3, <1>4
    <2>2. q.table = Snapshots /\ Referenced(q)
      BY <1>2, <1>4, <1>7, <2>1 DEF Eligible, Of
    <2>3. PICK c \in rows : c.table # Snapshots /\ c.ref = q.ref
      BY <2>2 DEF Referenced
    <2>4. c.ref # NewId
      BY <2>3, CompactionAssumption DEF IInv, RowsDated, Instant, NewId
    <2>5. q.ts % 2 = 1
      BY <1>7, <2>2, <2>3, <2>4 DEF IInv, RowsDated
    <2> QED BY <1>2, <1>7, <2>5
  <1>8. \A r, q \in AfterSwap : r.table = q.table /\ r.ts = q.ts => r = q
    BY <1>0, <1>6, <1>7 DEF Consistent
  <1>9. ASSUME NEW c \in AfterSwap, c.table # Snapshots
        PROVE  \E s \in AfterSwap : s.table = Snapshots /\ s.ref = c.ref
    <2>1. ASSUME NEW b \in rows, b.table # Snapshots,
                 b \notin E \/ job.table # Snapshots
          PROVE  \E s \in rows \ E : s.table = Snapshots /\ s.ref = b.ref
      <3>1. PICK s \in rows : s.table = Snapshots /\ s.ref = b.ref
        BY <1>0, <2>1 DEF Consistent
      <3>2. s \notin E
        BY <2>1, <3>1 DEF Eligible, Of, Referenced
      <3> QED BY <3>1, <3>2
    <2>2. CASE c \in rows \ E
      BY <1>6, <1>9, <2>1, <2>2
    <2>3. CASE c = m
      <3>1. job.table # Snapshots
        BY <1>2, <1>9, <2>3
      <3>2. PICK b \in E : b.ref = m.ref
        BY <1>5, <3>1 DEF SourceIntact
      <3>3. b \in rows /\ b.table # Snapshots
        BY <3>1, <3>2 DEF Eligible, Of
      <3> QED BY <1>6, <2>1, <2>3, <3>1, <3>2, <3>3
    <2> QED BY <1>6, <2>2, <2>3
  <1> QED BY <1>8, <1>9 DEF Consistent

-----------------------------------------------------------------------------
\* The invariant the safety theorems rest on.
THEOREM Inductive == Spec => []IInv
  <1>1. IInv /\ [Next]_vars => IInv'
    BY TypeStep, DatedStep, ConsistentStep, CountedStep, FaithfulStep, CleanStep
       DEF IInv
  <1> QED BY InitIInv, <1>1, PTL DEF Spec

\* The database refuses no statement of the maintenance, with the exceptions
\* NeverRefused names.
THEOREM StatementsAccepted == Spec => []NeverRefused
  <1>1. ASSUME IInv PROVE NeverRefused
    <2>1. job.pc = "swap" /\ Eligible(job.table, job.from) # {} => Consistent(AfterSwap)
      BY <1>1, SwapAccepted
    <2>2. job.pc = "clean" /\ ~job.skipped => Consistent(rows \ Old(job.table))
      BY <1>1, CleanAccepted
    <2> QED BY <2>1, <2>2 DEF NeverRefused
  <1> QED BY Inductive, <1>1, PTL

\* Merging, re-merging, kills and failures never count a reading twice.
THEOREM ReadingsCountedOnce == Spec => []CountedOnce
  <1>1. IInv => CountedOnce
    BY DEF IInv
  <1> QED BY Inductive, <1>1, PTL

\* Every variable of Compaction keeps its type.
THEOREM TypeCorrect == Spec => []TypeOK
  <1>1. Init => TypeOK
    BY InitIInv DEF IInv
  <1> QED BY <1>1, TypeStep, PTL DEF Spec

-----------------------------------------------------------------------------
\* Two instants are in the same bucket: none starts between them.
Near(tier, t, u) == \A b \in Starts(tier) : b <= t <=> b <= u

\* The readings of a row are of the tier 3 bucket of its time stamp.
CoversNear ==
    /\ \A r \in rows : \A t \in r.covers : Near(3, t, r.ts)
    /\ \A m \in job.made : \A t \in m.covers : Near(3, t, m.ts)

\* What is owed is of this instant or young enough to be kept.
OwedYoung == \A x \in owed : x[2] = now \/ x[2] >= now - Tier3 + Bucket3 - 1

LossInv == CoversNear /\ OwedYoung /\ NothingLost

\* Two bucket starts are a bucket apart.
LEMMA StartsApart ==
    ASSUME NEW k \in Nat \ {0}, NEW a \in Nat, NEW b \in Nat,
           a % k = 0, b % k = 0, a < b
    PROVE  a + k <= b
  <1>1. PICK p \in Int : a = k * p
    BY SMT
  <1>2. PICK q \in Int : b = k * q
    BY SMT
  <1>3. p < q
    BY <1>1, <1>2, SMT
  <1>4. k * (q - p) >= k
    BY <1>3, SMT
  <1> QED BY <1>1, <1>2, <1>4, SMT

\* Some bucket starts within a bucket's length after an instant.
LEMMA StartAfter ==
    ASSUME NEW k \in Nat \ {0}, NEW x \in Nat
    PROVE  \E b \in Nat : b % k = 0 /\ x < b /\ b <= x + k
  <1>1. x % k \in 0 .. k - 1 /\ x = (k * (x \div k)) + (x % k) /\ x \div k \in Nat
    BY SMT
  <1> DEFINE b == k * (x \div k + 1)
  <1>2. b % k = 0 /\ b \in Nat
    BY <1>1, SMT
  <1>3. b = k * (x \div k) + k
    BY <1>1, SMT
  <1>4. x < b /\ b <= x + k
    BY <1>1, <1>3, SMT
  <1> HIDE DEF b
  <1> QED BY <1>2, <1>4

\* An instant is near the start of its bucket, also in the longer buckets of
\* tier 3, which those of tier 2 do not cross.
LEMMA BucketIsNear ==
    ASSUME NEW tier \in {2, 3}, NEW other \in {2, 3}, tier <= other,
           NEW lo \in Starts(tier), NEW u \in Instant,
           lo <= u, u < lo + Bucket(tier)
    PROVE  Near(other, u, lo)
  <1> SUFFICES ASSUME NEW b \in Starts(other), b <= u, ~(b <= lo) PROVE FALSE
    BY CompactionAssumption DEF Near, Starts, Instant
  <1>1. /\ Bucket(tier) \in Nat \ {0} /\ lo \in Nat /\ b \in Nat /\ u \in Nat
        /\ lo % Bucket(tier) = 0
    BY TierFacts, CompactionAssumption DEF Starts, Instant
  <1>2. b % Bucket(tier) = 0
    BY CompactionAssumption DEF Starts, Bucket, Instant
  <1>3. lo + Bucket(tier) <= b
    BY <1>1, <1>2, StartsApart
  <1> QED BY <1>1, <1>3

\* An instant near another one is less than a bucket later.
LEMMA NearIsClose ==
    ASSUME NEW tier \in {2, 3}, NEW t \in Instant, NEW u \in Instant, Near(tier, t, u)
    PROVE  t < u + Bucket(tier)
  <1>1. /\ Bucket(tier) \in Nat \ {0} /\ MaxTime \in Nat
        /\ t \in Nat /\ u \in Nat /\ t <= MaxTime
    BY TierFacts, CompactionAssumption DEF Instant
  <1>2. PICK b \in Nat : b % Bucket(tier) = 0 /\ u < b /\ b <= u + Bucket(tier)
    BY <1>1, StartAfter
  <1>3. CASE b <= MaxTime
    <2>1. b \in Starts(tier)
      BY <1>1, <1>2, <1>3 DEF Starts, Instant
    <2> QED BY <1>1, <1>2, <2>1 DEF Near
  <1>4. CASE b > MaxTime
    BY <1>1, <1>2, <1>4
  <1> QED BY <1>1, <1>3, <1>4

\* The other steps make no row but the one in the temporary table.
LEMMA MadeShrinks ==
    ASSUME TypeOK,
           SwapBatch \/ DeleteRig \/ Tick \/ StartMaintenance \/ NextTable \/ DeleteOld
             \/ Fail \/ Kill \/ UNCHANGED vars
    PROVE  rows' \subseteq rows \cup job.made /\ job'.made \subseteq job.made
  <1>1. Idle.made = {} /\ Cleaning.made = {} /\ [Idle EXCEPT !.pc = "read", !.start = now].made = {}
    BY DEF Cleaning, Idle
  <1>2. CleanNext.made \subseteq job.made /\ [CleanNext EXCEPT !.skipped = TRUE].made \subseteq job.made
    BY <1>1, IdleIsJob DEF CleanNext, TypeOK, Job
  <1>3. CASE DeleteRig \/ Tick \/ UNCHANGED vars
    BY <1>3 DEF DeleteRig, Tick, vars
  <1>4. CASE StartMaintenance \/ Kill
    BY <1>1, <1>4 DEF StartMaintenance, Kill
  <1>5. CASE NextTable
    BY <1>1, <1>5 DEF NextTable, TypeOK, Job
  <1>6. CASE DeleteOld
    BY <1>2, <1>6 DEF DeleteOld
  <1>7. CASE Fail
    BY <1>1, <1>2, <1>7 DEF Fail
  <1>8. CASE SwapBatch
    <2>1. rows' \subseteq rows \cup job.made
      BY <1>8 DEF SwapBatch, AfterSwap
    <2>2. job'.made \subseteq job.made
      BY <1>1, <1>8 DEF SwapBatch, TypeOK, Job
    <2> QED BY <2>1, <2>2
  <1> QED BY <1>3, <1>4, <1>5, <1>6, <1>7, <1>8

\* A batch merges readings of one bucket only.
LEMMA NearStep == IInv /\ CoversNear /\ [Next]_vars => CoversNear'
  <1> SUFFICES ASSUME IInv, CoversNear, [Next]_vars PROVE CoversNear'
    OBVIOUS
  <1>0. TypeOK
    BY DEF IInv
  <1>1. ASSUME NEW devices \in SUBSET (1 .. Children), Report(devices)
        PROVE  CoversNear'
    <2>1. \A r \in rows' : r \in rows \/ (r.ts = now /\ r.covers = {now})
      BY <1>1, FreshRows DEF Fresh
    <2> QED BY <1>1, <2>1 DEF CoversNear, Near, Report
  <1>2. CASE ReadBatch
    <2>1. PICK lo \in Batches : \E newest \in Eligible(job.table, lo) :
            job' = [job EXCEPT !.pc = "swap", !.from = lo,
                      !.made = {Compacted(job.table, lo,
                                          Eligible(job.table, lo), newest)}]
      BY <1>2 DEF ReadBatch
    <2>2. PICK newest \in Eligible(job.table, lo) :
            job' = [job EXCEPT !.pc = "swap", !.from = lo,
                      !.made = {Compacted(job.table, lo,
                                          Eligible(job.table, lo), newest)}]
      BY <2>1
    <2>3. job'.made = {Compacted(job.table, lo, Eligible(job.table, lo), newest)}
      BY <1>0, <2>2 DEF TypeOK, Job
    <2>4. job.tier \in {2, 3} /\ lo \in Starts(job.tier) /\ lo \in Instant
      BY <1>0 DEF Batches, Starts, TypeOK, Job
    <2>5. ASSUME NEW r \in Eligible(job.table, lo), NEW t \in r.covers PROVE Near(3, t, lo)
      <3>1. r \in rows /\ r.ts \in Instant /\ lo <= r.ts /\ r.ts < BatchEnd(lo)
        BY <1>0 DEF Eligible, Of, TypeOK, Row
      <3>2. BatchEnd(lo) <= lo + Bucket(job.tier) /\ BatchEnd(lo) \in Int
        <4>1. job.start \in Int /\ lo \in Int
          BY <1>0, <2>4, CompactionAssumption DEF TypeOK, Job, Instant
        <4> QED BY <2>4, <4>1, TierFacts DEF BatchEnd, WindowEnd
      <3>3. r.ts < lo + Bucket(job.tier)
        BY <2>4, <3>1, <3>2, TierFacts, CompactionAssumption DEF Instant
      <3>4. Near(3, r.ts, lo)
        BY <2>4, <3>1, <3>3, BucketIsNear
      <3> QED BY <3>1, <3>4 DEF CoversNear, Near
    <2>6. \A m \in job'.made : m.ts = lo /\ m.covers = UNION {r.covers : r \in Eligible(job.table, lo)}
      BY <2>3 DEF Compacted
    <2>7. \A m \in job'.made : \A t \in m.covers : Near(3, t, m.ts)
      BY <2>5, <2>6
    <2> QED BY <1>2, <2>7 DEF ReadBatch, CoversNear, Near, Starts, Bucket
  <1>3. CASE rows' \subseteq rows \cup job.made /\ job'.made \subseteq job.made
    BY <1>3 DEF CoversNear, Near, Starts, Bucket
  <1> QED BY <1>0, <1>1, <1>2, <1>3, MadeShrinks DEF Next

\* What gets too old to be kept is no longer owed.
LEMMA OwedStep == IInv /\ OwedYoung /\ [Next]_vars => OwedYoung'
  <1> SUFFICES ASSUME IInv, OwedYoung, [Next]_vars PROVE OwedYoung'
    OBVIOUS
  <1>1. ASSUME NEW devices \in SUBSET (1 .. Children), Report(devices)
        PROVE  OwedYoung'
    BY <1>1 DEF Report, OwedYoung
  <1>2. CASE DeleteRig
    BY <1>2 DEF DeleteRig, OwedYoung
  <1>3. CASE Tick
    BY <1>3 DEF Tick, OwedYoung
  <1>4. CASE UNCHANGED <<owed, now>>
    BY <1>4 DEF OwedYoung
  <1> QED BY <1>1, <1>2, <1>3, <1>4
          DEF Next, vars, StartMaintenance, ReadBatch, SwapBatch, NextTable, DeleteOld, Fail, Kill

\* No step loses a reading that is owed.
LEMMA LossStep == IInv /\ LossInv /\ [Next]_vars => NothingLost'
  <1> SUFFICES ASSUME IInv, LossInv, [Next]_vars PROVE NothingLost'
    OBVIOUS
  <1>0. TypeOK /\ NothingLost /\ CoversNear /\ OwedYoung
    BY DEF IInv, LossInv
  <1>1. ASSUME NEW devices \in SUBSET (1 .. Children), Report(devices)
        PROVE  NothingLost'
    <2>1. rows \subseteq rows' /\ \A tb \in devices \cup {Snapshots} : Fresh(tb) \in rows'
      BY <1>1 DEF Report, Fresh
    <2>2. \A x \in owed' : x \in owed \/ (x[1] \in devices \cup {Snapshots} /\ x[2] = now)
      BY <1>1 DEF Report
    <2>3. \A tb : Fresh(tb).table = tb /\ Fresh(tb).covers = {now}
      BY DEF Fresh
    <2> SUFFICES ASSUME NEW x \in owed'
                 PROVE  \E r \in rows' : r.table = x[1] /\ x[2] \in r.covers
      BY DEF NothingLost, Of
    <2>4. CASE x \in owed
      BY <1>0, <2>1, <2>4 DEF NothingLost, Of
    <2>5. CASE x[1] \in devices \cup {Snapshots} /\ x[2] = now
      BY <2>1, <2>3, <2>5
    <2> QED BY <2>2, <2>4, <2>5
  <1>2. CASE owed' \subseteq owed /\ rows' = rows
    BY <1>0, <1>2 DEF NothingLost, Of
  <1>3. CASE DeleteRig
    BY <1>3 DEF DeleteRig, NothingLost
  <1>4. CASE SwapBatch /\ rows' # rows
    <2>1. rows' = AfterSwap /\ owed' = owed /\ job.pc = "swap"
      BY <1>4 DEF SwapBatch
    <2>2. PICK m \in job.made : /\ job.made = {m} /\ MadeShape(m)
                                /\ SourceIntact(m) \/ SourceGone
      BY <2>1 DEF IInv, BatchFaithful
    <2> SUFFICES ASSUME NEW x \in owed
                 PROVE  \E r \in rows' : r.table = x[1] /\ x[2] \in r.covers
      BY <2>1 DEF NothingLost, Of
    <2>3. PICK r \in rows : r.table = x[1] /\ x[2] \in r.covers
      BY <1>0 DEF NothingLost, Of
    <2>4. CASE r \notin Eligible(job.table, job.from)
      BY <2>1, <2>3, <2>4 DEF AfterSwap
    <2>5. CASE r \in Eligible(job.table, job.from)
      <3>1. r.table = job.table /\ r.ts < job.start
        BY <1>0, <2>2, <2>5, EligibleIsPast DEF MadeShape, Starts
      <3>2. r.ts \in Int /\ job.start \in Int
        BY <1>0, CompactionAssumption DEF TypeOK, Row, Job, Instant
      <3>3. ~SourceGone
        BY <2>3, <3>1, <3>2 DEF SourceGone
      <3>4. x[2] \in m.covers
        BY <2>2, <2>3, <2>5, <3>3 DEF SourceIntact
      <3> QED BY <2>1, <2>2, <2>3, <3>1, <3>4 DEF AfterSwap, MadeShape
    <2> QED BY <2>4, <2>5
  <1>5. CASE DeleteOld
    <2>1. owed' = owed /\ \A r \in rows : r.ts >= Cutoff => r \in rows'
      <3>1. PICK batch \in SUBSET Old(job.table) : rows' = rows \/ rows' = rows \ batch
        BY <1>5 DEF DeleteOld
      <3>2. Cutoff \in Int /\ \A r \in rows : r.ts \in Int
        BY <1>0, CompactionAssumption DEF TypeOK, Row, Job, Instant, Cutoff
      <3> QED BY <1>5, <3>1, <3>2 DEF DeleteOld, Old
    <2> SUFFICES ASSUME NEW x \in owed
                 PROVE  \E r \in rows' : r.table = x[1] /\ x[2] \in r.covers
      BY <2>1 DEF NothingLost, Of
    <2>2. PICK r \in rows : r.table = x[1] /\ x[2] \in r.covers
      BY <1>0 DEF NothingLost, Of
    <2>3. /\ r.ts \in Instant /\ x[2] \in Instant /\ now \in Int /\ job.start \in Int
          /\ job.start <= now /\ Bucket3 \in Nat /\ Tier3 \in Nat /\ Instant \subseteq Int
      BY <1>0, <1>5, <2>2, CompactionAssumption DEF TypeOK, Row, Job, Instant, IInv, RunDated, DeleteOld
    <2>4. CASE x[2] = now
      <3>1. r.ts = now
        BY <2>2, <2>3, <2>4 DEF IInv, RowsDated
      <3> QED BY <2>1, <2>2, <2>3, <3>1 DEF Cutoff
    <2>5. CASE x[2] >= now - Tier3 + Bucket3 - 1
      <3>1. x[2] < r.ts + Bucket3
        <4>1. Near(3, x[2], r.ts)
          BY <1>0, <2>2 DEF CoversNear
        <4>2. x[2] < r.ts + Bucket(3)
          BY <2>3, <4>1, NearIsClose
        <4> QED BY <4>2 DEF Bucket
      <3>2. r.ts >= Cutoff
        <4>1. r.ts \in Int /\ x[2] \in Int
          BY <2>3
        <4>2. x[2] <= r.ts + Bucket3 - 1
          BY <2>3, <3>1, <4>1
        <4>3. now - Tier3 <= r.ts
          BY <2>3, <2>5, <4>1, <4>2
        <4> QED BY <2>3, <4>1, <4>3 DEF Cutoff
      <3> QED BY <2>1, <2>2, <3>2
    <2> QED BY <1>0, <2>4, <2>5 DEF OwedYoung
  <1> QED BY <1>1, <1>2, <1>3, <1>4, <1>5
          DEF Next, vars, Tick, StartMaintenance, ReadBatch, SwapBatch, NextTable, Fail, Kill

\* What is younger than the retention is stored, whatever is killed, fails or is
\* merged again (_compact_table, cleanup_old_data).
THEOREM ReadingsKept == Spec => []NothingLost
  <1>1. Init => LossInv
    BY DEF Init, Idle, LossInv, CoversNear, OwedYoung, NothingLost
  <1>2. IInv /\ LossInv /\ [Next]_vars => LossInv'
    BY NearStep, OwedStep, LossStep DEF LossInv
  <1>3. LossInv => NothingLost
    BY DEF LossInv
  <1> QED BY Inductive, <1>1, <1>2, <1>3, PTL DEF Spec

-----------------------------------------------------------------------------
\* A row that is merged has no reading of the last day, and one that is merged
\* across tier 2 buckets starts with its tier 3 bucket and is older than a week.
Aged(r) ==
    /\ r.covers = {r.ts} \/ \A t \in r.covers : t < now - Tier1
    /\ \/ \A t \in r.covers : Near(2, t, r.ts)
       \/ /\ r.ts \in Starts(3) /\ r.ts < now - Tier2
          /\ \A t \in r.covers : t < now - Tier2 + Bucket2

AgedInv == (\A r \in rows : Aged(r)) /\ (\A m \in job.made : Aged(m))

\* Rounding down to a multiple (BucketOf).
LEMMA RoundedDown ==
    ASSUME NEW k \in Nat \ {0}, NEW x \in Nat
    PROVE  /\ x - (x % k) \in Nat /\ (x - (x % k)) % k = 0
           /\ x - (x % k) <= x /\ x < x - (x % k) + k
  <1>1. x % k \in 0 .. k - 1 /\ x = k * (x \div k) + (x % k) /\ x \div k \in Nat
    BY SMT
  <1>2. x - (x % k) = k * (x \div k)
    BY <1>1
  <1>3. (k * (x \div k)) % k = 0
    BY <1>1, SMT
  <1>4. k * (x \div k) \in Nat
    BY <1>1, SMT
  <1>5. x - (x % k) <= x /\ x < x - (x % k) + k
    BY <1>1
  <1> QED BY <1>2, <1>3, <1>4, <1>5

\* The bucket of an instant (BucketOf) begins at or before it, less than a bucket.
LEMMA BucketBegins ==
    ASSUME NEW tier \in {2, 3}, NEW x \in Instant, NEW size, size = Bucket(tier)
    PROVE  /\ BucketOf(x, size) \in Starts(tier) /\ BucketOf(x, size) <= x
           /\ x < BucketOf(x, size) + size
           /\ BucketOf(x, size) \in Nat /\ BucketOf(x, size) % size = 0
  <1>1. size \in Nat \ {0} /\ x \in Nat /\ MaxTime \in Nat /\ x <= MaxTime
    BY TierFacts, CompactionAssumption DEF Instant
  <1>2. /\ BucketOf(x, size) \in Nat /\ BucketOf(x, size) % size = 0
        /\ BucketOf(x, size) <= x /\ x < BucketOf(x, size) + size
    BY <1>1, RoundedDown DEF BucketOf
  <1> QED BY <1>1, <1>2 DEF Starts, Instant

\* Instants near each other have the same bucket.
LEMMA NearIsSame ==
    ASSUME NEW t \in Instant, NEW u \in Instant, Near(2, t, u)
    PROVE  BucketOf(t, Bucket2) = BucketOf(u, Bucket2)
  <1>1. /\ Bucket2 \in Nat \ {0} /\ MaxTime \in Nat /\ t \in 0 .. MaxTime /\ u \in 0 .. MaxTime
        /\ Bucket2 = Bucket(2)
    BY CompactionAssumption DEF Instant, Bucket
  <1> DEFINE a == BucketOf(t, Bucket2)
             b == BucketOf(u, Bucket2)
  <1>3. /\ a \in Starts(2) /\ a <= t /\ t < a + Bucket2 /\ a \in Nat /\ a % Bucket2 = 0
        /\ b \in Starts(2) /\ b <= u /\ u < b + Bucket2 /\ b \in Nat /\ b % Bucket2 = 0
    BY <1>1, BucketBegins
  <1>4. a <= u /\ b <= t
    BY <1>3 DEF Near
  <1> HIDE DEF a, b
  <1>5. a < b => a + Bucket2 <= b
    BY <1>1, <1>3, StartsApart
  <1>6. b < a => b + Bucket2 <= a
    BY <1>1, <1>3, StartsApart
  <1>7. a = b
    BY <1>1, <1>3, <1>4, <1>5, <1>6
  <1> QED BY <1>7 DEF a, b

\* What a batch makes of aged rows is aged.
LEMMA CompactedIsAged ==
    ASSUME IInv, AgedInv, job.pc = "read", NEW lo \in Starts(job.tier),
           NEW m, m.ts = lo, m.covers = UNION {r.covers : r \in Eligible(job.table, lo)},
           NEW newest \in Eligible(job.table, lo)
    PROVE  Aged(m)
  <1> DEFINE E == Eligible(job.table, lo)
  <1>1. /\ TypeOK /\ job.start \in Nat /\ now \in Nat /\ job.start <= now /\ lo \in Nat /\ lo \in Instant
        /\ job.tier \in {2, 3} /\ Tier1 \in Nat /\ Tier2 \in Nat /\ Tier1 < Tier2
        /\ Bucket2 \in Nat /\ Bucket3 \in Nat /\ Instant \subseteq Nat
    BY CompactionAssumption DEF IInv, TypeOK, RunDated, Job, Instant, Starts
  <1>2. BatchEnd(lo) <= WindowEnd /\ BatchEnd(lo) <= lo + Bucket(job.tier) /\ BatchEnd(lo) \in Int
        /\ WindowEnd <= now - Tier1 /\ WindowEnd \in Int
        /\ (job.tier = 3 => WindowEnd <= now - Tier2)
    BY <1>1, TierFacts DEF BatchEnd, WindowEnd, YoungestAge
  <1>3. ASSUME NEW r \in E
        PROVE  /\ r \in rows /\ r.ts \in Nat /\ r.ts \in Instant /\ r.covers \subseteq Instant /\ Aged(r)
               /\ lo <= r.ts /\ r.ts < BatchEnd(lo)
    BY <1>1 DEF Eligible, Of, TypeOK, Row, AgedInv
  <1>4. ASSUME NEW r \in E, NEW t \in r.covers
        PROVE  t < now - Tier1
    <2>1. r.ts < now - Tier1
      BY <1>1, <1>2, <1>3
    <2> QED BY <1>3, <2>1 DEF Aged
  <1>5. ASSUME NEW r \in E, NEW t \in r.covers, r.ts < now - Tier2
        PROVE  t < now - Tier2 + Bucket2
    <2>1. CASE Near(2, t, r.ts)
      <3>1. t \in Instant /\ t \in Nat
        BY <1>1, <1>3
      <3>2. t < r.ts + Bucket(2)
        BY <1>3, <2>1, <3>1, NearIsClose
      <3>3. t < r.ts + Bucket2
        BY <3>2 DEF Bucket
      <3> QED BY <1>1, <1>3, <1>5, <3>1, <3>3
    <2> QED BY <1>3, <2>1 DEF Aged
  <1>6. \/ \A t \in m.covers : Near(2, t, lo)
        \/ lo \in Starts(3) /\ lo < now - Tier2 /\ \A t \in m.covers : t < now - Tier2 + Bucket2
    <2>1. CASE job.tier = 3
      <3>1. \A r \in E : r.ts < now - Tier2
        BY <1>1, <1>2, <1>3, <2>1
      <3>2. lo < now - Tier2
        BY <1>1, <1>3, <3>1
      <3> QED BY <1>5, <2>1, <3>1, <3>2
    <2>2. CASE job.tier = 2 /\ \A r \in E : \A t \in r.covers : Near(2, t, r.ts)
      <3>1. ASSUME NEW r \in E PROVE Near(2, r.ts, lo)
        <4>1. r.ts < lo + Bucket(2) /\ lo <= r.ts
          BY <1>1, <1>2, <1>3, <2>2, TierFacts
        <4> QED BY <1>3, <2>2, <4>1, BucketIsNear
      <3> QED BY <2>2, <3>1 DEF Near
    <2>3. CASE job.tier = 2 /\ ~ \A r \in E : \A t \in r.covers : Near(2, t, r.ts)
      <3>1. PICK q \in E : q.ts \in Starts(3) /\ q.ts < now - Tier2
        BY <1>3, <2>3 DEF Aged
      <3>2. q.ts = lo
        <4>1. q.ts % Bucket2 = 0 /\ lo % Bucket2 = 0 /\ q.ts < lo + Bucket2
          BY <1>1, <1>2, <1>3, <2>3, <3>1, CompactionAssumption DEF Starts, Bucket, Instant
        <4>2. lo < q.ts => lo + Bucket2 <= q.ts
          BY <1>1, <1>3, <4>1, StartsApart, CompactionAssumption
        <4> QED BY <1>1, <1>3, <4>1, <4>2
      <3>3. ASSUME NEW r \in E, NEW t \in r.covers PROVE t < now - Tier2 + Bucket2
        <4>1. CASE Near(2, t, r.ts)
          <5>1. Near(2, r.ts, lo)
            <6>1. r.ts < lo + Bucket(2) /\ lo <= r.ts
              BY <1>1, <1>2, <1>3, <2>3, TierFacts
            <6> QED BY <1>3, <2>3, <6>1, BucketIsNear
          <5>2. Near(2, t, lo) /\ t \in Instant /\ t \in Nat
            BY <1>1, <1>3, <4>1, <5>1 DEF Near
          <5>3. t < lo + Bucket(2)
            BY <1>1, <5>2, NearIsClose
          <5>4. t < lo + Bucket2
            BY <5>3 DEF Bucket
          <5> QED BY <1>1, <3>1, <3>2, <5>2, <5>4
        <4> QED BY <1>3, <4>1 DEF Aged
      <3> QED BY <3>1, <3>2, <3>3
    <2> QED BY <1>1, <2>1, <2>2, <2>3
  <1> QED BY <1>4, <1>6 DEF Aged

\* Time makes rows older, and what a batch merges is old enough.
LEMMA AgedStep == IInv /\ AgedInv /\ [Next]_vars => AgedInv'
  <1> SUFFICES ASSUME IInv, AgedInv, [Next]_vars PROVE AgedInv'
    OBVIOUS
  <1>0. TypeOK
    BY DEF IInv
  <1>1. ASSUME now' \in Nat, now <= now', NEW r, r.ts \in Nat, r.covers \subseteq Nat, Aged(r)
        PROVE  Aged(r)'
    <2>1. now \in Nat /\ Tier1 \in Nat /\ Tier2 \in Nat /\ Bucket2 \in Nat
      BY <1>0, CompactionAssumption DEF TypeOK, Instant
    <2>2. (\A t \in r.covers : t < now - Tier1) => \A t \in r.covers : t < now' - Tier1
      BY <1>1, <2>1
    <2>3. (\A t \in r.covers : t < now - Tier2 + Bucket2) => \A t \in r.covers : t < now' - Tier2 + Bucket2
      BY <1>1, <2>1
    <2>4. r.ts < now - Tier2 => r.ts < now' - Tier2
      BY <1>1, <2>1
    <2> QED BY <1>1, <2>2, <2>3, <2>4 DEF Aged, Near, Starts, Bucket
  <1>2. \A r \in rows \cup job.made : r.ts \in Nat /\ r.covers \subseteq Nat
    BY <1>0, CompactionAssumption DEF TypeOK, Row, Job, Instant
  <1>3. now' \in Nat /\ now <= now'
    <2>1. now \in Nat
      BY <1>0, CompactionAssumption DEF TypeOK, Instant
    <2>2. CASE Tick
      BY <2>1, <2>2 DEF Tick
    <2>3. CASE DeleteRig \/ StartMaintenance \/ ReadBatch \/ SwapBatch \/ NextTable \/ DeleteOld
               \/ Fail \/ Kill \/ UNCHANGED vars \/ \E devices \in SUBSET (1 .. Children) : Report(devices)
      <3>1. now' = now
        BY <2>3 DEF DeleteRig, StartMaintenance, ReadBatch, SwapBatch, NextTable, DeleteOld, Fail,
                    Kill, vars, Report
      <3> QED BY <2>1, <3>1
    <2> QED BY <2>2, <2>3 DEF Next
  <1>4. \A r \in rows \cup job.made : Aged(r)'
    BY <1>1, <1>2, <1>3 DEF AgedInv
  <1>5. CASE rows' \subseteq rows \cup job.made /\ job'.made \subseteq job.made
    BY <1>4, <1>5 DEF AgedInv
  <1>6. ASSUME NEW devices \in SUBSET (1 .. Children), Report(devices)
        PROVE  AgedInv'
    <2>1. \A r \in rows' : r \in rows \/ (r.ts = now /\ r.covers = {now})
      BY <1>6, FreshRows DEF Fresh
    <2>2. ASSUME NEW r \in rows', r.ts = now, r.covers = {now} PROVE Aged(r)'
      BY <2>2 DEF Aged, Near
    <2> QED BY <1>4, <1>6, <2>1, <2>2 DEF AgedInv, Report
  <1>7. CASE ReadBatch
    <2>1. PICK lo \in Batches : \E newest \in Eligible(job.table, lo) :
            job' = [job EXCEPT !.pc = "swap", !.from = lo,
                      !.made = {Compacted(job.table, lo,
                                          Eligible(job.table, lo), newest)}]
      BY <1>7 DEF ReadBatch
    <2>2. PICK newest \in Eligible(job.table, lo) :
            job' = [job EXCEPT !.pc = "swap", !.from = lo,
                      !.made = {Compacted(job.table, lo,
                                          Eligible(job.table, lo), newest)}]
      BY <2>1
    <2>3. job'.made = {Compacted(job.table, lo, Eligible(job.table, lo), newest)}
      BY <1>0, <2>2 DEF TypeOK, Job
    <2>4. lo \in Starts(job.tier) /\ job.pc = "read" /\ rows' = rows /\ now' = now
      BY <1>7 DEF Batches, ReadBatch
    <2>5. ASSUME NEW m \in job'.made PROVE Aged(m)
      <3>1. m.ts = lo /\ m.covers = UNION {r.covers : r \in Eligible(job.table, lo)}
        BY <2>3 DEF Compacted
      <3> QED BY <2>4, <3>1, CompactedIsAged
    <2>6. \A m \in job'.made : Aged(m)'
      BY <2>4, <2>5 DEF Aged, Near, Starts, Bucket
    <2> QED BY <1>4, <2>4, <2>6 DEF AgedInv
  <1>8. ASSUME SwapBatch \/ DeleteRig \/ Tick \/ StartMaintenance \/ NextTable \/ DeleteOld
               \/ Fail \/ Kill \/ UNCHANGED vars
        PROVE  rows' \subseteq rows \cup job.made /\ job'.made \subseteq job.made
    BY <1>0, <1>8, MadeShrinks
  <1> QED BY <1>5, <1>6, <1>7, <1>8 DEF Next

\* Charts of the last day find raw rows and charts of the last week rows of one
\* tier 2 bucket each (the windows of _compact_table).
THEOREM ResolutionIsKept == Spec => []ResolutionKept
  <1>1. Init => AgedInv
    BY DEF Init, Idle, AgedInv
  <1>2. ASSUME IInv, AgedInv PROVE ResolutionKept
    <2> SUFFICES ASSUME NEW r \in rows, NEW t \in r.covers, NEW u \in r.covers
                 PROVE  /\ t # u => t < now - Tier1
                        /\ BucketOf(t, Bucket2) # BucketOf(u, Bucket2) => t < now - Tier2 + Bucket2
      BY DEF ResolutionKept
    <2>1. Aged(r) /\ t \in Instant /\ u \in Instant
      BY <1>2 DEF AgedInv, IInv, TypeOK, Row
    <2>2. t # u => t < now - Tier1
      BY <2>1 DEF Aged
    <2>3. CASE \A x \in r.covers : Near(2, x, r.ts)
      <3>1. Near(2, t, u)
        BY <2>3 DEF Near
      <3> QED BY <2>1, <2>2, <3>1, NearIsSame
    <2>4. CASE ~ \A x \in r.covers : Near(2, x, r.ts)
      BY <2>1, <2>2, <2>4 DEF Aged
    <2> QED BY <2>3, <2>4
  <1> QED BY Inductive, <1>1, <1>2, AgedStep, PTL DEF Spec
-----------------------------------------------------------------------------
\* Only while a batch is under way is there a temporary table.
HandInv == job.pc # "swap" => job.made = {}

\* Every end of a batch empties the temporary table.
LEMMA HandStep == IInv /\ HandInv /\ [Next]_vars => HandInv'
  <1> SUFFICES ASSUME IInv, HandInv, [Next]_vars PROVE HandInv'
    OBVIOUS
  <1>0. TypeOK
    BY DEF IInv
  <1>1. Idle.made = {} /\ Cleaning.made = {} /\ [Idle EXCEPT !.pc = "read", !.start = now].made = {}
    BY DEF Cleaning, Idle
  <1>2. CASE UNCHANGED job
    BY <1>2 DEF HandInv
  <1>3. CASE ReadBatch
    BY <1>0, <1>3 DEF ReadBatch, HandInv, TypeOK, Job
  <1>4. CASE SwapBatch
    BY <1>0, <1>1, <1>4 DEF SwapBatch, HandInv, TypeOK, Job
  <1>5. CASE StartMaintenance \/ Kill
    BY <1>1, <1>5 DEF StartMaintenance, Kill, HandInv
  <1>6. CASE NextTable
    BY <1>0, <1>1, <1>6 DEF NextTable, HandInv, TypeOK, Job
  <1>7. CASE DeleteOld \/ (Fail /\ job.pc = "clean")
    <2>1. job.made = {}
      BY <1>7 DEF DeleteOld, HandInv
    <2>2. CleanNext.made = {} /\ [CleanNext EXCEPT !.skipped = TRUE].made = {}
      BY <1>0, <1>1, <2>1, IdleIsJob DEF CleanNext, TypeOK, Job
    <2> QED BY <1>1, <1>7, <2>1, <2>2 DEF DeleteOld, Fail, HandInv
  <1>8. CASE Fail /\ job.pc # "clean"
    BY <1>1, <1>8 DEF Fail, HandInv
  <1>9. CASE DeleteRig \/ Tick \/ UNCHANGED vars \/ \E devices \in SUBSET (1 .. Children) : Report(devices)
    BY <1>2, <1>9 DEF DeleteRig, Tick, vars, Report
  <1> QED BY <1>3, <1>4, <1>5, <1>6, <1>7, <1>8, <1>9 DEF Next

\* A reading of some rows is a reading of one of them.
LEMMA ReadingIn ==
    ASSUME NEW set, NEW x
    PROVE  x \in ReadingsOf(set) <=> \E r \in set : \E t \in r.covers : x = <<r.table, t>>
  <1>1. x \in ReadingsOf(set) <=> \E r \in set : x \in {r.table} \X r.covers
    BY DEF ReadingsOf
  <1>2. \A r : x \in {r.table} \X r.covers <=> \E t \in r.covers : x = <<r.table, t>>
    OBVIOUS
  <1> QED BY <1>1, <1>2

\* A report adds its readings (Report).
LEMMA ReportIsAdd ==
    ASSUME NEW devices \in SUBSET (1 .. Children), Report(devices)
    PROVE  Kept!Next
  <1> DEFINE D == devices \cup {Snapshots}
  <1>1. D \in SUBSET Tables
    BY CompactionAssumption DEF Tables, Snapshots
  <1>2. rows' = rows \cup {Fresh(tb) : tb \in D}
    BY DEF Report, Fresh
  <1>3. \A tb : Fresh(tb).table = tb /\ Fresh(tb).covers = {now}
    BY DEF Fresh
  <1>4. ASSUME NEW x PROVE x \in ReadingsOf(rows)' <=> x \in ReadingsOf(rows) \cup (D \X {now})
    <2> HIDE DEF D
    <2>1. x \in ReadingsOf(rows)' <=> \E r \in rows' : \E t \in r.covers : x = <<r.table, t>>
      BY ReadingIn DEF ReadingsOf
    <2>2. x \in D \X {now} <=> \E tb \in D : x = <<tb, now>>
      OBVIOUS
    <2>3. (\E tb \in D : \E t \in Fresh(tb).covers : x = <<Fresh(tb).table, t>>)
            <=> \E tb \in D : x = <<tb, now>>
      BY <1>3
    <2> QED BY <1>2, <2>1, <2>2, <2>3, ReadingIn
  <1>5. ReadingsOf(rows)' = ReadingsOf(rows) \cup (D \X {now})
    BY <1>4
  <1>6. ReadingsOf(job.made)' = ReadingsOf(job.made) /\ now' = now
    BY DEF Report, ReadingsOf
  <1> HIDE DEF D
  <1> QED BY <1>1, <1>5, <1>6 DEF Kept!Next, Kept!Add

\* What a batch is read from is taken in hand (ReadBatch).
LEMMA ReadIsTake ==
    ASSUME IInv, LossInv, AgedInv, ReadBatch
    PROVE  Kept!Next
  <1>0. TypeOK /\ CoversNear' /\ AgedInv' /\ TypeOK' /\ IInv'
    <2>1. [Next]_vars
      BY DEF Next
    <2> QED BY <2>1, NearStep, AgedStep, TypeStep, DatedStep, ConsistentStep, CountedStep, FaithfulStep, CleanStep
            DEF IInv, LossInv
  <1>1. PICK lo \in Batches : \E newest \in Eligible(job.table, lo) :
          job' = [job EXCEPT !.pc = "swap", !.from = lo,
                    !.made = {Compacted(job.table, lo, Eligible(job.table, lo), newest)}]
    BY DEF ReadBatch
  <1>2. PICK newest \in Eligible(job.table, lo) :
          job' = [job EXCEPT !.pc = "swap", !.from = lo,
                    !.made = {Compacted(job.table, lo, Eligible(job.table, lo), newest)}]
    BY <1>1
  <1> DEFINE E == Eligible(job.table, lo)
             m == Compacted(job.table, lo, E, newest)
             some == ReadingsOf({m})
  <1>3. job'.made = {m} /\ m.table = job.table /\ m.ts = lo /\ m.covers = UNION {r.covers : r \in E}
    BY <1>0, <1>2 DEF TypeOK, Job, Compacted
  <1>4. rows' = rows /\ now' = now /\ job.pc = "read"
    BY DEF ReadBatch
  <1>5. /\ lo \in Instant /\ lo \in Nat /\ lo < WindowEnd /\ WindowEnd \in Int
        /\ WindowEnd <= now - Tier1 /\ now \in Nat /\ Tier1 \in Nat /\ Bucket3 \in Nat
    <2>1. /\ lo \in Starts(job.tier) /\ lo < WindowEnd /\ job.tier \in {2, 3}
          /\ job.start \in Nat /\ now \in Nat /\ job.start <= now
      BY <1>0, <1>4, CompactionAssumption DEF Batches, TypeOK, Job, Instant, IInv, RunDated
    <2> QED BY <2>1, CompactionAssumption DEF Starts, Instant, WindowEnd, YoungestAge
  <1>6. m \in Row /\ m.covers \subseteq Nat
    BY <1>0, <1>3, CompactionAssumption DEF TypeOK, Job, Row, Instant
  <1>7. \A t \in m.covers : t < now - Tier1
    <2>1. m.covers = {m.ts} \/ \A t \in m.covers : t < now - Tier1
      BY <1>0, <1>3, <1>4 DEF AgedInv, Aged
    <2> QED BY <1>3, <1>5, <2>1
  <1>8. \A t, u \in m.covers : t < u + Bucket3
    <2> SUFFICES ASSUME NEW t \in m.covers, NEW u \in m.covers PROVE t < u + Bucket3
      OBVIOUS
    <2>1. Near(3, t, m.ts) /\ Near(3, u, m.ts)
      BY <1>0, <1>3 DEF CoversNear, Near, Starts, Bucket
    <2>2. Near(3, t, u) /\ t \in Instant /\ u \in Instant
      BY <1>6, <2>1 DEF Near, Row
    <2> QED BY <2>2, NearIsClose DEF Bucket
  <1>9. \A x : x \in some <=> \E t \in m.covers : x = <<job.table, t>>
    BY <1>3, ReadingIn
  <1>10. some \subseteq ReadingsOf(rows)
    <2> SUFFICES ASSUME NEW x \in some PROVE x \in ReadingsOf(rows)
      OBVIOUS
    <2>1. PICK t \in m.covers : x = <<job.table, t>>
      BY <1>9
    <2>2. PICK r \in E : t \in r.covers
      BY <1>3, <2>1
    <2>3. r \in rows /\ r.table = job.table
      BY <2>2 DEF Eligible, Of
    <2> QED BY <2>1, <2>2, <2>3, ReadingIn
  <1>11. ReadingsOf(job.made)' = some /\ ReadingsOf(rows)' = ReadingsOf(rows)
    BY <1>3, <1>4 DEF ReadingsOf
  <1>12. job.table \in Tables
    BY <1>0 DEF TypeOK, Job
  <1> HIDE DEF some, m
  <1>13. \A x \in some : x[1] = job.table /\ x[2] \in m.covers
    BY <1>9
  <1> QED BY <1>4, <1>7, <1>8, <1>10, <1>11, <1>12, <1>13
          DEF Kept!Next, Kept!Take, Kept!OfOneTable

\* The swap puts back what was in hand, or is refused (SwapBatch).
LEMMA SwapIsPutBack ==
    ASSUME IInv, SwapBatch
    PROVE  Kept!Next
  <1>0. TypeOK
    BY DEF IInv
  <1>1. job'.made = {} /\ ReadingsOf(job.made)' = {}
    BY <1>0 DEF SwapBatch, Cleaning, Idle, TypeOK, Job, ReadingsOf
  <1>2. CASE rows' = rows
    <2>1. ReadingsOf(rows)' = ReadingsOf(rows) /\ now' = now
      BY <1>2 DEF ReadingsOf, SwapBatch
    <2> QED BY <1>1, <2>1 DEF Kept!Next, Kept!LetGo
  <1>3. CASE rows' = AfterSwap
    <2>1. PICK m \in job.made : /\ job.made = {m} /\ MadeShape(m)
                                /\ SourceIntact(m) \/ SourceGone
      BY DEF SwapBatch, IInv, BatchFaithful
    <2> DEFINE E == Eligible(job.table, job.from)
    <2>2. \A r \in E : \A t \in r.covers : r.table = job.table /\ t \in m.covers
      <3> SUFFICES ASSUME NEW r \in E, NEW t \in r.covers PROVE r.table = job.table /\ t \in m.covers
        OBVIOUS
      <3>1. r \in rows /\ r.table = job.table /\ r.ts < job.start
        BY <1>0, <2>1, EligibleIsPast DEF MadeShape, Starts
      <3>2. ~SourceGone
        BY <1>0, <3>1, CompactionAssumption DEF SourceGone, TypeOK, Row, Job, Instant
      <3> QED BY <2>1, <3>1, <3>2 DEF SourceIntact
    <2>3. m.table = job.table /\ rows' = (rows \ E) \cup {m}
      BY <1>3, <2>1 DEF MadeShape, AfterSwap
    <2>4. ASSUME NEW x PROVE x \in ReadingsOf(rows)' <=> x \in ReadingsOf(rows) \cup ReadingsOf(job.made)
      <3> HIDE DEF E
      <3>1. x \in ReadingsOf(rows)' <=> \E r \in rows' : \E t \in r.covers : x = <<r.table, t>>
        BY ReadingIn DEF ReadingsOf
      <3>2. x \in ReadingsOf(job.made) <=> \E t \in m.covers : x = <<m.table, t>>
        BY <2>1, ReadingIn
      <3>3. x \in ReadingsOf(rows) <=> \E r \in rows : \E t \in r.covers : x = <<r.table, t>>
        BY ReadingIn
      <3>4. ASSUME NEW r \in E, NEW t \in r.covers, x = <<r.table, t>>
            PROVE  \E u \in m.covers : x = <<m.table, u>>
        BY <2>2, <2>3, <3>4
      <3> QED BY <2>3, <3>1, <3>2, <3>3, <3>4
    <2>5. ReadingsOf(rows)' = ReadingsOf(rows) \cup ReadingsOf(job.made) /\ now' = now
      BY <2>4 DEF SwapBatch
    <2> QED BY <1>1, <2>5 DEF Kept!Next, Kept!PutBack
  <1> QED BY <1>2, <1>3 DEF SwapBatch

\* The cleanup lets readings expire that are past the retention (DeleteOld).
LEMMA CleanIsExpire ==
    ASSUME IInv, LossInv, HandInv, DeleteOld
    PROVE  Kept!Next
  <1>0. /\ TypeOK /\ job.pc = "clean" /\ job.made = {} /\ now' = now
        /\ job.table \in Tables
    BY DEF IInv, TypeOK, Job, HandInv, DeleteOld
  <1>1. PICK batch \in SUBSET Old(job.table) : rows' = rows \/ rows' = rows \ batch
    BY DEF DeleteOld
  <1> DEFINE old == ReadingsOf(rows) \ ReadingsOf(rows)'
  <1>2. ReadingsOf(job.made)' = ReadingsOf(job.made)
    <2>1. job'.made = {}
      <3>1. CleanNext.made = {}
        BY <1>0, IdleIsJob DEF CleanNext, TypeOK, Job, Idle
      <3> QED BY <1>0, <3>1 DEF DeleteOld
    <2> QED BY <1>0, <2>1 DEF ReadingsOf
  <1>3. ReadingsOf(rows)' = ReadingsOf(rows) \ old
    <2>1. \A x : x \in ReadingsOf(rows)' <=> \E r \in rows' : \E t \in r.covers : x = <<r.table, t>>
      BY ReadingIn DEF ReadingsOf
    <2>2. rows' \subseteq rows
      BY <1>1
    <2>3. ReadingsOf(rows)' \subseteq ReadingsOf(rows)
      BY <2>1, <2>2, ReadingIn
    <2> QED BY <2>3
  <1>4. ASSUME NEW x \in old
        PROVE  x[1] = job.table /\ x[2] < now - Tier3 + Bucket3 - 1
    <2>1. PICK r \in rows : \E t \in r.covers : x = <<r.table, t>>
      BY ReadingIn
    <2>2. PICK t \in r.covers : x = <<r.table, t>>
      BY <2>1
    <2>3. r \in batch
      BY <1>1, <2>1, <2>2, ReadingIn DEF ReadingsOf
    <2>4. r.table = job.table /\ r.ts < Cutoff
      BY <1>1, <2>3 DEF Old, Of
    <2>5. /\ r.ts \in Instant /\ t \in Instant /\ r.ts \in Int /\ t \in Int /\ job.start \in Int
          /\ now \in Int /\ Tier3 \in Int /\ Bucket3 \in Int /\ job.start <= now
      BY <1>0, <2>2, CompactionAssumption DEF TypeOK, Row, Job, Instant, IInv, RunDated
    <2>6. t < r.ts + Bucket3
      BY <2>2, <2>5, NearIsClose DEF LossInv, CoversNear, Bucket
    <2> QED BY <2>2, <2>4, <2>5, <2>6 DEF Cutoff
  <1> HIDE DEF old
  <1>5. old \in SUBSET ReadingsOf(rows)
    BY DEF old
  <1> QED BY <1>0, <1>2, <1>3, <1>4, <1>5 DEF Kept!Next, Kept!Expire, Kept!OfOneTable

\* Merging is not to be seen: as a set of readings the tables do what Readings
\* promises, also when a rig is deleted in the middle of a batch (_compact_table,
\* cleanup_old_data, rig_delete).
THEOREM MergingIsUnseen == Spec => MergingUnseen
  <1> DEFINE Inv == LossInv /\ AgedInv /\ HandInv
  <1>1. Init => Inv /\ Kept!Init
    BY DEF Init, Idle, LossInv, CoversNear, OwedYoung, NothingLost, AgedInv, HandInv, Kept!Init, ReadingsOf
  <1>2. IInv /\ Inv /\ [Next]_vars => Inv'
    BY NearStep, OwedStep, LossStep, AgedStep, HandStep DEF LossInv
  <1>3. IInv /\ Inv /\ [Next]_vars => [Kept!Next]_<<now, ReadingsOf(rows), ReadingsOf(job.made)>>
    <2> SUFFICES ASSUME IInv, Inv, [Next]_vars
                 PROVE  Kept!Next \/ UNCHANGED <<now, ReadingsOf(rows), ReadingsOf(job.made)>>
      OBVIOUS
    <2>1. ASSUME NEW devices \in SUBSET (1 .. Children), Report(devices) PROVE Kept!Next
      BY <2>1, ReportIsAdd
    <2>2. CASE DeleteRig
      BY <2>2 DEF DeleteRig, ReadingsOf, Kept!Next, Kept!DeleteAll
    <2>3. CASE Tick
      BY <2>3 DEF Tick, ReadingsOf, Kept!Next, Kept!Pass
    <2>4. CASE ReadBatch
      BY <2>4, ReadIsTake
    <2>5. CASE SwapBatch
      BY <2>5, SwapIsPutBack
    <2>6. CASE DeleteOld
      BY <2>6, CleanIsExpire
    <2>7. CASE StartMaintenance \/ NextTable \/ Fail \/ Kill
      <3>1. UNCHANGED <<rows, now>>
        BY <2>7 DEF StartMaintenance, NextTable, Fail, Kill
      <3>2. job'.made = {} \/ job'.made = job.made
        <4>1. TypeOK
          BY DEF IInv
        <4>2. job'.made \subseteq job.made
          BY <2>7, <4>1, MadeShrinks
        <4>3. job.pc # "swap" => job.made = {}
          BY DEF HandInv
        <4>4. job.pc = "swap" => job' = Idle \/ job' = Cleaning
          BY <2>7 DEF StartMaintenance, NextTable, Fail, Kill
        <4>5. Idle.made = {} /\ Cleaning.made = {}
          BY DEF Idle, Cleaning
        <4> QED BY <4>2, <4>3, <4>4, <4>5
      <3> QED BY <3>1, <3>2 DEF ReadingsOf, Kept!Next, Kept!LetGo
    <2>8. CASE UNCHANGED vars
      BY <2>8 DEF vars, ReadingsOf
    <2> QED BY <2>1, <2>2, <2>3, <2>4, <2>5, <2>6, <2>7, <2>8 DEF Next
  <1> QED BY <1>1, <1>2, <1>3, Inductive, PTL DEF Spec, MergingUnseen, Kept!Spec
-----------------------------------------------------------------------------
\* A child row points to one of its readings.
RefIsRead == \A r \in rows \cup job.made : r.table # Snapshots => r.ref \in r.covers

\* A row that spans tier 2 buckets has no reading of a bucket that begins in the
\* tier 2 window of s.
Wide(r, s) ==
    \/ \A t \in r.covers : Near(2, t, r.ts)
    \/ \A t \in r.covers : \A b \in Starts(2) : b <= t => b < s - Tier2

Running == job.pc \in {"read", "swap"}
WideIsOld == \A r \in rows \cup job.made : Wide(r, IF Running THEN job.start ELSE now)

\* The bucket is wholly in the window of a run that started at s.
InWindow(tier, lo, s) ==
    /\ lo >= s - OldestAge(tier)
    /\ lo + Bucket(tier) <= s - YoungestAge(tier)

\* The running compaction is through with the bucket.
Through(tb, tier, lo) ==
    \/ tier < job.tier
    \/ tier = job.tier /\ tb < job.table
    \/ tier = job.tier /\ tb = job.table /\ lo < job.from

Sparse(tb, tier, lo) == \A r, q \in Crowd(tb, lo, Bucket(tier)) : r = q

MergedSoFar ==
    Running =>
      /\ job.pc = "swap" => job.from < WindowEnd
      /\ \A tb \in Tables, tier \in {2, 3} : \A lo \in Starts(tier) :
           InWindow(tier, lo, job.start) /\ Through(tb, tier, lo) => Sparse(tb, tier, lo)

MergedAtLast ==
    lastGood # Never =>
      /\ ~Running /\ lastGood <= now
      /\ \A tb \in Tables, tier \in {2, 3} : \A lo \in Starts(tier) :
           InWindow(tier, lo, lastGood) /\ BucketOf(lo, Bucket3) >= now - Tier3
             => Sparse(tb, tier, lo)

MergeInv == RefIsRead /\ WideIsOld /\ MergedSoFar /\ MergedAtLast
\* What ReadBatch does, field by field.
LEMMA ReadFacts ==
    ASSUME TypeOK, ReadBatch
    PROVE  /\ job.pc = "read" /\ rows' = rows /\ now' = now /\ lastGood' = lastGood
           /\ \E lo \in Batches : \E newest \in Eligible(job.table, lo) :
                /\ \A other \in Batches : lo <= other
                /\ job'.pc = "swap" /\ job'.tier = job.tier /\ job'.table = job.table
                /\ job'.start = job.start /\ job'.from = lo
                /\ job'.made = {Compacted(job.table, lo, Eligible(job.table, lo), newest)}
  <1>1. job.pc = "read" /\ rows' = rows /\ now' = now /\ lastGood' = lastGood
    BY DEF ReadBatch
  <1>2. PICK lo \in Batches :
          /\ \A other \in Batches : lo <= other
          /\ \E newest \in Eligible(job.table, lo) :
               job' = [job EXCEPT !.pc = "swap", !.from = lo,
                         !.made = {Compacted(job.table, lo, Eligible(job.table, lo), newest)}]
    BY DEF ReadBatch
  <1>3. PICK newest \in Eligible(job.table, lo) :
          job' = [job EXCEPT !.pc = "swap", !.from = lo,
                    !.made = {Compacted(job.table, lo, Eligible(job.table, lo), newest)}]
    BY <1>2
  <1>4. /\ job'.pc = "swap" /\ job'.tier = job.tier /\ job'.table = job.table
        /\ job'.start = job.start /\ job'.from = lo
        /\ job'.made = {Compacted(job.table, lo, Eligible(job.table, lo), newest)}
    BY <1>3 DEF TypeOK, Job
  <1> QED BY <1>1, <1>2, <1>4

\* What SwapBatch does, field by field.
LEMMA SwapFacts ==
    ASSUME TypeOK, SwapBatch
    PROVE  /\ job.pc = "swap" /\ now' = now /\ lastGood' = lastGood
           /\ \/ rows' = rows /\ job' = Cleaning
              \/ /\ rows' = AfterSwap
                 /\ job'.pc = "read" /\ job'.tier = job.tier /\ job'.table = job.table
                 /\ job'.start = job.start /\ job'.from = job.from + Bucket(job.tier)
  BY DEF SwapBatch, TypeOK, Job

\* Child rows point to one of their readings.
LEMMA RefStep == IInv /\ RefIsRead /\ [Next]_vars => RefIsRead'
  <1> SUFFICES ASSUME IInv, RefIsRead, [Next]_vars PROVE RefIsRead'
    OBVIOUS
  <1>0. TypeOK
    BY DEF IInv
  <1>1. ASSUME NEW devices \in SUBSET (1 .. Children), Report(devices)
        PROVE  RefIsRead'
    <2>1. \A r \in rows' : r \in rows \/ (r.ref = now /\ r.covers = {now})
      BY <1>1, FreshRows DEF Fresh
    <2> QED BY <1>1, <2>1 DEF RefIsRead, Report
  <1>2. CASE ReadBatch
    <2>1. PICK lo \in Batches : \E newest \in Eligible(job.table, lo) :
            job'.made = {Compacted(job.table, lo, Eligible(job.table, lo), newest)}
      BY <1>0, <1>2, ReadFacts
    <2>2. PICK newest \in Eligible(job.table, lo) :
            job'.made = {Compacted(job.table, lo, Eligible(job.table, lo), newest)}
      BY <2>1
    <2> DEFINE m == Compacted(job.table, lo, Eligible(job.table, lo), newest)
    <2>3. newest \in rows /\ newest.table = job.table
      BY DEF Eligible, Of
    <2>4. m.table # Snapshots => m.ref = newest.ref /\ newest.covers \subseteq m.covers
      BY DEF Compacted
    <2>5. m.table = job.table
      BY DEF Compacted
    <2> HIDE DEF m
    <2>6. rows' = rows /\ job'.made = {m}
      BY <1>0, <1>2, <2>2, ReadFacts DEF m
    <2> QED BY <2>3, <2>4, <2>5, <2>6 DEF RefIsRead
  <1>3. CASE rows' \subseteq rows \cup job.made /\ job'.made \subseteq job.made
    BY <1>3 DEF RefIsRead
  <1> QED BY <1>0, <1>1, <1>2, <1>3, MadeShrinks DEF Next

\* A running compaction goes on, or has just started, and the clock does not go
\* back.
LEMMA ClockStep ==
    ASSUME IInv, [Next]_vars
    PROVE  /\ now \in Nat /\ now' \in Nat /\ now <= now'
           /\ Running' => \/ now' = now /\ job'.start = now /\ ~Running
                          \/ Running /\ job'.start = job.start
           /\ Running => job.start \in Nat /\ job.start <= now
  <1>0. TypeOK
    BY DEF IInv
  <1>1. now \in Nat /\ job.start \in Nat /\ now' \in Nat
    BY <1>0, TypeStep, CompactionAssumption DEF TypeOK, Job, Instant
  <1>2. Running => job.start <= now
    BY DEF IInv, RunDated, Running
  <1>3. Idle.pc = "idle" /\ Cleaning.pc = "clean"
    BY FreshJobs
  <1>4. CASE Tick
    BY <1>1, <1>2, <1>4 DEF Tick, Running
  <1>5. CASE StartMaintenance
    BY <1>1, <1>2, <1>5 DEF StartMaintenance, Running, Idle
  <1>6. CASE ReadBatch
    BY <1>0, <1>1, <1>2, <1>6, ReadFacts DEF Running
  <1>7. CASE SwapBatch
    BY <1>0, <1>1, <1>2, <1>3, <1>7, SwapFacts DEF Running
  <1>8. CASE NextTable
    <2>1. job.pc = "read" /\ now' = now /\ (job' = Cleaning \/ job'.start = job.start)
      BY <1>0, <1>8 DEF NextTable, TypeOK, Job
    <2> QED BY <1>1, <1>2, <1>3, <2>1 DEF Running
  <1>9. CASE DeleteOld \/ Fail \/ Kill
    <2>1. ~Running'
      <3>1. job.pc = "clean" => CleanNext.pc \in {"idle", "clean"}
        BY <1>0, <1>3, CleanNextLemma DEF CleanNextFacts
      <3>2. job.pc = "clean" => [CleanNext EXCEPT !.skipped = TRUE].pc \in {"idle", "clean"}
        BY <1>0, <3>1, CleanNextLemma, IdleIsJob DEF CleanNextFacts, Job
      <3> QED BY <1>3, <1>9, <3>1, <3>2 DEF DeleteOld, Fail, Kill, Running
    <2> QED BY <1>1, <1>2, <1>9, <2>1 DEF DeleteOld, Fail, Kill
  <1>10. CASE DeleteRig \/ UNCHANGED vars \/ \E devices \in SUBSET (1 .. Children) : Report(devices)
    BY <1>1, <1>2, <1>10 DEF DeleteRig, vars, Report, Running
  <1> QED BY <1>4, <1>5, <1>6, <1>7, <1>8, <1>9, <1>10 DEF Next

\* What a batch makes of rows is no wider than they are, or from before the
\* tier 2 window (_compact_table, the two tiers of COMPACT_TABLES).
LEMMA CompactedIsWide ==
    ASSUME IInv, WideIsOld, LossInv, AgedInv, job.pc = "read", NEW lo \in Starts(job.tier),
           NEW m, m.ts = lo, m.covers = UNION {r.covers : r \in Eligible(job.table, lo)}
    PROVE  Wide(m, job.start)
  <1> DEFINE E == Eligible(job.table, lo)
             s == job.start
  <1>1. /\ TypeOK /\ s \in Nat /\ now \in Nat /\ s <= now /\ lo \in Nat /\ lo \in Instant
        /\ job.tier \in {2, 3} /\ Tier1 \in Nat /\ Tier2 \in Nat
        /\ Bucket2 \in Nat \ {0} /\ Bucket3 \in Nat /\ Instant \subseteq Nat
    BY CompactionAssumption DEF IInv, TypeOK, RunDated, Job, Instant, Starts
  <1>2. BatchEnd(lo) <= WindowEnd /\ BatchEnd(lo) <= lo + Bucket(job.tier) /\ BatchEnd(lo) \in Int
        /\ WindowEnd \in Int /\ (job.tier = 3 => WindowEnd = s - Tier2)
    BY <1>1, TierFacts DEF BatchEnd, WindowEnd, YoungestAge
  <1>3. ASSUME NEW r \in E
        PROVE  /\ r \in rows /\ r.ts \in Nat /\ r.ts \in Instant /\ r.covers \subseteq Instant /\ Wide(r, s)
               /\ lo <= r.ts /\ r.ts < BatchEnd(lo)
    BY <1>1 DEF Eligible, Of, TypeOK, Row, WideIsOld, Running
  <1>4. \A b \in Starts(2) : b \in Nat
    BY <1>1 DEF Starts
  <1>5. CASE job.tier = 3
    <2> SUFFICES ASSUME NEW r \in E, NEW t \in r.covers, NEW b \in Starts(2), b <= t
                 PROVE  b < s - Tier2
      BY DEF Wide
    <2>1. CASE Near(2, t, r.ts)
      BY <1>1, <1>2, <1>3, <1>4, <1>5, <2>1 DEF Near
    <2>2. CASE ~Near(2, t, r.ts)
      BY <1>3, <2>2 DEF Wide
    <2> QED BY <2>1, <2>2
  <1>6. CASE job.tier = 2
    <2>1. ASSUME NEW r \in E PROVE Near(2, r.ts, lo)
      <3>1. r.ts < lo + Bucket(2) /\ lo <= r.ts
        BY <1>1, <1>2, <1>3, <1>6, TierFacts
      <3> QED BY <1>3, <1>6, <3>1, BucketIsNear
    <2>2. CASE \A r \in E : \A t \in r.covers : Near(2, t, r.ts)
      BY <2>1, <2>2 DEF Wide, Near
    <2>3. CASE ~ \A r \in E : \A t \in r.covers : Near(2, t, r.ts)
      <3>1. PICK q \in E : ~ \A t \in q.covers : Near(2, t, q.ts)
        BY <2>3
      <3>2. q.ts \in Starts(3) /\ \A t \in q.covers : \A b \in Starts(2) : b <= t => b < s - Tier2
        BY <1>3, <3>1 DEF Wide, AgedInv, Aged
      <3>3. q.ts = lo
        <4>1. q.ts % Bucket2 = 0 /\ lo % Bucket2 = 0 /\ q.ts < lo + Bucket2
          BY <1>1, <1>2, <1>3, <1>6, <3>2, CompactionAssumption DEF Starts, Bucket, Instant
        <4>2. lo < q.ts => lo + Bucket2 <= q.ts
          BY <1>1, <1>3, <4>1, StartsApart
        <4> QED BY <1>1, <1>3, <4>1, <4>2
      <3>4. lo < s - Tier2
        <4>1. PICK t \in q.covers : ~Near(2, t, q.ts)
          BY <3>1
        <4>2. Near(3, t, q.ts)
          BY <1>3, <4>1 DEF LossInv, CoversNear
        <4>3. lo <= t
          BY <1>1, <3>2, <3>3, <4>2 DEF Near
        <4> QED BY <1>6, <3>2, <4>1, <4>3
      <3>5. ASSUME NEW r \in E, NEW t \in r.covers, NEW b \in Starts(2), b <= t
            PROVE  b < s - Tier2
        <4>1. CASE Near(2, t, r.ts)
          <5>1. b <= lo
            BY <2>1, <3>5, <4>1 DEF Near
          <5> QED BY <1>1, <1>4, <3>4, <5>1
        <4>2. CASE ~Near(2, t, r.ts)
          BY <1>3, <3>5, <4>2 DEF Wide
        <4> QED BY <4>1, <4>2
      <3> QED BY <3>5 DEF Wide
    <2> QED BY <2>2, <2>3
  <1> QED BY <1>1, <1>5, <1>6

\* What spans several tier 2 buckets stays out of the tier 2 window.
LEMMA WideStep == IInv /\ WideIsOld /\ LossInv /\ AgedInv /\ [Next]_vars => WideIsOld'
  <1> SUFFICES ASSUME IInv, WideIsOld, LossInv, AgedInv, [Next]_vars PROVE WideIsOld'
    OBVIOUS
  <1> DEFINE s == IF Running THEN job.start ELSE now
  <1>0. TypeOK
    BY DEF IInv
  <1>1. s \in Nat /\ s' \in Nat /\ s <= s'
    BY ClockStep
  <1>2. ASSUME NEW r, r.covers \subseteq Nat, Wide(r, s) PROVE Wide(r, s')
    <2>1. \A b \in Starts(2) : b \in Nat
      BY CompactionAssumption DEF Starts, Instant
    <2>2. Tier2 \in Nat
      BY CompactionAssumption
    <2> HIDE DEF s
    <2> QED BY <1>1, <1>2, <2>1, <2>2 DEF Wide
  <1>3. \A r \in rows \cup job.made : r.covers \subseteq Nat /\ Wide(r, s)
    BY <1>0, CompactionAssumption DEF WideIsOld, TypeOK, Row, Job, Instant
  <1>4. \A r \in rows \cup job.made : Wide(r, s')
    <2> HIDE DEF s
    <2> QED BY <1>2, <1>3
  <1>5. ASSUME \A r \in rows' \cup job'.made : Wide(r, s') PROVE WideIsOld'
    BY <1>5 DEF WideIsOld, Wide, Near, Starts, Bucket
  <1>6. CASE rows' \subseteq rows \cup job.made /\ job'.made \subseteq job.made
    BY <1>4, <1>5, <1>6
  <1>7. ASSUME NEW devices \in SUBSET (1 .. Children), Report(devices)
        PROVE  WideIsOld'
    <2>1. \A r \in rows' : r \in rows \/ (r.ts = now /\ r.covers = {now})
      BY <1>7, FreshRows DEF Fresh
    <2>2. \A r \in rows' : Wide(r, s')
      <3> HIDE DEF s
      <3> QED BY <1>4, <2>1 DEF Wide, Near
    <2> QED BY <1>4, <1>5, <1>7, <2>2 DEF Report
  <1>8. CASE ReadBatch
    <2>1. PICK lo \in Batches : \E newest \in Eligible(job.table, lo) :
            job'.made = {Compacted(job.table, lo, Eligible(job.table, lo), newest)}
      BY <1>0, <1>8, ReadFacts
    <2>2. ASSUME NEW m \in job'.made PROVE Wide(m, s')
      <3>1. m.ts = lo /\ m.covers = UNION {r.covers : r \in Eligible(job.table, lo)}
        BY <2>1 DEF Compacted
      <3>2. lo \in Starts(job.tier) /\ job.pc = "read" /\ s' = job.start
        BY <1>0, <1>8, ReadFacts DEF Batches, Running
      <3> QED BY <3>1, <3>2, CompactedIsWide
    <2>3. rows' = rows
      BY <1>0, <1>8, ReadFacts
    <2> QED BY <1>4, <1>5, <2>2, <2>3
  <1> QED BY <1>0, <1>6, <1>7, <1>8, MadeShrinks DEF Next
\* A bucket gets no row it did not have, unless one appears in it or a snapshot
\* loses the children that point to it.
LEMMA CrowdShrinks ==
    ASSUME NEW tb, NEW lo, NEW size,
           \A r \in rows' : r.table = tb /\ lo <= r.ts /\ r.ts < lo + size => r \in rows,
           tb = Snapshots =>
             \A r \in rows' : r.table = tb /\ lo <= r.ts /\ r.ts < lo + size /\ Referenced(r)
                                => Referenced(r)'
    PROVE  Crowd(tb, lo, size)' \subseteq Crowd(tb, lo, size)
  BY DEF Crowd, Of, Snapshots

\* A bucket that gets no further row stays merged.
LEMMA SparseStays ==
    ASSUME NEW tb, NEW tier, NEW lo, Sparse(tb, tier, lo),
           Crowd(tb, lo, Bucket(tier))' \subseteq Crowd(tb, lo, Bucket(tier))
    PROVE  Sparse(tb, tier, lo)'
  BY DEF Sparse, Bucket

\* What is reported, or deleted with its rig, changes no bucket of the past.
LEMMA OthersKeepBuckets ==
    ASSUME TypeOK, NEW tb, NEW tier \in {2, 3}, NEW lo \in Starts(tier),
           lo + Bucket(tier) <= now,
           DeleteRig \/ \E devices \in SUBSET (1 .. Children) : Report(devices)
    PROVE  Crowd(tb, lo, Bucket(tier))' \subseteq Crowd(tb, lo, Bucket(tier))
  <1>1. CASE DeleteRig
    BY <1>1 DEF DeleteRig, Crowd, Of
  <1>2. ASSUME NEW devices \in SUBSET (1 .. Children), Report(devices)
        PROVE  Crowd(tb, lo, Bucket(tier))' \subseteq Crowd(tb, lo, Bucket(tier))
    <2>1. rows \subseteq rows' /\ \A r \in rows' : r \in rows \/ r.ts = now
      BY <1>2, FreshRows DEF Fresh
    <2>2. now \in Int /\ lo \in Int /\ Bucket(tier) \in Int
      BY TierFacts, CompactionAssumption DEF TypeOK, Instant, Starts
    <2>3. \A r : Referenced(r) => Referenced(r)'
      BY <2>1 DEF Referenced, Snapshots
    <2>4. \A r \in rows' : r.table = tb /\ lo <= r.ts /\ r.ts < lo + Bucket(tier) => r \in rows
      BY <2>1, <2>2
    <2> QED BY <2>3, <2>4, CrowdShrinks
  <1> QED BY <1>1, <1>2

\* What a child points to is the snapshot of one of its readings.
LEMMA PointedTo ==
    ASSUME IInv, RefIsRead, NEW c \in rows, c.table # Snapshots,
           NEW s \in rows, s.table = Snapshots, c.ref = s.ref
    PROVE  s.ts \in c.covers /\ s.ts \in Instant
  <1>1. c.ref \in Instant /\ c.ref \in c.covers
    BY DEF IInv, RowsDated, RefIsRead
  <1>2. c.ref # NewId
    BY <1>1, CompactionAssumption DEF Instant, NewId
  <1>3. s.ref = s.ts
    BY <1>2 DEF IInv, RowsDated
  <1> QED BY <1>1, <1>3

\* In the bucket a batch replaces, it takes every row that is not pointed to.
LEMMA WholeBucket ==
    ASSUME TypeOK, NEW tb, NEW lo \in Starts(job.tier), InWindow(job.tier, lo, job.start)
    PROVE  Crowd(tb, lo, Bucket(job.tier)) = Eligible(tb, lo)
  <1>1. BatchEnd(lo) = lo + Bucket(job.tier)
    <2>1. /\ job.tier \in {2, 3} /\ job.start \in Int /\ lo \in Int
          /\ lo + Bucket(job.tier) <= WindowEnd
      BY CompactionAssumption DEF TypeOK, Job, Instant, Starts, InWindow, WindowEnd
    <2>2. WindowEnd \in Int /\ Bucket(job.tier) \in Int
      BY <2>1, TierFacts DEF WindowEnd
    <2> DEFINE end == WindowEnd
               next == lo + Bucket(job.tier)
    <2>3. BatchEnd(lo) = IF next < end THEN next ELSE end
      BY DEF BatchEnd
    <2>4. next \in Int /\ end \in Int /\ next <= end
      BY <2>1, <2>2
    <2> HIDE DEF next, end
    <2>5. BatchEnd(lo) = next
      BY <2>3, <2>4
    <2> QED BY <2>5 DEF next
  <1> QED BY <1>1 DEF Crowd, Eligible

\* The swap puts at most one row into the bucket, and no row into a bucket the
\* run is through with; nor does a tier 3 batch of children free a snapshot of
\* the tier 2 window (_compact_table).
LEMMA SwapKeepsBuckets ==
    ASSUME IInv, MergeInv, job.pc = "swap", rows' = AfterSwap,
           NEW tb \in Tables, NEW tier \in {2, 3}, NEW lo \in Starts(tier),
           InWindow(tier, lo, job.start),
           \/ Through(tb, tier, lo)
           \/ tb = job.table /\ tier = job.tier /\ lo = job.from
    PROVE  Sparse(tb, tier, lo)'
  <1>0. TypeOK /\ MergedSoFar /\ Running
    BY DEF IInv, MergeInv, Running
  <1>1. PICK m \in job.made : job.made = {m} /\ MadeShape(m)
    BY DEF IInv, BatchFaithful
  <1> DEFINE E == Eligible(job.table, job.from)
             size == Bucket(tier)
  <1>2. rows' = (rows \ E) \cup {m} /\ m.table = job.table /\ m.ts = job.from
    BY <1>1 DEF AfterSwap, MadeShape
  <1>3. \A r \in E : r \in rows /\ r.table = job.table /\ job.from <= r.ts /\ r.ts < BatchEnd(job.from)
    BY DEF Eligible, Of
  <1>4. /\ job.tier \in {2, 3} /\ job.start \in Nat /\ job.from \in Starts(job.tier)
        /\ job.from \in Nat /\ lo \in Nat /\ size \in Nat \ {0} /\ job.from < WindowEnd
        /\ Tier1 \in Nat /\ Tier2 \in Nat /\ Tables \subseteq Nat /\ Snapshots \in Nat
        /\ job.table \in Tables /\ \A t \in Tables : t <= Snapshots
        /\ \A r \in rows : r.ts \in Nat
    BY <1>0, <1>1, TierFacts, CompactionAssumption
       DEF TypeOK, Job, Row, Instant, Starts, MadeShape, MergedSoFar, Tables, Snapshots
  <1>5. job.tier = 3 => WindowEnd = job.start - Tier2 /\ (tier = 2 => lo >= WindowEnd)
    BY DEF WindowEnd, YoungestAge, InWindow, OldestAge
  <1>6. BatchEnd(job.from) <= WindowEnd /\ WindowEnd \in Int /\ BatchEnd(job.from) \in Int
    BY <1>4, TierFacts DEF BatchEnd, WindowEnd
  <1>7. job.table = Snapshots => \A r : Referenced(r)' <=> Referenced(r)
    <2>1. job.table = Snapshots => \A c : c.table # Snapshots => (c \in rows' <=> c \in rows)
      BY <1>2, <1>3
    <2> QED BY <2>1 DEF Referenced, Snapshots
  <1>8. CASE Through(tb, tier, lo)
    <2>1. Sparse(tb, tier, lo)
      BY <1>0, <1>8 DEF MergedSoFar
    <2>2. m.table = tb => m.ts < lo \/ m.ts >= lo + size
      <3>1. CASE tier = job.tier /\ lo < job.from
        <4>1. lo + size <= job.from
          BY <1>4, <3>1, StartsApart DEF Starts
        <4> QED BY <1>2, <4>1
      <3>2. CASE tier < job.tier
        BY <1>2, <1>4, <1>5, <1>6, <3>2
      <3> QED BY <1>2, <1>4, <1>8, <3>1, <3>2 DEF Through
    <2>3. \A r \in rows' : r.table = tb /\ lo <= r.ts /\ r.ts < lo + size => r \in rows
      <3> HIDE DEF size, E
      <3> QED BY <1>2, <1>4, <2>2
    <2>4. ASSUME tb = Snapshots, job.table # Snapshots, NEW s \in rows', s.table = tb,
                 lo <= s.ts, s.ts < lo + size, Referenced(s)
          PROVE  Referenced(s)'
      <3>1. job.tier = 3 /\ tier = 2
        BY <1>4, <1>8, <2>4 DEF Through
      <3>2. PICK c \in rows : c.table # Snapshots /\ c.ref = s.ref
        BY <2>4 DEF Referenced
      <3>3. s \in rows
        BY <2>3, <2>4
      <3>4. s.ts \in c.covers
        BY <2>4, <3>2, <3>3, PointedTo DEF MergeInv
      <3>5. c \notin E
        <4> SUFFICES ASSUME c \in E PROVE FALSE
          OBVIOUS
        <4>1. c.ts < job.start - Tier2 /\ lo >= job.start - Tier2 /\ c.ts \in Nat /\ lo \in Starts(2)
          BY <1>3, <1>4, <1>5, <1>6, <3>1
        <4>2. Wide(c, job.start)
          BY <1>0 DEF MergeInv, WideIsOld
        <4>3. CASE \A t \in c.covers : Near(2, t, c.ts)
          <5>1. lo <= c.ts
            BY <2>4, <3>4, <4>1, <4>3 DEF Near
          <5> QED BY <1>4, <4>1, <5>1
        <4>4. CASE \A t \in c.covers : \A b \in Starts(2) : b <= t => b < job.start - Tier2
          <5>1. lo < job.start - Tier2
            BY <2>4, <3>4, <4>1, <4>4
          <5> QED BY <1>4, <4>1, <5>1
        <4> QED BY <4>2, <4>3, <4>4 DEF Wide
      <3> QED BY <1>2, <3>2, <3>5 DEF Referenced, Snapshots
    <2>5. tb = Snapshots =>
            \A r \in rows' : r.table = tb /\ lo <= r.ts /\ r.ts < lo + size /\ Referenced(r)
                               => Referenced(r)'
      BY <1>7, <2>4
    <2> QED BY <2>1, <2>3, <2>5, CrowdShrinks, SparseStays
  <1>9. CASE tb = job.table /\ tier = job.tier /\ lo = job.from
    <2>1. Crowd(tb, lo, size) = E
      BY <1>0, <1>9, WholeBucket
    <2>2. Crowd(tb, lo, size)' \subseteq {m}
      <3> SUFFICES ASSUME NEW r \in rows', r.table = tb, lo <= r.ts, r.ts < lo + size,
                          tb = Snapshots => ~Referenced(r)', r # m
                   PROVE  FALSE
        BY DEF Crowd, Of, Snapshots
      <3>1. r \in rows /\ r \notin E
        BY <1>2
      <3>2. r \in Crowd(tb, lo, size)
        BY <1>7, <1>9, <3>1 DEF Crowd, Of
      <3> QED BY <2>1, <3>1, <3>2
    <2> QED BY <2>2 DEF Sparse, Bucket
  <1> QED BY <1>8, <1>9

\* A table has no batch left: none of its buckets in the window has two rows
\* (_compact_table's loop over the buckets, and its COUNT before it).
LEMMA TableDone ==
    ASSUME TypeOK, MergedSoFar, Running, Batches = {},
           NEW lo \in Starts(job.tier), InWindow(job.tier, lo, job.start)
    PROVE  Sparse(job.table, job.tier, lo)
  <1>1. /\ job.tier \in {2, 3} /\ job.table \in Tables /\ job.start \in Nat /\ job.from \in Nat
        /\ lo \in Nat /\ Bucket(job.tier) \in Nat \ {0}
        /\ OldestAge(job.tier) \in Nat /\ YoungestAge(job.tier) \in Nat
    BY TierFacts, CompactionAssumption DEF TypeOK, Job, Instant, Starts
  <1>2. CASE lo < job.from
    BY <1>1, <1>2 DEF MergedSoFar, Through
  <1>3. CASE ~(lo < job.from)
    <2>1. /\ lo >= job.from /\ lo >= FirstStart /\ lo < WindowEnd
          /\ lo >= WindowStart /\ lo + Bucket(job.tier) <= WindowEnd
      BY <1>1, <1>3 DEF InWindow, FirstStart, WindowStart, WindowEnd
    <2>2. Eligible(job.table, lo) = {} \/ (job.from = 0 /\ ~Counted)
      BY <2>1 DEF Batches
    <2>3. CASE Eligible(job.table, lo) = {}
      BY <1>1, <2>3, WholeBucket DEF Sparse
    <2>4. CASE ~Counted
      <3>1. WindowStart \in Int /\ WindowEnd \in Int /\ \A r \in rows : r.ts \in Int
        BY <1>1, CompactionAssumption DEF WindowStart, WindowEnd, TypeOK, Row, Instant
      <3>2. ASSUME NEW r \in Crowd(job.table, lo, Bucket(job.tier)) PROVE FALSE
        <4>1. r \in Of(job.table) /\ r \in rows /\ lo <= r.ts /\ r.ts < lo + Bucket(job.tier)
          BY DEF Crowd, Of
        <4>2. WindowStart <= r.ts /\ r.ts < WindowEnd
          <5> DEFINE from == WindowStart
                     end == WindowEnd
                     size == Bucket(job.tier)
          <5>1. from <= lo /\ lo + size <= end /\ from \in Int /\ end \in Int /\ size \in Int
                /\ lo <= r.ts /\ r.ts < lo + size /\ r.ts \in Int /\ lo \in Int
            BY <1>1, <2>1, <3>1, <4>1
          <5> HIDE DEF from, end, size
          <5>2. from <= r.ts /\ r.ts < end
            BY <5>1
          <5> QED BY <5>2 DEF from, end
        <4> QED BY <2>4, <4>1, <4>2 DEF Counted
      <3> QED BY <3>2 DEF Sparse
    <2> QED BY <2>2, <2>3, <2>4
  <1> QED BY <1>2, <1>3

\* A bucket is sparse as long as no row changes.
LEMMA SparseUnchanged ==
    ASSUME NEW tb, NEW tier, NEW lo, Sparse(tb, tier, lo), rows' = rows
    PROVE  Sparse(tb, tier, lo)'
  BY DEF Sparse, Bucket, Crowd, Of, Referenced

\* The running compaction has merged what it is through with.
LEMMA SoFarStep == IInv /\ MergeInv /\ [Next]_vars => MergedSoFar'
  <1> SUFFICES ASSUME IInv, MergeInv, [Next]_vars, Running' PROVE MergedSoFar'
    BY DEF MergedSoFar
  <1>0. /\ TypeOK /\ MergedSoFar /\ now \in Nat
        /\ job.tier \in {2, 3} /\ job.table \in Tables /\ job.start \in Nat /\ job.from \in Nat
        /\ Tables \subseteq Nat \ {0} /\ Snapshots \in Nat /\ \A tb \in Tables : tb <= Snapshots
        /\ Idle.pc = "idle" /\ Cleaning.pc = "clean"
    BY FreshJobs, CompactionAssumption
       DEF IInv, MergeInv, TypeOK, Job, Instant, Tables, Snapshots
  <1> DEFINE Done(tb, tier, lo) == InWindow(tier, lo, job'.start) /\ Through(tb, tier, lo)'
  <1>1. ASSUME job'.pc = "swap" => (job.from < WindowEnd)',
               \A tb \in Tables, tier \in {2, 3} : \A lo \in Starts(tier) :
                 Done(tb, tier, lo) => Sparse(tb, tier, lo)'
        PROVE  MergedSoFar'
    <2>1. /\ \A tier : Starts(tier)' = Starts(tier) /\ Tables' = Tables
          /\ \A tier, lo : InWindow(tier, lo, job.start)' <=> InWindow(tier, lo, job'.start)
      BY DEF Starts, Bucket, InWindow, OldestAge, YoungestAge, Tables, Snapshots, Instant
    <2> QED BY <1>1, <2>1 DEF MergedSoFar
  <1>2. ASSUME NEW tb \in Tables, NEW tier \in {2, 3}, NEW lo \in Starts(tier),
               Done(tb, tier, lo), job' = job, Running
        PROVE  Sparse(tb, tier, lo) /\ lo + Bucket(tier) <= now
    <2>1. InWindow(tier, lo, job.start) /\ Through(tb, tier, lo)
      BY <1>2 DEF Through
    <2>2. job.start <= now
      BY <1>0, <1>2, ClockStep
    <2>3. lo \in Nat /\ Bucket(tier) \in Nat /\ YoungestAge(tier) \in Nat
      BY TierFacts, CompactionAssumption DEF Starts, Instant
    <2> QED BY <1>0, <1>2, <2>1, <2>2, <2>3 DEF MergedSoFar, InWindow
  <1>3. CASE DeleteRig \/ \E devices \in SUBSET (1 .. Children) : Report(devices)
    <2>1. job' = job
      BY <1>3 DEF DeleteRig, Report
    <2>2. Running
      BY <2>1 DEF Running
    <2>3. ASSUME NEW tb \in Tables, NEW tier \in {2, 3}, NEW lo \in Starts(tier),
                 Done(tb, tier, lo)
          PROVE  Sparse(tb, tier, lo)'
      BY <1>0, <1>2, <1>3, <2>1, <2>2, <2>3, OthersKeepBuckets, SparseStays
    <2> QED BY <1>0, <1>1, <2>1, <2>2, <2>3 DEF MergedSoFar, WindowEnd, YoungestAge
  <1>4. CASE Tick \/ UNCHANGED vars
    <2>1. job' = job /\ rows' = rows
      BY <1>4 DEF Tick, vars
    <2>2. Running
      BY <2>1 DEF Running
    <2>3. ASSUME NEW tb \in Tables, NEW tier \in {2, 3}, NEW lo \in Starts(tier),
                 Done(tb, tier, lo)
          PROVE  Sparse(tb, tier, lo)'
      BY <1>2, <2>1, <2>2, <2>3, SparseUnchanged
    <2> QED BY <1>0, <1>1, <2>1, <2>2, <2>3 DEF MergedSoFar, WindowEnd, YoungestAge
  <1>5. CASE StartMaintenance
    <2>1. job'.pc = "read" /\ job'.tier = 2 /\ job'.table = 1 /\ job'.from = 0
      BY <1>5 DEF StartMaintenance, Idle
    <2>2. ASSUME NEW tb \in Tables, NEW tier \in {2, 3}, NEW lo \in Starts(tier),
                 Done(tb, tier, lo)
          PROVE  FALSE
      <3>1. lo \in Nat /\ tb \in Nat \ {0}
        BY <1>0, CompactionAssumption DEF Starts, Instant
      <3> QED BY <2>1, <2>2, <3>1 DEF Through
    <2> QED BY <1>1, <2>1, <2>2
  <1>6. CASE ReadBatch
    <2>1. /\ job.pc = "read" /\ rows' = rows /\ job'.pc = "swap" /\ job'.tier = job.tier
          /\ job'.table = job.table /\ job'.start = job.start
          /\ job'.from \in Batches /\ \A other \in Batches : job'.from <= other
      BY <1>0, <1>6, ReadFacts
    <2>2. (job.from < WindowEnd)'
      BY <2>1 DEF Batches, WindowEnd, YoungestAge
    <2>3. ASSUME NEW tb \in Tables, NEW tier \in {2, 3}, NEW lo \in Starts(tier),
                 Done(tb, tier, lo)
          PROVE  Sparse(tb, tier, lo)
      <3>1. InWindow(tier, lo, job.start)
        BY <2>1, <2>3
      <3>2. CASE Through(tb, tier, lo)
        BY <1>0, <2>1, <3>1, <3>2 DEF MergedSoFar, Running
      <3>3. CASE ~Through(tb, tier, lo)
        <4>1. tier = job.tier /\ tb = job.table /\ ~(lo < job.from) /\ lo < job'.from
          BY <2>1, <2>3, <3>3 DEF Through
        <4>2. /\ lo \in Nat /\ Bucket(tier) \in Nat \ {0} /\ job'.from \in Nat
              /\ OldestAge(tier) \in Nat /\ YoungestAge(tier) \in Nat
          BY <2>1, TierFacts, CompactionAssumption DEF Batches, Starts, Instant
        <4>3. lo \notin Batches
          BY <2>1, <4>1, <4>2
        <4>4. lo >= job.from /\ lo >= FirstStart /\ lo < WindowEnd
          BY <1>0, <3>1, <4>1, <4>2 DEF InWindow, FirstStart, WindowStart, WindowEnd
        <4>5. Eligible(tb, lo) = {}
          BY <2>1, <4>1, <4>3, <4>4 DEF Batches
        <4> QED BY <1>0, <3>1, <4>1, <4>5, WholeBucket DEF Sparse
      <3> QED BY <3>2, <3>3
    <2> QED BY <1>1, <2>1, <2>2, <2>3, SparseUnchanged
  <1>7. CASE SwapBatch
    <2>1. /\ job.pc = "swap" /\ rows' = AfterSwap /\ job'.pc = "read" /\ job'.tier = job.tier
          /\ job'.table = job.table /\ job'.start = job.start
          /\ job'.from = job.from + Bucket(job.tier)
      BY <1>0, <1>7, SwapFacts DEF Running
    <2>2. job.from \in Starts(job.tier)
      BY <2>1 DEF IInv, BatchFaithful, MadeShape
    <2>3. ASSUME NEW tb \in Tables, NEW tier \in {2, 3}, NEW lo \in Starts(tier),
                 Done(tb, tier, lo)
          PROVE  Sparse(tb, tier, lo)'
      <3>1. InWindow(tier, lo, job.start)
        BY <2>1, <2>3
      <3>2. Through(tb, tier, lo) \/ (tb = job.table /\ tier = job.tier /\ lo = job.from)
        <4> SUFFICES ASSUME ~Through(tb, tier, lo)
                     PROVE  tb = job.table /\ tier = job.tier /\ lo = job.from
          OBVIOUS
        <4>1. /\ tier = job.tier /\ tb = job.table /\ ~(lo < job.from)
              /\ lo < job.from + Bucket(job.tier)
          BY <2>1, <2>3 DEF Through
        <4>2. lo \in Nat /\ Bucket(tier) \in Nat \ {0}
              /\ lo % Bucket(tier) = 0 /\ job.from % Bucket(tier) = 0
          BY <2>2, <4>1, TierFacts, CompactionAssumption DEF Starts, Instant
        <4>3. job.from < lo => job.from + Bucket(tier) <= lo
          BY <1>0, <4>2, StartsApart
        <4> QED BY <1>0, <4>1, <4>2, <4>3
      <3> QED BY <2>1, <3>1, <3>2, SwapKeepsBuckets
    <2> QED BY <1>1, <2>1, <2>3
  <1>8. CASE NextTable
    <2>1. /\ job.pc = "read" /\ Batches = {} /\ rows' = rows /\ job'.pc = "read"
          /\ job'.start = job.start /\ job'.from = 0
          /\ \/ job'.tier = job.tier /\ job'.table = job.table + 1
             \/ job.tier = 2 /\ job'.tier = 3 /\ job.table = Snapshots /\ job'.table = 1
      BY <1>0, <1>8 DEF NextTable, TypeOK, Job, Running
    <2>2. ASSUME NEW tb \in Tables, NEW tier \in {2, 3}, NEW lo \in Starts(tier),
                 Done(tb, tier, lo)
          PROVE  Sparse(tb, tier, lo)
      <3>1. InWindow(tier, lo, job.start) /\ lo \in Nat /\ tb \in Nat \ {0} /\ tb <= Snapshots
        BY <1>0, <2>1, <2>2, CompactionAssumption DEF Starts, Instant
      <3>2. Through(tb, tier, lo) \/ (tb = job.table /\ tier = job.tier)
        <4>1. \/ tier < job'.tier
              \/ tier = job'.tier /\ tb < job'.table
              \/ tier = job'.tier /\ tb = job'.table /\ lo < job'.from
          BY <2>2 DEF Through
        <4>2. ~(lo < job'.from)
          <5> DEFINE reached == job'.from
          <5>1. reached = 0 /\ lo \in Nat
            BY <2>1, <3>1
          <5> HIDE DEF reached
          <5>2. ~(lo < reached)
            BY <5>1
          <5> QED BY <5>2 DEF reached
        <4>3. CASE job'.tier = job.tier /\ job'.table = job.table + 1
          <5> DEFINE table == job.table
          <5>1. table \in Nat /\ tb \in Nat
            BY <1>0, <3>1
          <5> HIDE DEF table
          <5>2. tb < table + 1 => tb < table \/ tb = table
            BY <5>1
          <5>3. tb < job'.table => tb < job.table \/ tb = job.table
            BY <4>3, <5>2 DEF table
          <5> QED BY <4>1, <4>2, <4>3, <5>3, Zenon DEF Through
        <4>4. CASE job.tier = 2 /\ job'.tier = 3 /\ job.table = Snapshots /\ job'.table = 1
          <5>1. tier = 2 => tb < job.table \/ tb = job.table
            BY <1>0, <3>1, <4>4
          <5>2. ~(tb < 1) /\ (tier < 3 => tier = 2)
            BY <3>1
          <5>3. tier = 2 \/ tb < job'.table
            BY <4>1, <4>2, <4>4, <5>2
          <5> QED BY <4>4, <5>1, <5>2, <5>3 DEF Through
        <4> QED BY <2>1, <4>3, <4>4
      <3>3. CASE Through(tb, tier, lo)
        BY <1>0, <2>1, <3>1, <3>3 DEF MergedSoFar, Running
      <3>4. CASE tb = job.table /\ tier = job.tier
        BY <1>0, <2>1, <3>1, <3>4, TableDone DEF Running
      <3> QED BY <3>2, <3>3, <3>4
    <2> QED BY <1>1, <2>1, <2>2, SparseUnchanged
  <1>9. CASE DeleteOld \/ Fail \/ Kill
    <2>1. ~Running'
      <3>1. job.pc = "clean" => CleanNext.pc \in {"idle", "clean"}
        BY <1>0, CleanNextLemma DEF CleanNextFacts
      <3>2. job.pc = "clean" => [CleanNext EXCEPT !.skipped = TRUE].pc \in {"idle", "clean"}
        BY <1>0, <3>1, CleanNextLemma, IdleIsJob DEF CleanNextFacts, Job
      <3> QED BY <1>0, <1>9, <3>1, <3>2 DEF DeleteOld, Fail, Kill, Running
    <2> QED BY <2>1
  <1> QED BY <1>3, <1>4, <1>5, <1>6, <1>7, <1>8, <1>9 DEF Next

\* What the last compaction has merged stays so until the next one starts, the
\* snapshots until the cleanup deletes the children that point to them.
LEMMA AtLastStep == IInv /\ LossInv /\ MergeInv /\ [Next]_vars => MergedAtLast'
  <1> SUFFICES ASSUME IInv, LossInv, MergeInv, [Next]_vars, lastGood' # Never PROVE MergedAtLast'
    BY DEF MergedAtLast
  <1>0. /\ TypeOK /\ MergedAtLast /\ now \in Nat /\ now' \in Nat /\ now <= now'
        /\ job.tier \in {2, 3} /\ job.table \in Tables /\ job.start \in Nat
        /\ Tables \subseteq Nat \ {0} /\ Snapshots \in Nat /\ \A tb \in Tables : tb <= Snapshots
        /\ Idle.pc = "idle" /\ Cleaning.pc = "clean"
        /\ lastGood \in Int /\ lastGood' \in Int /\ Tier3 \in Nat
    BY FreshJobs, ClockStep, TypeStep, CompactionAssumption
       DEF IInv, MergeInv, TypeOK, Job, Instant, Tables, Snapshots, Never
  <1> DEFINE Due(tier, lo) == InWindow(tier, lo, lastGood') /\ BucketOf(lo, Bucket3) >= now' - Tier3
  <1>1. ASSUME ~Running', lastGood' <= now',
               \A tb \in Tables, tier \in {2, 3} : \A lo \in Starts(tier) :
                 Due(tier, lo) => Sparse(tb, tier, lo)'
        PROVE  MergedAtLast'
    <2>1. /\ \A tier : Starts(tier)' = Starts(tier) /\ Tables' = Tables
          /\ \A tier, lo : InWindow(tier, lo, lastGood)' <=> InWindow(tier, lo, lastGood')
          /\ \A lo : BucketOf(lo, Bucket3)' = BucketOf(lo, Bucket3)
      BY DEF Starts, Bucket, InWindow, OldestAge, YoungestAge, Tables, Snapshots, Instant, BucketOf
    <2> QED BY <1>1, <2>1 DEF MergedAtLast
  <1>2. ASSUME lastGood' = lastGood, NEW tier \in {2, 3}, NEW lo \in Starts(tier), Due(tier, lo)
        PROVE  /\ lo + Bucket(tier) <= now
               /\ \A tb \in Tables : Sparse(tb, tier, lo)
    <2>1. lastGood <= now /\ InWindow(tier, lo, lastGood)
      BY <1>0, <1>2 DEF MergedAtLast
    <2>2. lo \in Nat /\ Bucket(tier) \in Nat /\ YoungestAge(tier) \in Nat
      BY TierFacts, CompactionAssumption DEF Starts, Instant
    <2>3. BucketOf(lo, Bucket3) >= now - Tier3
      <3>1. BucketOf(lo, Bucket3) \in Nat
        BY BucketBegins, CompactionAssumption DEF Bucket, Starts
      <3> QED BY <1>0, <1>2, <3>1
    <2> QED BY <1>0, <1>2, <2>1, <2>2, <2>3 DEF MergedAtLast, InWindow
  <1>3. CASE DeleteRig \/ \E devices \in SUBSET (1 .. Children) : Report(devices)
    <2>1. job' = job /\ lastGood' = lastGood /\ now' = now
      BY <1>3 DEF DeleteRig, Report
    <2>2. ~Running' /\ lastGood' <= now'
      BY <1>0, <2>1 DEF MergedAtLast, Running
    <2>3. ASSUME NEW tb \in Tables, NEW tier \in {2, 3}, NEW lo \in Starts(tier), Due(tier, lo)
          PROVE  Sparse(tb, tier, lo)'
      BY <1>0, <1>2, <1>3, <2>1, <2>3, OthersKeepBuckets, SparseStays
    <2> QED BY <1>1, <2>2, <2>3
  <1>4. CASE Tick \/ UNCHANGED vars \/ Fail \/ Kill
    <2>1. lastGood' = lastGood /\ rows' = rows
      BY <1>4 DEF Tick, vars, Fail, Kill
    <2>2. ~Running
      BY <1>0, <2>1 DEF MergedAtLast
    <2>3. ~Running' /\ lastGood' <= now'
      <3>1. lastGood' <= now'
        BY <1>0, <2>1 DEF MergedAtLast
      <3>2. CASE job' = job \/ Kill
        BY <1>0, <2>2, <3>1, <3>2 DEF Running, Kill
      <3>3. CASE Fail
        <4>1. job.pc = "clean"
          BY <1>0, <2>2, <3>3 DEF Running, Fail, TypeOK, Job
        <4>2. [CleanNext EXCEPT !.skipped = TRUE].pc \in {"idle", "clean"}
          BY <1>0, <4>1, CleanNextLemma, IdleIsJob DEF CleanNextFacts, Job
        <4> QED BY <1>0, <3>1, <3>3, <4>1, <4>2 DEF Running, Fail
      <3> QED BY <1>4, <3>2, <3>3 DEF Tick, vars
    <2>4. ASSUME NEW tb \in Tables, NEW tier \in {2, 3}, NEW lo \in Starts(tier), Due(tier, lo)
          PROVE  Sparse(tb, tier, lo)'
      BY <1>2, <2>1, <2>4, SparseUnchanged
    <2> QED BY <1>1, <2>3, <2>4
  <1>5. CASE StartMaintenance \/ ReadBatch \/ SwapBatch
    <2>1. lastGood' = Never \/ (Running /\ lastGood' = lastGood)
      BY <1>5 DEF StartMaintenance, ReadBatch, SwapBatch, Running
    <2> QED BY <1>0, <2>1 DEF MergedAtLast
  <1>6. CASE NextTable
    <2>1. Running /\ lastGood = Never
      BY <1>0, <1>6 DEF NextTable, Running, MergedAtLast
    <2>2. /\ Batches = {} /\ rows' = rows /\ now' = now /\ job.table = Snapshots /\ job.tier = 3
          /\ job' = Cleaning /\ lastGood' = job.start
      BY <1>6, <2>1 DEF NextTable
    <2>3. ~Running' /\ lastGood' <= now'
      BY <1>0, <2>1, <2>2, ClockStep DEF Running
    <2>4. ASSUME NEW tb \in Tables, NEW tier \in {2, 3}, NEW lo \in Starts(tier), Due(tier, lo)
          PROVE  Sparse(tb, tier, lo)'
      <3>1. InWindow(tier, lo, job.start) /\ MergedSoFar
        BY <2>2, <2>4 DEF MergeInv
      <3>2. Through(tb, tier, lo) \/ (tb = job.table /\ tier = job.tier)
        <4>1. tb < Snapshots \/ tb = Snapshots
          BY <1>0
        <4> QED BY <2>2, <4>1 DEF Through
      <3>3. Sparse(tb, tier, lo)
        BY <1>0, <2>1, <2>2, <3>1, <3>2, TableDone DEF MergedSoFar
      <3> QED BY <2>2, <3>3, SparseUnchanged
    <2> QED BY <1>1, <2>3, <2>4
  <1>7. CASE DeleteOld
    <2>1. /\ job.pc = "clean" /\ now' = now /\ lastGood' = lastGood
          /\ job' \in {job, CleanNext}
          /\ rows' \subseteq rows /\ rows \ rows' \subseteq Old(job.table)
      BY <1>7 DEF DeleteOld
    <2>2. ~Running' /\ lastGood' <= now'
      <3>1. CleanNext.pc \in {"idle", "clean"}
        BY <1>0, <2>1, CleanNextLemma DEF CleanNextFacts
      <3> QED BY <1>0, <2>1, <3>1 DEF Running, MergedAtLast
    <2>3. ASSUME NEW tb \in Tables, NEW tier \in {2, 3}, NEW lo \in Starts(tier), Due(tier, lo)
          PROVE  Sparse(tb, tier, lo)'
      <3> DEFINE begin == BucketOf(lo, Bucket3)
      <3>1. begin \in Starts(3) /\ begin \in Nat /\ begin <= lo /\ begin >= now - Tier3 /\ lo \in Nat
        BY <2>1, <2>3, BucketBegins, CompactionAssumption DEF Bucket, Starts, Instant
      <3>2. ASSUME NEW s \in rows', s.table = Snapshots, lo <= s.ts, Referenced(s)
            PROVE  Referenced(s)'
        <4>1. PICK c \in rows : c.table # Snapshots /\ c.ref = s.ref
          BY <3>2 DEF Referenced
        <4>2. s \in rows /\ s.ts \in c.covers /\ s.ts \in Nat /\ c.ts \in Nat
          <5>1. s \in rows
            BY <2>1
          <5> QED BY <1>0, <3>2, <4>1, <5>1, PointedTo, CompactionAssumption
                  DEF MergeInv, TypeOK, Row, Instant
        <4>3. Near(3, s.ts, c.ts)
          BY <4>1, <4>2 DEF LossInv, CoversNear
        <4>4. begin <= s.ts
          BY <3>1, <3>2, <4>2
        <4>5. begin <= c.ts
          BY <3>1, <4>3, <4>4 DEF Near
        <4>6. ~(c.ts < Cutoff)
          <5>1. job.start <= now
            BY <2>1 DEF IInv, RunDated
          <5> QED BY <1>0, <3>1, <4>2, <4>5, <5>1 DEF Cutoff
        <4>7. c \in rows'
          BY <2>1, <4>1, <4>6 DEF Old
        <4> QED BY <4>1, <4>7 DEF Referenced, Snapshots
      <3> QED BY <1>2, <2>1, <2>3, <3>2, CrowdShrinks, SparseStays
    <2> QED BY <1>1, <2>2, <2>3
  <1> QED BY <1>3, <1>4, <1>5, <1>6, <1>7 DEF Next

\* What has at most one element has a cardinality of at most one.
LEMMA SparseIsOne ==
    ASSUME NEW tb, NEW tier, NEW lo, Sparse(tb, tier, lo)
    PROVE  Cardinality(Crowd(tb, lo, Bucket(tier))) <= 1
  <1> DEFINE crowd == Crowd(tb, lo, Bucket(tier))
  <1>1. \A r, q \in crowd : r = q
    BY DEF Sparse
  <1> HIDE DEF crowd
  <1>2. ASSUME crowd = {} PROVE Cardinality(crowd) <= 1
    <2>1. Cardinality(crowd) = 0
      BY <1>2, FS_EmptySet, Zenon
    <2> QED BY <2>1
  <1>3. ASSUME NEW r \in crowd PROVE Cardinality(crowd) <= 1
    <2>1. crowd = {r}
      BY <1>1, <1>3
    <2> QED BY <2>1, FS_Singleton
  <1> QED BY <1>2, <1>3 DEF crowd

\* Rows are merged when their age says so and not before: what charts of the
\* last day and week read has its resolution, and after a compaction that went
\* through no bucket in the window has two rows (_compact_table, COMPACT_TABLES,
\* ChartDataView).
THEOREM MergedWhenOld == Spec => []MergedByAge
  <1> DEFINE Inv == LossInv /\ AgedInv /\ MergeInv
  <1>1. Init => Inv
    BY DEF Init, Idle, LossInv, CoversNear, OwedYoung, NothingLost, AgedInv, MergeInv, RefIsRead,
           WideIsOld, MergedSoFar, Running, MergedAtLast
  <1>2. IInv /\ Inv /\ [Next]_vars => Inv'
    BY NearStep, OwedStep, LossStep, AgedStep, RefStep, WideStep, SoFarStep, AtLastStep
       DEF LossInv, MergeInv
  <1>3. MergeInv => BucketsMerged
    BY SparseIsOne DEF MergeInv, MergedAtLast, BucketsMerged, InWindow
  <1> QED BY <1>1, <1>2, <1>3, Inductive, ResolutionIsKept, PTL DEF Spec, MergedByAge

\* Each reading that must be there is in one row of its table: no SUM counts it
\* twice and no merge or cleanup loses it (_compact_table, cleanup_old_data).
THEOREM ReadingsStoredExactly == Spec => []StoredExactly
  BY ReadingsCountedOnce, ReadingsKept, PTL DEF StoredExactly
===============================================================================

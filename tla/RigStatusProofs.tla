--------------------------- MODULE RigStatusProofs ---------------------------
(***************************************************************************)
(* Proofs about RigStatus, for every fleet, every number of workers and    *)
(* every choice of thresholds that satisfies ThresholdAssumption.          *)
(*                                                                         *)
(* OnlineIsRecent and LiveIsRecent are not inductive: the step that makes  *)
(* them hold again with a smaller bound is EndSweep, and there one has to  *)
(* know that the sweep skipped no silent rig.  SweepMissesNoRig says that, *)
(* and with it the conjunction is inductive.                               *)
(***************************************************************************)
EXTENDS RigStatus, TLAPS

IInv == TypeOK /\ SweepMissesNoRig /\ OnlineIsRecent /\ LiveIsRecent

-----------------------------------------------------------------------------
\* Ageing a row (Tick) stays within the cap, and loses a minute only there.
LEMMA OlderFacts ==
    ASSUME NEW a \in Age
    PROVE  /\ Older(a) \in Age
           /\ a < AgeCap => Older(a) = a + 1
           /\ a = AgeCap => Older(a) = AgeCap
  BY ThresholdAssumption DEF Older, Age

\* What a query fetches (Fetch) are rows of existing rigs with the status read.
LEMMA FetchType ==
    ASSUME TypeOK, NEW set \in SUBSET Rigs
    PROVE  Fetch(set) \subseteq Fetched
  BY DEF TypeOK, Fetch, Fetched, Row

\* A query (Fetch) returns exactly the existing rigs of its filter that have a
\* last_seen.
LEMMA FetchedRigs ==
    ASSUME NEW set \in SUBSET Rigs, NEW r \in Rigs
    PROVE  (\E f \in Fetch(set) : f.rig = r)
             <=> r \in set /\ rigs[r].present /\ rigs[r].heard
  <1> DEFINE row == [rig |-> r, status |-> rigs[r].status]
  <1>1. row.rig = r
    OBVIOUS
  <1>2. ASSUME r \in set, rigs[r].present, rigs[r].heard PROVE row \in Fetch(set)
    BY <1>2 DEF Fetch
  <1>3. ASSUME NEW f \in Fetch(set), f.rig = r
        PROVE  r \in set /\ rigs[r].present /\ rigs[r].heard
    BY <1>3 DEF Fetch
  <1> QED BY <1>1, <1>2, <1>3

\* The invariant holds of an empty database.
LEMMA InitIInv == Init => IInv
  BY ThresholdAssumption
     DEF Init, IInv, TypeOK, SweepMissesNoRig, OnlineIsRecent, LiveIsRecent,
         Absent, NoEvent, Event, Row, Age, Status, Online, Stale, Offline,
         Sweep, Request

-----------------------------------------------------------------------------
\* Every step keeps every variable in its type.
LEMMA TypeStep == TypeOK /\ [Next]_vars => TypeOK'
  <1> SUFFICES ASSUME TypeOK, [Next]_vars PROVE TypeOK'
    OBVIOUS
  <1> USE ThresholdAssumption
      DEF TypeOK, Row, Event, Status, Online, Stale, Offline, Age
  <1>1. ASSUME NEW w \in Workers, NEW r \in Rigs, ReceiveHeartbeat(w, r)
        PROVE  TypeOK'
    <2>1. GetOrCreate(r) \in Row
      BY DEF GetOrCreate, Fresh
    <2> QED BY <1>1, <2>1 DEF ReceiveHeartbeat, Request
  <1>2. ASSUME NEW q \in req, CommitHeartbeat(q) PROVE TypeOK'
    BY <1>2 DEF CommitHeartbeat, Request
  <1>3. ASSUME NEW q \in req, DropHeartbeat(q) PROVE TypeOK'
    BY <1>3 DEF DropHeartbeat
  <1>4. CASE StartSweep
    <2>1. StaleRows \subseteq Fetched
      BY FetchType DEF StaleRows
    <2>2. Raced(StaleRows) \subseteq Rigs
      BY <2>1 DEF Raced, Fetched
    <2> QED BY <1>4, <2>1, <2>2 DEF StartSweep, Sweep
  <1>5. CASE StartOfflineLoop
    <2>1. OfflineRows \subseteq Fetched
      BY FetchType DEF OfflineRows
    <2>2. Raced(OfflineRows) \subseteq Rigs
      BY <2>1 DEF Raced, Fetched
    <2> QED BY <1>5, <2>1, <2>2 DEF StartOfflineLoop, Sweep
  <1>6. CASE EndSweep
    BY <1>6 DEF EndSweep, Sweep
  <1>7. CASE CrashSweep
    BY <1>7 DEF CrashSweep, StopSweep, Sweep
  <1>8. ASSUME NEW f \in sweep.todo, SaveTransition(f) PROVE TypeOK'
    <2>1. f \in Fetched /\ f.rig \in Rigs
      BY DEF Sweep, Fetched
    <2>2. Verdict \in Status
      BY DEF Verdict
    <2>3. rigs' \in [Rigs -> Row]
      BY <1>8, <2>1, <2>2 DEF SaveTransition
    <2>4. sweep' \in Sweep
      BY <1>8, <2>1 DEF SaveTransition, Sweep
    <2> QED BY <1>8, <2>3, <2>4 DEF SaveTransition
  <1>9. ASSUME NEW f \in sweep.logging, LogTransition(f) PROVE TypeOK'
    BY <1>9 DEF LogTransition, Verdict, Sweep, Fetched
  <1>10. CASE KillSweep
    BY <1>10 DEF KillSweep, StopSweep, Sweep, Fetched
  <1>11. ASSUME NEW r \in Rigs, DeleteEvents(r) PROVE TypeOK'
    BY <1>11 DEF DeleteEvents, NoEvent
  <1>12. ASSUME NEW r \in Rigs, DeleteRow(r) PROVE TypeOK'
    BY <1>12 DEF DeleteRow, Absent
  <1>13. CASE Tick
    BY <1>13, OlderFacts DEF Tick
  <1>14. CASE UNCHANGED vars
    BY <1>14 DEF vars
  <1> QED
    BY <1>1, <1>2, <1>3, <1>4, <1>5, <1>6, <1>7, <1>8, <1>9, <1>10, <1>11,
       <1>12, <1>13, <1>14 DEF Next, SweepStep

\* The type invariant, for every value of the constants.
THEOREM TypeCorrect == Spec => []TypeOK
  <1>1. Init => TypeOK
    BY InitIInv DEF IInv
  <1> QED BY <1>1, TypeStep, PTL DEF Spec

-----------------------------------------------------------------------------
\* Every step keeps SweepMissesNoRig and both bounds.
LEMMA RecentStep ==
    IInv /\ TypeOK' /\ [Next]_vars
      => SweepMissesNoRig' /\ OnlineIsRecent' /\ LiveIsRecent'
  <1> DEFINE Goal == SweepMissesNoRig' /\ OnlineIsRecent' /\ LiveIsRecent'
  <1> SUFFICES ASSUME IInv, TypeOK', [Next]_vars PROVE Goal
    OBVIOUS
  <1> USE ThresholdAssumption
      DEF IInv, SweepMissesNoRig, OnlineIsRecent, LiveIsRecent, Overdue,
          Pending, Online, Stale, Offline
  <1>0. /\ \A r \in Rigs : rigs[r] \in Row /\ rigs[r].age \in Nat
        /\ sinceStart \in 0 .. CronPeriod /\ sinceGood \in Nat
        /\ \A f \in sweep.todo : f.rig \in Rigs
    BY DEF TypeOK, Row, Age, Sweep, Fetched
  <1>1. ASSUME NEW w \in Workers, NEW x \in Rigs, ReceiveHeartbeat(w, x)
        PROVE  Goal
    <2>1. \A r \in Rigs : rigs'[r] = rigs[r] \/ rigs'[r] = Fresh
      BY <1>1 DEF ReceiveHeartbeat, GetOrCreate, TypeOK
    <2> QED BY <1>0, <1>1, <2>1 DEF ReceiveHeartbeat, Fresh
  <1>2. ASSUME NEW q \in req, CommitHeartbeat(q) PROVE Goal
    <2>1. \A r \in Rigs :
             \/ rigs'[r] = rigs[r]
             \/ rigs'[r] = [present |-> TRUE, status |-> Online,
                            heard |-> TRUE, age |-> 0]
      BY <1>2 DEF CommitHeartbeat, TypeOK
    <2> QED BY <1>0, <1>2, <2>1 DEF CommitHeartbeat
  <1>3. ASSUME NEW q \in req, DropHeartbeat(q) PROVE Goal
    BY <1>3 DEF DropHeartbeat
  <1>4. CASE StartSweep
    <2>1. \A r \in Rigs : rigs[r].heard /\ rigs[r].status = Online
             /\ rigs[r].age > StaleAfter /\ rigs[r].age <= OfflineAfter
                <=> \E f \in StaleRows : f.rig = r
      <3> DEFINE set == {r \in Rigs : /\ rigs[r].status = Online
                                       /\ rigs[r].age > StaleAfter
                                       /\ rigs[r].age <= OfflineAfter}
      <3>1. StaleRows = Fetch(set) /\ set \in SUBSET Rigs
        BY DEF StaleRows
      <3>2. \A r \in Rigs : (\E f \in Fetch(set) : f.rig = r)
               <=> r \in set /\ rigs[r].present /\ rigs[r].heard
        BY <3>1, FetchedRigs
      <3> QED BY <3>1, <3>2
    <2>2. rigs' = rigs /\ sweep'.pc = "stale" /\ sweep'.todo = StaleRows
          /\ sinceStart' = 0 /\ sinceGood' = sinceGood
      BY <1>4 DEF StartSweep
    <2>3. \A r \in Rigs : Pending(r)' <=>
             /\ rigs[r].heard /\ rigs[r].status = Online
             /\ rigs[r].age > StaleAfter /\ rigs[r].age <= OfflineAfter
      BY <2>1, <2>2
    <2>4. SweepMissesNoRig'
      <3> HIDE DEF Pending
      <3> QED BY <1>0, <2>2, <2>3
    <2> QED BY <2>2, <2>4
  <1>5. CASE StartOfflineLoop
    <2>1. \A r \in Rigs : rigs[r].heard /\ rigs[r].status # Offline
             /\ rigs[r].age > OfflineAfter + sinceStart
                => \E f \in OfflineRows : f.rig = r
      <3> DEFINE set == {r \in Rigs : /\ rigs[r].status # Offline
                                       /\ rigs[r].age - sinceStart > OfflineAfter}
      <3>1. OfflineRows = Fetch(set) /\ set \in SUBSET Rigs
        BY DEF OfflineRows
      <3>2. \A r \in Rigs : (\E f \in Fetch(set) : f.rig = r)
               <=> r \in set /\ rigs[r].present /\ rigs[r].heard
        BY <3>1, FetchedRigs
      <3> HIDE DEF Pending
      <3> QED BY <1>0, <3>1, <3>2
    <2>2. rigs' = rigs /\ sweep'.pc = "offline" /\ sweep'.todo = OfflineRows
          /\ sinceStart' = sinceStart /\ sinceGood' = sinceGood
          /\ sweep.pc = "stale" /\ sweep.todo = {}
      BY <1>5 DEF StartOfflineLoop
    <2>3. \A r \in Rigs : rigs[r].heard /\ rigs[r].status # Offline
             /\ rigs[r].age > OfflineAfter + sinceStart => Pending(r)'
      BY <2>1, <2>2
    <2>4. \A r \in Rigs : ~Pending(r)
      BY <2>2
    <2>5. SweepMissesNoRig'
      <3> HIDE DEF Pending
      <3> QED BY <1>0, <2>2, <2>3, <2>4
    <2> QED BY <2>2, <2>5
  <1>6. CASE EndSweep
    <2>1. rigs' = rigs /\ sweep'.pc = "idle" /\ sinceGood' = sinceStart
          /\ sweep.pc = "offline" /\ sweep.todo = {}
      BY <1>6 DEF EndSweep, TypeOK, Sweep
    <2> QED BY <1>0, <2>1
  <1>7. CASE StopSweep
    BY <1>7 DEF StopSweep
  <1>8. ASSUME NEW f \in sweep.todo, SaveTransition(f) PROVE Goal
    <2>1. \A r \in Rigs : r # f.rig => rigs'[r] = rigs[r]
      BY <1>8 DEF SaveTransition, TypeOK
    <2>2. /\ f.rig \in Rigs
          /\ rigs'[f.rig].status = Verdict
          /\ rigs'[f.rig].age = rigs[f.rig].age
          /\ rigs'[f.rig].heard = rigs[f.rig].heard
          /\ rigs'[f.rig].present
      BY <1>0, <1>8 DEF SaveTransition, TypeOK, Row
    <2>3. /\ sweep'.pc = sweep.pc /\ sweep'.todo = sweep.todo \ {f}
          /\ sinceStart' = sinceStart /\ sinceGood' = sinceGood
      BY <1>8 DEF SaveTransition, TypeOK, Sweep
    <2>4. \A r \in Rigs : r # f.rig
             => ((\E g \in sweep.todo : g.rig = r)
                   <=> (\E g \in sweep'.todo : g.rig = r))
      BY <2>3
    <2>5. CASE sweep.pc = "stale"
      BY <1>0, <2>1, <2>2, <2>3, <2>4, <2>5 DEF Verdict
    <2>6. CASE sweep.pc # "stale"
      BY <1>0, <2>1, <2>2, <2>3, <2>4, <2>6 DEF Verdict
    <2> QED BY <2>5, <2>6
  <1>9. ASSUME NEW f \in sweep.logging, LogTransition(f) PROVE Goal
    <2>1. rigs' = rigs /\ sweep'.pc = sweep.pc /\ sweep'.todo = sweep.todo
          /\ sinceStart' = sinceStart /\ sinceGood' = sinceGood
      BY <1>9 DEF LogTransition, TypeOK, Sweep
    <2> QED BY <2>1
  <1>11. ASSUME NEW r \in Rigs, DeleteEvents(r) PROVE Goal
    BY <1>11 DEF DeleteEvents
  <1>12. ASSUME NEW x \in Rigs, DeleteRow(x) PROVE Goal
    <2>1. \A r \in Rigs : rigs'[r] = rigs[r] \/ rigs'[r] = Absent
      BY <1>12 DEF DeleteRow, TypeOK
    <2> QED BY <1>0, <1>12, <2>1 DEF DeleteRow, Absent
  <1>13. CASE Tick
    <2>1. \A r \in Rigs :
             /\ rigs'[r].status = rigs[r].status
             /\ rigs'[r].heard = rigs[r].heard
             /\ rigs'[r].present = rigs[r].present
             /\ rigs[r].heard => rigs'[r].age = Older(rigs[r].age)
      BY <1>0, <1>13 DEF Tick, Row
    <2>2. /\ sinceStart' = sinceStart + 1 /\ sinceStart < CronPeriod
          /\ sinceGood' = Older(sinceGood) /\ sweep' = sweep
      BY <1>13 DEF Tick
    <2>3. \A r \in Rigs : rigs[r].age \in 0 .. AgeCap
      BY DEF TypeOK, Row, Age
    <2>4. sinceGood \in 0 .. AgeCap
      BY DEF TypeOK, Age
    <2>5. SweepMissesNoRig'
      BY <1>0, <2>1, <2>2, <2>3 DEF Older
    <2>6. OnlineIsRecent' /\ LiveIsRecent'
      BY <1>0, <2>1, <2>2, <2>3, <2>4 DEF Older
    <2> QED BY <2>5, <2>6
  <1>14. CASE UNCHANGED vars
    BY <1>14 DEF vars
  <1> QED
    BY <1>1, <1>2, <1>3, <1>4, <1>5, <1>6, <1>7, <1>8, <1>9, <1>11, <1>12,
       <1>13, <1>14 DEF Next, SweepStep, CrashSweep, KillSweep

\* The strengthened invariant holds throughout.
THEOREM Invariance == Spec => []IInv
  <1>1. IInv /\ [Next]_vars => IInv'
    BY TypeStep, RecentStep DEF IInv
  <1> QED BY InitIInv, <1>1, PTL DEF Spec

\* A rig shown online was heard from within StaleAfter minutes of the start of
\* the last complete sweep: in the deployment (2-minute threshold, 2-minute
\* cron, a sweep shorter than its period) at most 6 minutes ago.
THEOREM OnlineRecency == Spec => []OnlineIsRecent
  BY Invariance, PTL DEF IInv

\* The same for the offline threshold.
THEOREM LiveRecency == Spec => []LiveIsRecent
  BY Invariance, PTL DEF IInv

\* Both bounds, as the run checks them.
THEOREM StatusRecency == Spec => []StatusIsRecent
  BY OnlineRecency, LiveRecency, PTL DEF StatusIsRecent

\* No running sweep misses a silent rig.
THEOREM SweepCompleteness == Spec => []SweepMissesNoRig
  BY Invariance, PTL DEF IInv
-----------------------------------------------------------------------------
(***************************************************************************)
(* The event log: outside the recorded races (torn) it is an unbroken      *)
(* chain that ends in the rig's status.                                    *)
(*                                                                         *)
(* The status is written from what a request or a sweep read earlier, so   *)
(* EventsExplainStatus needs to know that what they read is still so, and  *)
(* that no two of them work on the same rig: Isolated says both.           *)
(***************************************************************************)

\* At most one writer at a time is at work on a rig that is not torn.
OneWriter(r) ==
    /\ \A f, g \in InSweep(r) : f = g
    /\ \A p, q \in Handling(r) : p = q
    /\ Handling(r) # {} => InSweep(r) = {}

\* What the writer read is still there: the status a request saw, the status a
\* sweep fetched or, once it has saved, the newest event.
ReadIsCurrent(r) ==
    /\ ~rigs[r].present => rigs[r].status = Offline
    /\ \A q \in Handling(r) : q.seen = rigs[r].status
    /\ \A f \in sweep.todo : f.rig = r => f.status = rigs[r].status
    /\ \A f \in sweep.logging : f.rig = r =>
         f.status = lastEvent[r].status /\ rigs[r].status = Verdict

Explained(r) ==
    (\A f \in sweep.logging : f.rig # r) => lastEvent[r].status = rigs[r].status

Isolated ==
    /\ deleting \subseteq torn
    /\ sweep.logging \cap sweep.todo = {}
    /\ \A f, g \in sweep.logging : f = g
    /\ sweep.pc = "idle" => sweep.todo = {} /\ sweep.logging = {}
    /\ \A r \in Rigs \ torn : OneWriter(r) /\ ReadIsCurrent(r)

LogIInv == TypeOK /\ Isolated /\ EventsExplainStatus

-----------------------------------------------------------------------------
\* The empty database is consistent.
LEMMA InitLog == Init => Isolated /\ EventsExplainStatus
  BY DEF Init, Isolated, EventsExplainStatus, OneWriter, ReadIsCurrent,
         Handling, InSweep, Absent, NoEvent

\* A query (Fetch) returns one row for a rig, with the rig's status.
LEMMA FetchedRows ==
    ASSUME NEW set \in SUBSET Rigs
    PROVE  \A f \in Fetch(set) : f = [rig |-> f.rig, status |-> rigs[f.rig].status]
  BY DEF Fetch

\* The two queries of update_rig_status return the rows they say.
LEMMA QueryRows ==
    ASSUME NEW rows, rows = StaleRows \/ rows = OfflineRows
    PROVE  \A f \in rows : f = [rig |-> f.rig, status |-> rigs[f.rig].status]
  BY FetchedRows DEF StaleRows, OfflineRows

\* A step that leaves all there is about a rig keeps what is known about it.
LEMMA Frame ==
    ASSUME NEW r, OneWriter(r), ReadIsCurrent(r), Explained(r),
           Handling(r)' = Handling(r),
           \A f : f.rig = r => (f \in sweep'.todo <=> f \in sweep.todo)
                            /\ (f \in sweep'.logging <=> f \in sweep.logging),
           sweep'.pc = sweep.pc \/ \A f \in sweep.logging : f.rig # r,
           rigs'[r].status = rigs[r].status, rigs'[r].present = rigs[r].present,
           lastEvent'[r] = lastEvent[r]
    PROVE  OneWriter(r)' /\ ReadIsCurrent(r)' /\ Explained(r)'
  <1>1. InSweep(r)' = InSweep(r)
    BY DEF InSweep
  <1>2. OneWriter(r)'
    BY <1>1 DEF OneWriter
  <1>3. ReadIsCurrent(r)'
    BY DEF ReadIsCurrent, Verdict
  <1>4. Explained(r)'
    BY DEF Explained
  <1> QED BY <1>2, <1>3, <1>4

-----------------------------------------------------------------------------
\* Every step keeps the writers apart and the log in line with the status.
LEMMA LogStep ==
    LogIInv /\ TypeOK' /\ [Next]_vars => Isolated' /\ EventsExplainStatus'
  <1> DEFINE Known(r) == OneWriter(r)' /\ ReadIsCurrent(r)' /\ Explained(r)'
             Sweeps   == /\ deleting' \subseteq torn'
                         /\ sweep'.logging \cap sweep'.todo = {}
                         /\ \A f, g \in sweep'.logging : f = g
                         /\ sweep'.pc = "idle" => sweep'.todo = {} /\ sweep'.logging = {}
             Goal     == Sweeps /\ \A r \in Rigs \ torn' : Known(r)
  <1> SUFFICES ASSUME LogIInv, TypeOK', [Next]_vars PROVE Goal
    BY DEF Isolated, EventsExplainStatus, Explained
  <1>0. /\ \A r \in Rigs \ torn : OneWriter(r) /\ ReadIsCurrent(r) /\ Explained(r)
        /\ deleting \subseteq torn /\ sweep.logging \cap sweep.todo = {}
        /\ \A f, g \in sweep.logging : f = g
        /\ sweep.pc = "idle" => sweep.todo = {} /\ sweep.logging = {}
    BY DEF LogIInv, Isolated, EventsExplainStatus, Explained
  <1>00. TypeOK
    BY DEF LogIInv
  <1>1. ASSUME NEW w \in Workers, NEW x \in Rigs, ReceiveHeartbeat(w, x)
        PROVE  Goal
    <2> DEFINE new == [worker |-> w, rig |-> x, seen |-> GetOrCreate(x).status]
    <2>1. /\ sweep' = sweep /\ lastEvent' = lastEvent /\ deleting' = deleting
          /\ torn \subseteq torn' /\ req' = req \cup {new}
          /\ rigs' = [rigs EXCEPT ![x] = GetOrCreate(x)]
          /\ x \notin torn' => Handling(x) = {} /\ InSweep(x) = {}
      BY <1>1 DEF ReceiveHeartbeat
    <2>2. ASSUME NEW r \in Rigs \ torn', r # x PROVE Known(r)
      <3>1. Handling(r)' = Handling(r)
        BY <2>1, <2>2 DEF Handling
      <3>2. rigs'[r] = rigs[r]
        BY <2>1, <2>2
      <3> QED BY <1>0, <2>1, <3>1, <3>2, Frame
    <2>3. ASSUME x \notin torn' PROVE Known(x)
      <3>1. x \in Rigs \ torn /\ Handling(x) = {} /\ InSweep(x) = {}
        BY <2>1, <2>3
      <3>2. Handling(x)' = {new} /\ new.rig = x /\ InSweep(x)' = {}
        BY <2>1, <3>1 DEF Handling, InSweep
      <3>3. rigs'[x] = GetOrCreate(x) /\ GetOrCreate(x).present
            /\ GetOrCreate(x).status = rigs[x].status
        BY <1>0, <1>00, <2>1, <3>1
           DEF GetOrCreate, Fresh, ReadIsCurrent, TypeOK, Row
      <3>4. \A f \in sweep.todo \cup sweep.logging : f.rig # x
        BY <3>1 DEF InSweep
      <3> HIDE DEF new
      <3>5. OneWriter(x)'
        BY <3>2 DEF OneWriter
      <3>6. new.seen = GetOrCreate(x).status
        BY DEF new
      <3>7. ReadIsCurrent(x)'
        BY <2>1, <3>2, <3>3, <3>4, <3>6 DEF ReadIsCurrent
      <3>8. Explained(x)'
        BY <1>0, <2>1, <3>1, <3>3 DEF Explained
      <3> QED BY <3>5, <3>7, <3>8
    <2> QED BY <1>0, <2>1, <2>2, <2>3
  <1>2. ASSUME NEW q \in req, CommitHeartbeat(q) PROVE Goal
    <2> DEFINE x == q.rig
    <2>1. /\ sweep' = sweep /\ deleting' = deleting /\ torn' = torn
          /\ req' = req \ {q} /\ x \in Rigs
      BY <1>2, <1>00 DEF CommitHeartbeat, TypeOK, Request
    <2>2. ASSUME NEW r \in Rigs \ torn', r # x PROVE Known(r)
      <3>1. Handling(r)' = Handling(r)
        BY <2>1, <2>2 DEF Handling
      <3>2. rigs'[r] = rigs[r] /\ lastEvent'[r] = lastEvent[r]
        BY <1>2, <1>00, <2>2 DEF CommitHeartbeat, TypeOK
      <3> QED BY <1>0, <2>1, <3>1, <3>2, Frame
    <2>3. ASSUME x \notin torn' PROVE Known(x)
      <3>1. OneWriter(x) /\ ReadIsCurrent(x) /\ Explained(x)
        BY <1>0, <2>1, <2>3
      <3>2. q \in Handling(x)
        BY DEF Handling
      <3>3. Handling(x)' = {} /\ InSweep(x) = {} /\ InSweep(x)' = {}
        BY <2>1, <3>1, <3>2 DEF OneWriter, Handling, InSweep
      <3>4. \A f \in sweep'.todo \cup sweep'.logging : f.rig # x
        BY <3>3 DEF InSweep
      <3>5. q.seen = rigs[x].status /\ lastEvent[x].status = rigs[x].status
        BY <2>1, <3>1, <3>2, <3>4 DEF ReadIsCurrent, Explained
      <3>6. rigs'[x].present /\ rigs'[x].status = Online
            /\ lastEvent'[x].status = Online
        BY <1>2, <1>00, <2>1, <3>5 DEF CommitHeartbeat, TypeOK
      <3>7. OneWriter(x)'
        BY <3>3 DEF OneWriter
      <3>8. ReadIsCurrent(x)'
        BY <3>3, <3>4, <3>6 DEF ReadIsCurrent
      <3>9. Explained(x)'
        BY <3>6 DEF Explained
      <3> QED BY <3>7, <3>8, <3>9
    <2> QED BY <1>0, <2>1, <2>2, <2>3
  <1>3. ASSUME NEW q \in req, DropHeartbeat(q) PROVE Goal
    <2>1. /\ sweep' = sweep /\ lastEvent' = lastEvent /\ rigs' = rigs
          /\ deleting' = deleting /\ torn' = torn /\ req' \subseteq req
      BY <1>3 DEF DropHeartbeat
    <2>2. ASSUME NEW r \in Rigs \ torn' PROVE Known(r)
      <3>1. Handling(r)' \subseteq Handling(r) /\ InSweep(r)' = InSweep(r)
        BY <2>1 DEF Handling, InSweep
      <3>2. OneWriter(r) /\ ReadIsCurrent(r) /\ Explained(r)
        BY <1>0, <2>1
      <3>3. OneWriter(r)'
        BY <3>1, <3>2 DEF OneWriter
      <3>4. ReadIsCurrent(r)'
        BY <2>1, <3>1, <3>2 DEF ReadIsCurrent, Verdict
      <3>5. Explained(r)'
        BY <2>1, <3>2 DEF Explained
      <3> QED BY <3>3, <3>4, <3>5
    <2> QED BY <1>0, <2>1, <2>2
  <1>4. ASSUME NEW rows, rows = StaleRows \/ rows = OfflineRows,
               sweep'.todo = rows, sweep'.logging = {}, sweep.logging = {},
               sweep'.pc # "idle",
               torn' = torn \cup Raced(rows),
               UNCHANGED <<rigs, lastEvent, req, deleting>>
        PROVE  Goal
    <2>1. \A f \in rows : f = [rig |-> f.rig, status |-> rigs[f.rig].status]
      BY <1>4, QueryRows
    <2>2. ASSUME NEW r \in Rigs \ torn' PROVE Known(r)
      <3>1. OneWriter(r) /\ ReadIsCurrent(r) /\ Explained(r)
        BY <1>0, <1>4
      <3>2. \A f \in rows : f.rig = r => Handling(r) = {}
        BY <1>4, <2>2 DEF Raced
      <3>3. InSweep(r)' = {f \in rows : f.rig = r} /\ Handling(r)' = Handling(r)
        BY <1>4 DEF InSweep, Handling
      <3>4. OneWriter(r)'
        BY <2>1, <3>1, <3>2, <3>3 DEF OneWriter
      <3>5. \A f \in rows : f.rig = r => f.status = rigs[r].status
        BY <2>1
      <3>6. ReadIsCurrent(r)'
        BY <1>4, <3>1, <3>3, <3>5 DEF ReadIsCurrent
      <3>7. Explained(r)'
        BY <1>4, <3>1 DEF Explained
      <3> QED BY <3>4, <3>6, <3>7
    <2> QED BY <1>0, <1>4, <2>2
  <1>5. CASE StartSweep
    <2>1. sweep.logging = {}
      BY <1>0, <1>5 DEF StartSweep
    <2> QED BY <1>4, <1>5, <2>1 DEF StartSweep
  <1>6. CASE StartOfflineLoop
    BY <1>4, <1>6 DEF StartOfflineLoop
  <1>7. CASE EndSweep
    <2>1. /\ sweep'.todo = {} /\ sweep'.logging = {}
          /\ sweep.todo = {} /\ sweep.logging = {}
          /\ UNCHANGED <<rigs, lastEvent, req, deleting, torn>>
      BY <1>7, <1>00 DEF EndSweep, TypeOK, Sweep
    <2>2. ASSUME NEW r \in Rigs \ torn' PROVE Known(r)
      BY <1>0, <2>1, <2>2, Frame DEF Handling
    <2> QED BY <1>0, <2>1, <2>2
  <1>8. ASSUME sweep'.todo = {}, sweep'.logging = {},
               \A r \in Rigs \ torn' : \A f \in sweep.logging : f.rig # r,
               torn \subseteq torn', UNCHANGED <<rigs, lastEvent, req, deleting>>
        PROVE  Goal
    <2>1. ASSUME NEW r \in Rigs \ torn' PROVE Known(r)
      <3>1. OneWriter(r) /\ ReadIsCurrent(r) /\ Explained(r)
        BY <1>0, <1>8
      <3>2. InSweep(r)' = {} /\ Handling(r)' = Handling(r)
        BY <1>8 DEF InSweep, Handling
      <3>3. OneWriter(r)'
        BY <3>1, <3>2 DEF OneWriter
      <3>4. ReadIsCurrent(r)'
        BY <1>8, <3>1, <3>2 DEF ReadIsCurrent
      <3>5. Explained(r)'
        BY <1>8, <2>1, <3>1 DEF Explained
      <3> QED BY <3>3, <3>4, <3>5
    <2> QED BY <1>0, <1>8, <2>1
  <1>9. CASE CrashSweep
    BY <1>8, <1>9 DEF CrashSweep, StopSweep
  <1>10. CASE KillSweep
    <2>1. \A r \in Rigs \ torn' : \A f \in sweep.logging : f.rig # r
      BY <1>10 DEF KillSweep
    <2> QED BY <1>8, <1>10, <2>1 DEF KillSweep, StopSweep
  <1>11. ASSUME NEW g \in sweep.todo, SaveTransition(g) PROVE Goal
    <2> DEFINE x == g.rig
    <2>1. /\ sweep'.todo = sweep.todo \ {g} /\ sweep'.logging = {g}
          /\ sweep.logging = {} /\ sweep'.pc = sweep.pc /\ x \in Rigs
          /\ UNCHANGED <<lastEvent, req, deleting, torn>>
          /\ rigs' = [rigs EXCEPT ![x].status = Verdict]
          /\ Verdict' = Verdict
      BY <1>11, <1>00 DEF SaveTransition, TypeOK, Sweep, Fetched, Verdict
    <2>2. ASSUME NEW r \in Rigs \ torn', r # x PROVE Known(r)
      <3>1. rigs'[r] = rigs[r]
        BY <2>1, <2>2
      <3>2. Handling(r)' = Handling(r)
        BY <2>1 DEF Handling
      <3>3. \A f : f.rig = r => f # g
        BY <2>2
      <3>4. OneWriter(r) /\ ReadIsCurrent(r) /\ Explained(r)
        BY <1>0, <2>1, <2>2
      <3> QED BY <2>1, <3>1, <3>2, <3>3, <3>4, Frame
    <2>3. ASSUME x \notin torn' PROVE Known(x)
      <3>1. OneWriter(x) /\ ReadIsCurrent(x) /\ Explained(x)
        BY <1>0, <2>1, <2>3
      <3>2. g \in InSweep(x) /\ InSweep(x)' = InSweep(x)
        BY <2>1 DEF InSweep
      <3>3. Handling(x) = {} /\ Handling(x)' = {}
        BY <2>1, <3>1, <3>2 DEF OneWriter, Handling
      <3>4. g.status = rigs[x].status /\ lastEvent[x].status = rigs[x].status
        BY <2>1, <3>1 DEF ReadIsCurrent, Explained
      <3>5. \A f \in sweep'.todo : f.rig # x
        BY <2>1, <3>1, <3>2 DEF OneWriter, InSweep
      <3>6. rigs'[x].present /\ rigs'[x].status = Verdict
        BY <1>00, <1>11, <2>1 DEF SaveTransition, TypeOK, Row
      <3>7. OneWriter(x)'
        BY <3>1, <3>2, <3>3 DEF OneWriter
      <3>8. ReadIsCurrent(x)'
        BY <2>1, <3>3, <3>4, <3>5, <3>6 DEF ReadIsCurrent
      <3>9. Explained(x)'
        BY <2>1 DEF Explained
      <3> QED BY <3>7, <3>8, <3>9
    <2> QED BY <1>0, <2>1, <2>2, <2>3
  <1>12. ASSUME NEW g \in sweep.logging, LogTransition(g) PROVE Goal
    <2> DEFINE x == g.rig
    <2>1. /\ sweep'.todo = sweep.todo /\ sweep'.logging = {}
          /\ sweep'.pc = sweep.pc /\ x \in Rigs
          /\ UNCHANGED <<rigs, req, deleting, torn>>
          /\ lastEvent' = [lastEvent EXCEPT ![x] =
                             [previous |-> g.status, status |-> Verdict]]
          /\ \A f \in sweep.logging : f = g
      BY <1>0, <1>12, <1>00 DEF LogTransition, TypeOK, Sweep, Fetched
    <2>2. ASSUME NEW r \in Rigs \ torn', r # x PROVE Known(r)
      <3>1. lastEvent'[r] = lastEvent[r]
        BY <1>00, <2>1, <2>2 DEF TypeOK
      <3>2. Handling(r)' = Handling(r)
        BY <2>1 DEF Handling
      <3>3. \A f \in sweep.logging : f.rig # r
        BY <2>1, <2>2
      <3>4. OneWriter(r) /\ ReadIsCurrent(r) /\ Explained(r)
        BY <1>0, <2>1, <2>2
      <3> QED BY <2>1, <3>1, <3>2, <3>3, <3>4, Frame
    <2>3. ASSUME x \notin torn' PROVE Known(x)
      <3>1. OneWriter(x) /\ ReadIsCurrent(x)
        BY <1>0, <2>1, <2>3
      <3>2. g \in InSweep(x) /\ InSweep(x)' \subseteq InSweep(x)
        BY <2>1 DEF InSweep
      <3>3. Handling(x)' = {}
        BY <2>1, <3>1, <3>2 DEF OneWriter, Handling
      <3>4. \A f \in sweep.todo : f.rig # x
        <4>1. \A f \in sweep.todo : f # g
          BY <1>0
        <4> QED BY <3>1, <3>2, <4>1 DEF OneWriter, InSweep
      <3>5. lastEvent'[x].status = Verdict /\ rigs'[x].status = Verdict
            /\ (~rigs'[x].present => rigs'[x].status = Offline)
        BY <1>00, <2>1, <3>1 DEF ReadIsCurrent, TypeOK
      <3>6. OneWriter(x)'
        BY <3>1, <3>2, <3>3 DEF OneWriter
      <3>7. ReadIsCurrent(x)'
        BY <2>1, <3>3, <3>4, <3>5 DEF ReadIsCurrent
      <3>8. Explained(x)'
        BY <3>5 DEF Explained
      <3> QED BY <3>6, <3>7, <3>8
    <2> QED BY <1>0, <2>1, <2>2, <2>3
  <1>13. ASSUME NEW x \in Rigs,
                UNCHANGED <<req, sweep>>, torn \subseteq torn',
                x \in torn', deleting' \subseteq torn',
                \A r \in Rigs : r # x => rigs'[r] = rigs[r]
                                         /\ lastEvent'[r] = lastEvent[r]
         PROVE  Goal
    <2>1. ASSUME NEW r \in Rigs \ torn' PROVE Known(r)
      <3>1. OneWriter(r) /\ ReadIsCurrent(r) /\ Explained(r)
        BY <1>0, <1>13
      <3>2. Handling(r)' = Handling(r)
        BY <1>13 DEF Handling
      <3> QED BY <1>13, <2>1, <3>1, <3>2, Frame
    <2> QED BY <1>0, <1>13, <2>1
  <1>14. ASSUME NEW x \in Rigs, DeleteEvents(x) PROVE Goal
    BY <1>0, <1>00, <1>13, <1>14 DEF DeleteEvents, TypeOK
  <1>15. ASSUME NEW x \in Rigs, DeleteRow(x) PROVE Goal
    BY <1>0, <1>00, <1>13, <1>15 DEF DeleteRow, TypeOK
  <1>16. ASSUME UNCHANGED <<lastEvent, req, sweep, deleting, torn>>,
                \A r \in Rigs : /\ rigs'[r].status = rigs[r].status
                                /\ rigs'[r].present = rigs[r].present
         PROVE  Goal
    <2>1. ASSUME NEW r \in Rigs \ torn' PROVE Known(r)
      <3>1. Handling(r)' = Handling(r)
        BY <1>16 DEF Handling
      <3> QED BY <1>0, <1>16, <3>1, Frame
    <2> QED BY <1>0, <1>16, <2>1
  <1>17. CASE Tick
    <2>1. \A r \in Rigs : /\ rigs'[r].status = rigs[r].status
                          /\ rigs'[r].present = rigs[r].present
      BY <1>00, <1>17 DEF Tick, TypeOK, Row
    <2> QED BY <1>16, <1>17, <2>1 DEF Tick
  <1>18. CASE UNCHANGED vars
    BY <1>16, <1>18 DEF vars
  <1> QED
    BY <1>1, <1>2, <1>3, <1>5, <1>6, <1>7, <1>9, <1>10, <1>11, <1>12, <1>14,
       <1>15, <1>17, <1>18 DEF Next, SweepStep

\* The invariant behind the two results below.
THEOREM LogInvariance == Spec => []LogIInv
  <1>1. Init => LogIInv
    BY InitIInv, InitLog DEF LogIInv, IInv
  <1>2. LogIInv /\ [Next]_vars => LogIInv'
    BY TypeStep, LogStep DEF LogIInv
  <1> QED BY <1>1, <1>2, PTL DEF Spec

\* The newest event of a rig is its status, outside the recorded races.
THEOREM StatusExplained == Spec => []EventsExplainStatus
  BY LogInvariance, PTL DEF LogIInv

\* Each event continues the one before it, outside the recorded races.
THEOREM LogUnbroken == Spec => EventLogUnbroken
  <1> DEFINE Continues == \A r \in Rigs \ torn' :
                lastEvent'[r] # lastEvent[r]
                  => lastEvent'[r].previous = lastEvent[r].status
  <1>1. LogIInv /\ [Next]_vars => [Continues]_vars
    <2> SUFFICES ASSUME LogIInv, Next, NEW r \in Rigs \ torn',
                        lastEvent'[r] # lastEvent[r]
                 PROVE  lastEvent'[r].previous = lastEvent[r].status
      BY DEF vars
    <2>0. TypeOK /\ lastEvent \in [Rigs -> Event]
      BY DEF LogIInv, TypeOK
    <2>1. ASSUME NEW q \in req, CommitHeartbeat(q)
          PROVE  lastEvent'[r].previous = lastEvent[r].status
      <3>1. r = q.rig /\ lastEvent'[r].previous = q.seen /\ torn' = torn
        BY <2>0, <2>1 DEF CommitHeartbeat
      <3>2. OneWriter(r) /\ ReadIsCurrent(r) /\ Explained(r)
        BY <3>1 DEF LogIInv, Isolated, EventsExplainStatus, Explained
      <3>3. q \in Handling(r)
        BY <3>1 DEF Handling
      <3>4. q.seen = rigs[r].status /\ \A f \in sweep.logging : f.rig # r
        BY <3>2, <3>3 DEF OneWriter, ReadIsCurrent, InSweep
      <3> QED BY <3>1, <3>2, <3>4 DEF Explained
    <2>2. ASSUME NEW f \in sweep.logging, LogTransition(f)
          PROVE  lastEvent'[r].previous = lastEvent[r].status
      <3>1. r = f.rig /\ lastEvent'[r].previous = f.status /\ torn' = torn
        BY <2>0, <2>2 DEF LogTransition
      <3> QED BY <3>1 DEF LogIInv, Isolated, ReadIsCurrent
    <2>3. ASSUME NEW x \in Rigs, DeleteEvents(x) PROVE FALSE
      BY <2>0, <2>3 DEF DeleteEvents
    <2> QED
      BY <2>1, <2>2, <2>3
         DEF Next, SweepStep, ReceiveHeartbeat, DropHeartbeat, StartSweep,
             StartOfflineLoop, EndSweep, CrashSweep, KillSweep, StopSweep,
             SaveTransition, DeleteRow, Tick
  <1> QED BY LogInvariance, <1>1, PTL DEF Spec, EventLogUnbroken
=============================================================================

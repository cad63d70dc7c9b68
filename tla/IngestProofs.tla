----------------------------- MODULE IngestProofs -----------------------------
(***************************************************************************)
(* Proofs about Ingest, for all sets of workers and contents and all        *)
(* bounds.                                                                  *)
(*                                                                          *)
(* Without Overlap whatever is under way belongs to the payload of the      *)
(* current minute.  The rows a transaction did not see when it deleted the  *)
(* container rows are therefore of its own payload, and what it commits is  *)
(* the newest.  With Overlap, what is under way is at most as new as the    *)
(* minute, which is enough for what was acknowledged.                       *)
(*                                                                          *)
(* The first part proves that (IInv).  The second has the facts about the   *)
(* operators of Ingest that fold: the sum over a set of rows, and the       *)
(* rolling histories.  On them rest the types (Typed), the accounts of the  *)
(* deltas (Accounted) and what is stored of each payload (Recorded).        *)
(***************************************************************************)
EXTENDS Ingest, FiniteSetTheorems, SequenceTheorems, TLAPS

Handling(w) == worker[w].pc # "idle"

\* Agent and workers hold records that their updates leave whole.
Shaped ==
    /\ minute \in Nat /\ erased \in Nat
    /\ Waiting => agent = [attempt |-> agent.attempt, ts |-> agent.ts,
                           content |-> agent.content, ctr |-> agent.ctr]
    /\ worker = [w \in Workers |-> worker[w]]
    /\ \A w \in Workers : Handling(w) =>
         worker[w] = [pc |-> worker[w].pc, req |-> worker[w].req, row |-> worker[w].row,
                      prev |-> worker[w].prev, visible |-> worker[w].visible]

Dated(ts) == ts \in 0 .. minute /\ (Overlap \/ ts = minute)

\* What is under way is no newer than the minute, and of it without Overlap.
UnderWay ==
    /\ Waiting => Dated(agent.ts)
    /\ \A q \in net : Dated(q.ts)
    /\ \A w \in Workers : Handling(w) => Dated(worker[w].req.ts)

\* What was acknowledged, or will be, is stored.
Acknowledged ==
    /\ \A p \in acked : p.ts \in 0 .. minute
    /\ AckedHasItsRow
    /\ \A w \in Workers :
         worker[w].pc \in {"flush", "reply"} /\ worker[w].req.ts > erased
           => worker[w].req.ts \in snapshots

\* The latest snapshot is one of the rows and none is newer.
Newest ==
    /\ snapshots \subseteq 0 .. minute
    /\ latest # NoLatest /\ snapshots # {} =>
         latest.ts \in snapshots /\ \A t \in snapshots : t <= latest.ts

\* Rows a transaction did not see when it deleted the others are of its payload.
Unmixed ==
    /\ ContainersFromOnePayload
    /\ \A w \in Workers :
         worker[w].pc = "txn" /\ worker[w].req.content.containers # <<>>
           => \A k \in containers \ worker[w].visible : k.ts = worker[w].req.ts

IInv ==
    /\ Shaped /\ UnderWay /\ Acknowledged
    /\ ~Overlap => Newest /\ Unmixed

-----------------------------------------------------------------------------
LEMMA InitIInv == Init => IInv
  <1> SUFFICES ASSUME Init PROVE IInv
    OBVIOUS
  <1> USE DEF Init
  <1>1. Shaped /\ UnderWay
    BY DEF Shaped, UnderWay, Waiting, Handling, AgentIdle, Idle
  <1>2. Acknowledged
    BY DEF Acknowledged, AckedHasItsRow, Idle
  <1>3. Newest /\ Unmixed
    BY DEF Newest, Unmixed, ContainersFromOnePayload, Idle
  <1> QED BY <1>1, <1>2, <1>3 DEF IInv

\* The maximum of the timestamps is the one no other exceeds.
LEMMA MaxIs ==
    ASSUME NEW S \in SUBSET Nat, NEW m \in S, \A t \in S : t <= m
    PROVE  Max(S) = m
  <1>1. \A t \in S : m >= t
    OBVIOUS
  <1>2. Max(S) \in S /\ \A t \in S : Max(S) >= t
    BY <1>1 DEF Max
  <1>3. Max(S) \in Nat /\ m \in Nat /\ Max(S) >= m /\ Max(S) <= m
    BY <1>2
  <1> QED BY <1>3

-----------------------------------------------------------------------------
\* The steps that move a request between the agent, the network and a worker.
LEMMA MoveStep ==
    ASSUME IInv,
           \/ Reboot \/ Resend \/ GiveUp
           \/ \E req \in net : Lose(req) \/ Reject(req)
    PROVE  IInv'
  <1> USE DEF IInv
  <1>1. UNCHANGED <<minute, worker, database, acked, erased>>
    BY DEF Reboot, Resend, GiveUp, Lose, Reject, machine, history
  <1>2. agent' = AgentIdle \/ agent' = agent \/ Resend
    BY DEF Reboot, GiveUp, Lose, Reject, Answered
  <1>3. CASE Resend
    <2>1. Waiting /\ agent' = [agent EXCEPT !.attempt = @ + 1] /\ net' = net \cup {agent'}
      BY <1>3 DEF Resend
    <2>2. agent' = [attempt |-> agent.attempt + 1, ts |-> agent.ts,
                    content |-> agent.content, ctr |-> agent.ctr]
      BY <2>1 DEF Shaped
    <2>3. Shaped'
      BY <1>1, <2>2 DEF Shaped, Waiting, Handling
    <2>4. UnderWay'
      BY <1>1, <2>1, <2>2 DEF UnderWay, Waiting, Handling, Dated
    <2> QED BY <1>1, <2>3, <2>4 DEF Acknowledged, AckedHasItsRow, Newest, Unmixed,
                 ContainersFromOnePayload, database
  <1>4. CASE ~Resend
    <2>1. net' \subseteq net
      BY <1>4 DEF Reboot, GiveUp, Lose, Reject
    <2>2. Shaped'
      BY <1>1, <1>2, <1>4 DEF Shaped, Waiting, Handling, AgentIdle
    <2>3. UnderWay'
      BY <1>1, <1>2, <1>4, <2>1 DEF UnderWay, Waiting, Handling, Dated, AgentIdle
    <2> QED BY <1>1, <2>2, <2>3 DEF Acknowledged, AckedHasItsRow, Newest, Unmixed,
                 ContainersFromOnePayload, database
  <1> QED BY <1>3, <1>4

\* A new payload: without Overlap nothing else is under way.
LEMMA CollectStep ==
    ASSUME IInv, NEW c \in Contents, NEW d \in 0 .. MaxIO, NEW missing \in BOOLEAN,
           Collect(c, d, missing)
    PROVE  IInv'
  <1> USE DEF IInv
  <1>1. /\ minute' = minute + 1 /\ net' = net \cup {agent'}
        /\ UNCHANGED <<worker, rig, snapshots, disk, latest, containers, acked, erased>>
        /\ Overlap \/ (net = {} /\ Busy = {})
    BY DEF Collect, database
  <1>2. \E ctr : agent' = [attempt |-> 1, ts |-> minute + 1, content |-> c, ctr |-> ctr]
    BY DEF Collect
  <1>3. minute \in Nat /\ minute' \in Nat
    BY <1>1 DEF Shaped
  <1>4. Shaped'
    BY <1>1, <1>2, <1>3 DEF Shaped, Waiting, Handling
  <1>5. UnderWay'
    <2>1. agent'.ts \in 0 .. minute' /\ agent'.ts = minute'
      BY <1>1, <1>2, <1>3
    <2>2. \A ts : Overlap /\ Dated(ts) => Dated(ts)'
      BY <1>1, <1>3 DEF Dated
    <2>3. ~Overlap => net = {} /\ \A w \in Workers : ~Handling(w)
      BY <1>1 DEF Busy, Handling
    <2> QED BY <1>1, <2>1, <2>2, <2>3 DEF UnderWay, Handling, Dated
  <1>6. Acknowledged'
    BY <1>1, <1>3 DEF Acknowledged, AckedHasItsRow
  <1>7. ~Overlap => Newest' /\ Unmixed'
    BY <1>1, <1>3 DEF Newest, Unmixed, ContainersFromOnePayload
  <1> QED BY <1>4, <1>5, <1>6, <1>7

\* The steps of a worker that write no row of the payload.
LEMMA WorkStep ==
    ASSUME IInv, NEW w \in Workers,
           \/ \E req \in net : Accept(w, req)
           \/ ReadPrevious(w) \/ Begin(w) \/ Flush(w) \/ Reply(w) \/ Fail(w) \/ Crash(w)
    PROVE  IInv'
  <1> USE DEF IInv
  <1>1. UNCHANGED <<minute, erased, snapshots, latest, containers>> /\ net' \subseteq net
    BY DEF Accept, ReadPrevious, Begin, Flush, Reply, Fail, Crash, machine, database, history
  <1>2. /\ worker' = [worker EXCEPT ![w] = worker'[w]]
        /\ \A v \in Workers : v # w => worker'[v] = worker[v]
    BY DEF Accept, ReadPrevious, Begin, Flush, Reply, Fail, Crash, Shaped
  <1>3. agent' = agent \/ agent' = AgentIdle
    BY DEF Accept, ReadPrevious, Begin, Flush, Reply, Fail, Crash, Answered
  <1>4. CASE worker'[w] = Idle
    <2>1. \/ acked' = acked
          \/ /\ worker[w].pc = "reply"
             /\ acked' = acked \cup {[ts |-> worker[w].req.ts, content |-> worker[w].req.content]}
      BY <1>4 DEF Accept, ReadPrevious, Begin, Flush, Reply, Fail, Crash, history, Idle, Shaped
    <2>2. Shaped' /\ UnderWay'
      BY <1>1, <1>2, <1>3, <1>4 DEF Shaped, UnderWay, Waiting, Handling, Dated, AgentIdle, Idle
    <2>3. Acknowledged'
      BY <1>1, <1>2, <1>4, <2>1 DEF Acknowledged, AckedHasItsRow, Idle, UnderWay, Handling, Dated
    <2>4. ~Overlap => Newest' /\ Unmixed'
      BY <1>1, <1>2, <1>4 DEF Newest, Unmixed, ContainersFromOnePayload, Idle
    <2> QED BY <2>2, <2>3, <2>4
  <1>5. CASE worker'[w] # Idle
    <2>1. /\ ~Reply(w) /\ ~Fail(w) /\ ~Crash(w)
          /\ acked' = acked
      BY <1>5 DEF Accept, ReadPrevious, Begin, Flush, Reply, Fail, Crash, history, Shaped
    <2>2. /\ worker'[w] = [pc |-> worker'[w].pc, req |-> worker'[w].req, row |-> worker'[w].row,
                           prev |-> worker'[w].prev, visible |-> worker'[w].visible]
          /\ \/ worker'[w].req \in net
             \/ Handling(w) /\ worker'[w].req = worker[w].req
      BY <2>1 DEF Accept, ReadPrevious, Begin, Flush, Shaped, Handling
    <2>3. worker'[w].pc \in {"flush", "reply"} =>
            worker[w].pc = "flush" /\ worker'[w].req = worker[w].req
      BY <2>1 DEF Accept, ReadPrevious, Begin, Flush, Shaped, Handling
    <2>4. worker'[w].pc = "txn" => \/ worker'[w].req.content.containers = <<>>
                                   \/ worker'[w].visible = containers
      <3>1. CASE Begin(w)
        <4>1. /\ worker[w].pc = "begin"
              /\ worker' = [worker EXCEPT
                    ![w].pc = "txn",
                    ![w].visible = IF worker[w].req.content.containers = <<>> THEN {}
                                   ELSE containers]
          BY <3>1 DEF Begin
        <4>2. worker'[w] = [worker[w] EXCEPT !.pc = "txn",
                    !.visible = IF worker[w].req.content.containers = <<>> THEN {}
                                ELSE containers]
          BY <4>1 DEF Shaped
        <4>3. /\ worker'[w].req = worker[w].req
              /\ worker'[w].visible = IF worker[w].req.content.containers = <<>> THEN {}
                                      ELSE containers
          BY <4>1, <4>2 DEF Shaped, Handling
        <4> QED BY <4>3
      <3>2. CASE ~Begin(w)
        BY <2>1, <3>2 DEF Accept, ReadPrevious, Flush, Shaped, Handling
      <3> QED BY <3>1, <3>2
    <2>5. Shaped'
      BY <1>1, <1>2, <1>3, <2>2 DEF Shaped, Waiting, Handling, AgentIdle
    <2>6. UnderWay'
      BY <1>1, <1>2, <1>3, <2>2 DEF UnderWay, Waiting, Handling, Dated, AgentIdle
    <2>7. Acknowledged'
      BY <1>1, <1>2, <2>1, <2>3 DEF Acknowledged, AckedHasItsRow
    <2>8. ~Overlap => Newest' /\ Unmixed'
      BY <1>1, <1>2, <2>3, <2>4 DEF Newest, Unmixed, ContainersFromOnePayload
    <2> QED BY <2>5, <2>6, <2>7, <2>8
  <1> QED BY <1>4, <1>5

\* The commit, which writes every table of the payload.
LEMMA CommitStep ==
    ASSUME IInv, NEW w \in Workers, Commit(w)
    PROVE  IInv'
  <1> USE DEF IInv
  <1> DEFINE ts == worker[w].req.ts
  <1>1. /\ UNCHANGED <<minute, agent, net, acked, erased>>
        /\ worker[w].pc = "txn"
        /\ snapshots' = snapshots \cup {ts}
        /\ latest' = [ts |-> ts, ctr |-> worker[w].req.ctr]
        /\ containers' = StoreContainers(worker[w])
        /\ worker' = [worker EXCEPT ![w].pc = "flush"]
    BY DEF Commit, machine
  <1>2. /\ worker'[w] = [worker[w] EXCEPT !.pc = "flush"]
        /\ \A v \in Workers : v # w => worker'[v] = worker[v]
    BY <1>1 DEF Shaped
  <1>3. /\ worker'[w].pc = "flush" /\ worker'[w].req = worker[w].req
        /\ worker'[w] = [pc |-> "flush", req |-> worker[w].req, row |-> worker[w].row,
                         prev |-> worker[w].prev, visible |-> worker[w].visible]
    BY <1>1, <1>2 DEF Shaped, Handling
  <1>4. Dated(ts) /\ minute \in Nat
    BY <1>1 DEF UnderWay, Handling, Shaped
  <1>5. Shaped'
    BY <1>1, <1>2, <1>3 DEF Shaped, Waiting, Handling
  <1>6. UnderWay'
    BY <1>1, <1>2, <1>3, <1>4 DEF UnderWay, Waiting, Handling, Dated
  <1>7. Acknowledged'
    BY <1>1, <1>2, <1>3 DEF Acknowledged, AckedHasItsRow
  <1>8. ASSUME ~Overlap PROVE Newest'
    BY <1>1, <1>4, <1>8 DEF Newest, Dated
  <1>9. ASSUME ~Overlap PROVE Unmixed'
    <2>1. ts = minute /\ \A v \in Workers : Handling(v) => worker[v].req.ts = minute
      BY <1>4, <1>9 DEF UnderWay, Dated
    <2>2. \A k \in containers' : k \in containers \/ k.ts = minute
      BY <1>1, <2>1 DEF StoreContainers
    <2>3. ContainersFromOnePayload'
      <3>1. CASE worker[w].req.content.containers = <<>>
        <4>1. ToSet(worker[w].req.content.containers) = {}
          BY <3>1 DEF ToSet
        <4>2. containers' \subseteq containers
          BY <1>1, <4>1 DEF StoreContainers
        <4> QED BY <4>2, <1>9 DEF Unmixed, ContainersFromOnePayload
      <3>2. CASE worker[w].req.content.containers # <<>>
        <4>1. \A k \in containers' : k.ts = minute
          BY <1>1, <1>9, <2>1, <3>2 DEF StoreContainers, Unmixed
        <4> QED BY <4>1 DEF ContainersFromOnePayload
      <3> QED BY <3>1, <3>2
    <2>4. ASSUME NEW v \in Workers, worker'[v].pc = "txn",
                 worker'[v].req.content.containers # <<>>,
                 NEW k \in containers' \ worker'[v].visible
          PROVE  k.ts = worker'[v].req.ts
      <3>1. v # w /\ worker'[v] = worker[v]
        BY <1>2, <1>3, <2>4
      <3>2. worker[v].req.ts = minute
        BY <2>1, <2>4, <3>1 DEF Handling
      <3> QED BY <1>9, <2>2, <2>4, <3>1, <3>2 DEF Unmixed
    <2> QED BY <2>3, <2>4 DEF Unmixed
  <1> QED BY <1>5, <1>6, <1>7, <1>8, <1>9

\* A statement of rig_delete: whatever has been built is erased.
LEMMA EraseStep ==
    ASSUME IInv, DeleteStep
    PROVE  IInv'
  <1> USE DEF IInv
  <1>1. /\ UNCHANGED <<minute, agent, net, worker, acked>> /\ erased' = minute
    BY DEF DeleteStep, machine
  <1>2. Shaped' /\ UnderWay'
    BY <1>1 DEF Shaped, UnderWay, Waiting, Handling, Dated
  <1>3. Acknowledged'
    BY <1>1 DEF Acknowledged, AckedHasItsRow, UnderWay, Handling, Dated, Shaped
  <1>4. /\ snapshots' = snapshots \/ snapshots' = {}
        /\ latest' = latest \/ latest' = NoLatest
        /\ containers' = containers \/ containers' = {}
    BY DEF DeleteStep, DeleteSnapshots, DeleteLatest, DeleteDisk, DeleteContainers, DeleteRig
  <1>5. ~Overlap => Newest' /\ Unmixed'
    BY <1>1, <1>4 DEF Newest, Unmixed, ContainersFromOnePayload
  <1> QED BY <1>2, <1>3, <1>5

LEMMA StutterStep == ASSUME IInv, UNCHANGED vars PROVE IInv'
  BY DEF vars, IInv, Shaped, UnderWay, Acknowledged, AckedHasItsRow, Newest, Unmixed,
         ContainersFromOnePayload, Waiting, Handling, Dated

\* The invariant holds throughout.
THEOREM Invariance == Spec => []IInv
  <1>1. IInv /\ [Next]_vars => IInv'
    BY MoveStep, CollectStep, WorkStep, CommitStep, EraseStep, StutterStep
       DEF Next, AgentStep, WorkerStep
  <1> QED BY InitIInv, <1>1, PTL DEF Spec

-----------------------------------------------------------------------------
\* What was acknowledged has its row until the rig is deleted, with and without
\* Overlap.
THEOREM AcknowledgedStays == Spec => []AckedHasItsRow
  <1>1. IInv => AckedHasItsRow
    BY DEF IInv, Acknowledged
  <1> QED BY Invariance, <1>1, PTL

\* Without Overlap the LatestSnapshot is that of the newest MetricSnapshot.
THEOREM LatestShown == Spec => [](~Overlap => LatestIsNewest)
  <1>1. IInv => (~Overlap => LatestIsNewest)
    <2> SUFFICES ASSUME IInv, ~Overlap, latest # NoLatest, snapshots # {}
                 PROVE  latest.ts = Max(snapshots)
      BY DEF LatestIsNewest
    <2>1. /\ snapshots \in SUBSET Nat /\ latest.ts \in snapshots
          /\ \A t \in snapshots : t <= latest.ts
      BY DEF IInv, Newest, Shaped
    <2> QED BY <2>1, MaxIs
  <1> QED BY Invariance, <1>1, PTL

\* Without Overlap the container rows are never a mixture of two payloads.
THEOREM ContainersTogether == Spec => [](~Overlap => ContainersFromOnePayload)
  <1>1. IInv => (~Overlap => ContainersFromOnePayload)
    BY DEF IInv, Unmixed
  <1> QED BY Invariance, <1>1, PTL

-----------------------------------------------------------------------------
(***************************************************************************)
(* Sums over sets of rows.                                                 *)
(***************************************************************************)

\* Induction over the natural numbers, for a set of them.
LEMMA Induction ==
    ASSUME NEW T \in SUBSET Nat, 0 \in T, \A n \in T : n + 1 \in T
    PROVE  T = Nat
  <1> SUFFICES ASSUME NEW n \in Nat PROVE n \in T
    OBVIOUS
  <1> DEFINE U == {k \in 1 .. n : 0 .. k \subseteq T}
             c == Cardinality(U)
  <1>1. IsFiniteSet(1 .. n) /\ U \in SUBSET (1 .. n)
    BY FS_Interval
  <1>2. IsFiniteSet(U) /\ c \in Nat
    BY <1>1, FS_Subset, FS_CardinalityType
  <1>3. ASSUME NEW i \in U PROVE i <= c
    <2>1. i \in Nat /\ 1 .. i \in SUBSET U
      BY <1>3
    <2>2. Cardinality(1 .. i) = i
      BY <2>1, FS_Interval
    <2>3. Cardinality(1 .. i) <= c
      BY <1>2, <2>1, FS_Subset
    <2> QED BY <2>2, <2>3
  <1>4. U = 1 .. c
    <2>1. U \in SUBSET (1 .. c)
      BY <1>2, <1>3
    <2>2. IsFiniteSet(1 .. c) /\ Cardinality(1 .. c) = c
      BY <1>2, FS_Interval
    <2> QED BY <2>1, <2>2, FS_Subset
  <1>5. \A k \in U : k \in 1 .. n /\ 0 .. k \subseteq T
    OBVIOUS
  <1>6. \A k \in 1 .. n : 0 .. k \subseteq T => k \in U
    OBVIOUS
  <1> HIDE DEF U, c
  <1>7. 0 .. c \subseteq T
    <2>1. CASE c = 0
      BY <2>1
    <2>2. CASE c # 0
      <3>1. c \in U
        BY <1>2, <1>4, <2>2
      <3> QED BY <3>1, <1>5
    <2> QED BY <2>1, <2>2
  <1>8. \A k \in 0 .. c + 1 : k \in T
    <2>1. c \in T /\ c + 1 \in T
      BY <1>2, <1>7
    <2> QED BY <1>2, <1>7, <2>1
  <1>9. c + 1 \notin U
    BY <1>2, <1>4
  <1>10. n <= c
    BY <1>2, <1>6, <1>8, <1>9
  <1> QED BY <1>2, <1>7, <1>10

\* g folds the subsets of S: it takes the element ch[s] of s, then the others.
FoldsTo(g, S, base, op, ch) ==
    \A s \in SUBSET S : g[s] = IF s = {} THEN base ELSE op[ch[s]][g[s \ {ch[s]}]]

\* A function that takes one element after the other from a finite set is what
\* its recursive definition says (MapThenFoldSet).
LEMMA FoldExists ==
    ASSUME NEW S, IsFiniteSet(S), NEW base, NEW op, NEW ch,
           \A s \in SUBSET S : s # {} => ch[s] \in s
    PROVE  \E g : FoldsTo(g, S, base, op, ch)
  <1> DEFINE Upto(k) == {s \in SUBSET S : Cardinality(s) <= k}
             Value(g, s) == IF s = {} THEN base ELSE op[ch[s]][g[s \ {ch[s]}]]
             T == {k \in Nat : \E g : g = [s \in Upto(k) |-> Value(g, s)]}
  <1>1. \A s \in SUBSET S : /\ IsFiniteSet(s) /\ Cardinality(s) \in Nat
                            /\ Cardinality(s) <= Cardinality(S)
    BY FS_Subset, FS_CardinalityType
  <1>2. ASSUME NEW s \in SUBSET S, s # {} 
        PROVE  s \ {ch[s]} \in SUBSET S /\ Cardinality(s \ {ch[s]}) = Cardinality(s) - 1
    <2>1. ch[s] \in s /\ IsFiniteSet(s)
      BY <1>1, <1>2
    <2> QED BY <2>1, FS_RemoveElement
  <1>3. 0 \in T
    <2>1. \A s \in Upto(0) : s = {}
      <3> SUFFICES ASSUME NEW s \in Upto(0) PROVE s = {}
        OBVIOUS
      <3>1. Cardinality(s) = 0 /\ IsFiniteSet(s)
        BY <1>1
      <3> QED BY <3>1, FS_EmptySet
    <2> DEFINE g0 == [s \in Upto(0) |-> base]
    <2>2. g0 = [s \in Upto(0) |-> Value(g0, s)]
      BY <2>1
    <2> QED BY <2>2
  <1>4. ASSUME NEW k \in T PROVE k + 1 \in T
    <2>1. PICK g : g = [s \in Upto(k) |-> Value(g, s)]
      BY <1>4
    <2> DEFINE h == [s \in Upto(k + 1) |-> Value(g, s)]
    <2>2. ASSUME NEW s \in Upto(k + 1) PROVE Value(g, s) = Value(h, s)
      <3>1. CASE s = {}
        BY SMTT(30), <3>1
      <3>2. CASE s # {}
        <4> DEFINE t == s \ {ch[s]}
        <4>1. t \in Upto(k) /\ t \in Upto(k + 1)
          BY <1>1, <1>2, <3>2, <1>4
        <4>2. g[t] = Value(g, t) /\ h[t] = Value(g, t)
          <5> HIDE DEF Value, Upto, t
          <5> QED BY <2>1, <4>1
        <4> QED BY <4>2
      <3> QED BY <3>1, <3>2
    <2>3. h = [s \in Upto(k + 1) |-> Value(h, s)]
      <3> HIDE DEF Value, Upto
      <3> QED BY <2>2
    <2>4. k + 1 \in Nat
      BY <1>4
    <2> QED BY <2>3, <2>4
  <1>5. T = Nat
    <2> HIDE DEF T
    <2>1. T \in SUBSET Nat
      BY DEF T
    <2> QED BY <1>3, <1>4, <2>1, Induction
  <1>6. Cardinality(S) \in T
    BY <1>5, FS_CardinalityType
  <1>7. Upto(Cardinality(S)) = SUBSET S
    BY <1>1
  <1>8. PICK g : g = [s \in SUBSET S |-> Value(g, s)]
    <2> HIDE DEF Value, Upto
    <2> QED BY <1>6, <1>7
  <1>9. \A s \in SUBSET S : g[s] = Value(g, s)
    <2> HIDE DEF Value
    <2> QED BY <1>8
  <1> QED BY <1>9 DEF FoldsTo

-----------------------------------------------------------------------------
\* What a row adds to what is reported.
Amount(delta) == IF delta = NoValue THEN 0 ELSE delta
Weight(d) == Amount(d.delta)
Sum(S) == MapThenSumSet(Weight, S)

\* The sums of the subsets of S, and the element that is taken first.
Taken(s) == CHOOSE x \in s : TRUE
Sums(S) == CHOOSE g : g = [s \in SUBSET S |->
                             IF s = {} THEN 0 ELSE Weight(Taken(s)) + g[s \ {Taken(s)}]]

WeighedSet(S) == IsFiniteSet(S) /\ \A d \in S : Weight(d) \in Nat

\* What is left when one element is taken out of a subset.
LEMMA Smaller ==
    ASSUME NEW S, IsFiniteSet(S), NEW s \in SUBSET S, NEW x \in s
    PROVE  /\ Cardinality(s) \in Nat \ {0} /\ s \ {x} \in SUBSET S
           /\ Cardinality(s \ {x}) = Cardinality(s) - 1
  <1>1. IsFiniteSet(s)
    BY FS_Subset
  <1>2. Cardinality(s) \in Nat /\ Cardinality(s) # 0
    BY <1>1, FS_CardinalityType, FS_EmptySet
  <1>3. Cardinality(s \ {x}) = Cardinality(s) - 1
    BY <1>1, FS_RemoveElement
  <1> QED BY <1>2, <1>3

\* A subset without elements is empty.
LEMMA Nothing ==
    ASSUME NEW S, IsFiniteSet(S), NEW s \in SUBSET S, Cardinality(s) <= 0
    PROVE  s = {}
  <1>1. \A x \in s : Cardinality(s) \in Nat \ {0}
    BY Smaller
  <1> QED BY <1>1

\* Sums is what its definition says.
LEMMA SumsAre ==
    ASSUME NEW S, WeighedSet(S)
    PROVE  /\ Sums(S) = [s \in SUBSET S |->
                IF s = {} THEN 0 ELSE Weight(Taken(s)) + Sums(S)[s \ {Taken(s)}]]
           /\ \A s \in SUBSET S : Sums(S)[s] \in Nat
  <1> DEFINE ch == [s \in SUBSET S |-> Taken(s)]
             op == [x \in S |-> [v \in Nat |-> Weight(x) + v]]
             Is(g) == g = [s \in SUBSET S |->
                             IF s = {} THEN 0 ELSE Weight(Taken(s)) + g[s \ {Taken(s)}]]
             T(g) == {k \in Nat : \A s \in SUBSET S : Cardinality(s) <= k => g[s] \in Nat}
  <1>1. \A s \in SUBSET S : s # {} => ch[s] \in s /\ Taken(s) \in s /\ ch[s] = Taken(s)
    BY DEF Taken
  <1>2. PICK g0 : FoldsTo(g0, S, 0, op, ch)
    <2>1. \A s \in SUBSET S : s # {} => ch[s] \in s
      BY <1>1
    <2>2. IsFiniteSet(S)
      BY DEF WeighedSet
    <2> HIDE DEF ch, op
    <2> QED BY <2>1, <2>2, FoldExists
  <1> DEFINE g == [s \in SUBSET S |-> g0[s]]
  <1>20. \A s \in SUBSET S : g[s] = IF s = {} THEN 0 ELSE op[ch[s]][g[s \ {ch[s]}]]
    <2> HIDE DEF ch, op
    <2>1. \A s \in SUBSET S : s \ {ch[s]} \in SUBSET S
      OBVIOUS
    <2> QED BY <1>2, <2>1 DEF FoldsTo
  <1>21. g = [s \in SUBSET S |-> g[s]]
    OBVIOUS
  <1> HIDE DEF g
  <1>3. ASSUME NEW s \in SUBSET S, s # {}, g[s \ {Taken(s)}] \in Nat
        PROVE  g[s] = Weight(Taken(s)) + g[s \ {Taken(s)}] /\ g[s] \in Nat
    <2>1. Taken(s) \in S /\ ch[s] = Taken(s) /\ Weight(Taken(s)) \in Nat
      BY <1>1, <1>3 DEF WeighedSet
    <2>2. g[s] = op[ch[s]][g[s \ {ch[s]}]]
      <3> HIDE DEF ch, op
      <3> QED BY <1>20, <1>3
    <2>3. op[Taken(s)][g[s \ {Taken(s)}]] = Weight(Taken(s)) + g[s \ {Taken(s)}]
      BY <1>3, <2>1
    <2> QED BY <1>3, <2>1, <2>2, <2>3
  <1>4. g[{}] = 0
    <2> HIDE DEF ch, op
    <2> QED BY <1>20
  <1> HIDE DEF ch, op
  <1>5. \A s \in SUBSET S : g[s] \in Nat
    <2>1. 0 \in T(g)
      <3>1. \A s \in SUBSET S : Cardinality(s) <= 0 => s = {}
        BY Nothing DEF WeighedSet
      <3> QED BY <3>1, <1>4
    <2>2. ASSUME NEW k \in T(g) PROVE k + 1 \in T(g)
      <3> SUFFICES ASSUME NEW s \in SUBSET S, Cardinality(s) <= k + 1, s # {}
                   PROVE  g[s] \in Nat
        <4>1. g[{}] \in Nat /\ k + 1 \in Nat
          BY <1>4, <2>2
        <4> QED BY <4>1
      <3>1. Taken(s) \in s
        BY <1>1
      <3>2. /\ s \ {Taken(s)} \in SUBSET S /\ Cardinality(s \ {Taken(s)}) <= k
        BY <3>1, Smaller DEF WeighedSet
      <3> QED BY <3>2, <1>3, <2>2
    <2>3. T(g) = Nat
      <3>1. T(g) \in SUBSET Nat
        OBVIOUS
      <3> HIDE DEF T
      <3> QED BY <2>1, <2>2, <3>1, Induction
    <2> SUFFICES ASSUME NEW s \in SUBSET S PROVE g[s] \in Nat
      OBVIOUS
    <2>4. Cardinality(s) \in Nat
      BY FS_Subset, FS_CardinalityType DEF WeighedSet
    <2>5. Cardinality(s) \in T(g)
      <3> HIDE DEF T
      <3> QED BY <2>3, <2>4
    <2> QED BY <2>4, <2>5
  <1>6. Is(g)
    <2>1. \A s \in SUBSET S : g[s] = IF s = {} THEN 0 ELSE Weight(Taken(s)) + g[s \ {Taken(s)}]
      <3> SUFFICES ASSUME NEW s \in SUBSET S, s # {}
                   PROVE  g[s] = Weight(Taken(s)) + g[s \ {Taken(s)}]
        BY <1>4
      <3>1. s \ {Taken(s)} \in SUBSET S
        OBVIOUS
      <3> QED BY <3>1, <1>3, <1>5
    <2> QED BY <2>1, <1>21
  <1>7. Is(Sums(S))
    <2> HIDE DEF Is
    <2>1. Sums(S) = CHOOSE h : Is(h)
      BY DEF Sums, Is
    <2> QED BY <1>6, <2>1
  <1> DEFINE z == Sums(S)
  <1>8. z = [s \in SUBSET S |-> IF s = {} THEN 0 ELSE Weight(Taken(s)) + z[s \ {Taken(s)}]]
    BY <1>7
  <1> HIDE DEF z
  <1>9. \A s \in SUBSET S : z[s] \in Nat
    <2>0. z[{}] = 0
      BY <1>8
    <2>1. 0 \in T(z)
      <3>1. \A s \in SUBSET S : Cardinality(s) <= 0 => s = {}
        BY Nothing DEF WeighedSet
      <3> QED BY <3>1, <2>0
    <2>2. ASSUME NEW k \in T(z) PROVE k + 1 \in T(z)
      <3> SUFFICES ASSUME NEW s \in SUBSET S, Cardinality(s) <= k + 1, s # {}
                   PROVE  z[s] \in Nat
        <4>1. z[{}] \in Nat /\ k + 1 \in Nat
          BY <2>0, <2>2
        <4> QED BY <4>1
      <3>1. Taken(s) \in s
        BY <1>1
      <3>2. /\ s \ {Taken(s)} \in SUBSET S /\ Cardinality(s \ {Taken(s)}) <= k
        BY <3>1, Smaller DEF WeighedSet
      <3>3. z[s \ {Taken(s)}] \in Nat /\ Weight(Taken(s)) \in Nat
        BY <3>1, <3>2, <2>2 DEF WeighedSet
      <3>4. z[s] = Weight(Taken(s)) + z[s \ {Taken(s)}]
        BY <1>8
      <3> QED BY <3>3, <3>4
    <2>3. T(z) = Nat
      <3>1. T(z) \in SUBSET Nat
        OBVIOUS
      <3> HIDE DEF T
      <3> QED BY <2>1, <2>2, <3>1, Induction
    <2> SUFFICES ASSUME NEW s \in SUBSET S PROVE z[s] \in Nat
      OBVIOUS
    <2>4. Cardinality(s) \in Nat
      BY FS_Subset, FS_CardinalityType DEF WeighedSet
    <2>5. Cardinality(s) \in T(z)
      <3> HIDE DEF T
      <3> QED BY <2>3, <2>4
    <2> QED BY <2>4, <2>5
  <1> QED BY <1>8, <1>9 DEF z

\* Any element may be taken first.
LEMMA SumsRemove ==
    ASSUME NEW S, WeighedSet(S)
    PROVE  \A s \in SUBSET S : \A x \in s : Sums(S)[s] = Weight(x) + Sums(S)[s \ {x}]
  <1> DEFINE z == Sums(S)
             T == {k \in Nat : \A s \in SUBSET S : Cardinality(s) <= k =>
                                 \A x \in s : z[s] = Weight(x) + z[s \ {x}]}
  <1>1. /\ z = [s \in SUBSET S |->
                  IF s = {} THEN 0 ELSE Weight(Taken(s)) + z[s \ {Taken(s)}]]
        /\ \A s \in SUBSET S : z[s] \in Nat
    BY SumsAre
  <1> HIDE DEF z
  <1>2. 0 \in T
    <2>1. \A s \in SUBSET S : Cardinality(s) <= 0 => s = {}
      BY Nothing DEF WeighedSet
    <2> QED BY <2>1
  <1>3. ASSUME NEW k \in T PROVE k + 1 \in T
    <2> SUFFICES ASSUME NEW s \in SUBSET S, Cardinality(s) <= k + 1, NEW x \in s
                 PROVE  z[s] = Weight(x) + z[s \ {x}]
      OBVIOUS
    <2> DEFINE y == Taken(s)
    <2>1. y \in s
      BY DEF Taken
    <2>2. z[s] = Weight(y) + z[s \ {y}]
      BY <1>1
    <2> HIDE DEF y
    <2>3. CASE x = y
      BY <2>2, <2>3
    <2>4. CASE x # y
      <3> DEFINE sy == s \ {y}
                 sx == s \ {x}
                 sxy == (s \ {x}) \ {y}
      <3>1. sy \in SUBSET S /\ Cardinality(sy) <= k /\ x \in sy
        BY <2>1, <2>4, Smaller DEF WeighedSet
      <3>2. sx \in SUBSET S /\ Cardinality(sx) <= k /\ y \in sx
        BY <2>1, <2>4, Smaller DEF WeighedSet
      <3>3. z[sy] = Weight(x) + z[sy \ {x}]
        <4> HIDE DEF sy
        <4> QED BY <3>1, <1>3
      <3>4. z[sx] = Weight(y) + z[sx \ {y}]
        <4> HIDE DEF sx
        <4> QED BY <3>2, <1>3
      <3>5. sy \ {x} = sxy /\ sx \ {y} = sxy /\ sxy \in SUBSET S
        OBVIOUS
      <3>6. z[sxy] \in Nat /\ Weight(x) \in Nat /\ Weight(y) \in Nat
        BY <1>1, <2>1, <3>5 DEF WeighedSet
      <3> HIDE DEF sx, sy, sxy
      <3>7. z[s] = Weight(y) + z[sy]
        BY <2>2 DEF sy
      <3>8. z[s] = Weight(x) + z[sx]
        <4>1. z[sy] = Weight(x) + z[sxy] /\ z[sx] = Weight(y) + z[sxy]
          BY <3>3, <3>4, <3>5
        <4> QED BY <3>6, <3>7, <4>1
      <3> QED BY <3>8 DEF sx
    <2> QED BY <2>3, <2>4
  <1>4. T = Nat
    <2>1. T \in SUBSET Nat
      OBVIOUS
    <2> HIDE DEF T
    <2> QED BY <1>2, <1>3, <2>1, Induction
  <1> SUFFICES ASSUME NEW s \in SUBSET S PROVE \A x \in s : z[s] = Weight(x) + z[s \ {x}]
    BY DEF z
  <1>5. Cardinality(s) \in Nat
    BY FS_Subset, FS_CardinalityType DEF WeighedSet
  <1>6. Cardinality(s) \in T
    <2> HIDE DEF T
    <2> QED BY <1>4, <1>5
  <1> QED BY <1>5, <1>6

\* The sum of a set does not depend on the set it is part of.
LEMMA SumsAgree ==
    ASSUME NEW S, WeighedSet(S), NEW R \in SUBSET S
    PROVE  Sums(R)[R] = Sums(S)[R]
  <1> DEFINE z == Sums(S)
             y == Sums(R)
             T == {k \in Nat : \A s \in SUBSET R : Cardinality(s) <= k => y[s] = z[s]}
  <1>0. WeighedSet(R)
    BY FS_Subset DEF WeighedSet
  <1>1. /\ z = [s \in SUBSET S |->
                  IF s = {} THEN 0 ELSE Weight(Taken(s)) + z[s \ {Taken(s)}]]
        /\ y = [s \in SUBSET R |->
                  IF s = {} THEN 0 ELSE Weight(Taken(s)) + y[s \ {Taken(s)}]]
    BY <1>0, SumsAre
  <1> HIDE DEF z, y
  <1>2. 0 \in T
    <2>1. \A s \in SUBSET R : Cardinality(s) <= 0 => s = {}
      BY <1>0, Nothing DEF WeighedSet
    <2> QED BY <2>1, <1>1
  <1>3. ASSUME NEW k \in T PROVE k + 1 \in T
    <2> SUFFICES ASSUME NEW s \in SUBSET R, Cardinality(s) <= k + 1, s # {}
                 PROVE  y[s] = z[s]
      <3>1. y[{}] = 0 /\ z[{}] = 0 /\ k + 1 \in Nat
        BY <1>1, <1>3
      <3> QED BY <3>1
    <2> DEFINE r == s \ {Taken(s)}
    <2>1. Taken(s) \in s
      BY DEF Taken
    <2>2. r \in SUBSET R /\ Cardinality(r) <= k
      BY <1>0, <2>1, Smaller DEF WeighedSet
    <2>3. y[r] = z[r]
      <3> HIDE DEF r
      <3> QED BY <2>2, <1>3
    <2>4. y[s] = Weight(Taken(s)) + y[r] /\ z[s] = Weight(Taken(s)) + z[r]
      BY <1>1
    <2> QED BY <2>3, <2>4
  <1>4. T = Nat
    <2>1. T \in SUBSET Nat
      OBVIOUS
    <2> HIDE DEF T
    <2> QED BY <1>2, <1>3, <2>1, Induction
  <1>5. Cardinality(R) \in Nat
    BY <1>0, FS_CardinalityType DEF WeighedSet
  <1>6. Cardinality(R) \in T
    <2> HIDE DEF T
    <2> QED BY <1>4, <1>5
  <1> QED BY <1>5, <1>6 DEF y, z

\* What is reported is a sum of natural numbers, to which each row adds its own.
LEMMA SumFacts ==
    ASSUME NEW S, WeighedSet(S)
    PROVE  /\ Sum(S) \in Nat /\ Sum({}) = 0
           /\ \A x \in S : Sum(S) = Weight(x) + Sum(S \ {x})
  <1>1. \A R : Sum(R) = Sums(R)[R]
    BY DEF Sum, MapThenSumSet, MapThenFoldSet, Sums, Taken
  <1>2. Sum(S) \in Nat
    BY <1>1, SumsAre
  <1>3. Sum({}) = 0
    <2>1. WeighedSet({})
      BY FS_EmptySet DEF WeighedSet
    <2>2. Sums({}) = [s \in SUBSET {} |->
                IF s = {} THEN 0 ELSE Weight(Taken(s)) + Sums({})[s \ {Taken(s)}]]
      BY <2>1, SumsAre
    <2> QED BY <1>1, <2>2
  <1>4. ASSUME NEW x \in S PROVE Sum(S) = Weight(x) + Sum(S \ {x})
    <2>1. Sums(S)[S] = Weight(x) + Sums(S)[S \ {x}]
      BY SumsRemove
    <2>2. Sums(S \ {x})[S \ {x}] = Sums(S)[S \ {x}]
      BY SumsAgree
    <2> QED BY <1>1, <2>1, <2>2
  <1> QED BY <1>2, <1>3, <1>4

\* Reported is the sum over the rows.
LEMMA ReportedIsSum == Reported = Sum(disk)
  BY DEF Reported, Sum, Weight, Amount

-----------------------------------------------------------------------------
(***************************************************************************)
(* Rolling histories.                                                      *)
(***************************************************************************)

\* Adding one entry to a log (a turn of the loops of process_ingest).
Added(l, e) == IF Contains(l.seen, e) THEN l
               ELSE [history |-> Append(l.history, e), seen |-> Append(l.seen, e)]
LogOf(X) == [history : Seq(X), seen : Seq(X)]

\* A set of numbers up to n that is not empty has a largest one.
LEMMA MaxIn ==
    ASSUME NEW n \in Nat, NEW s \in SUBSET (1 .. n), s # {}
    PROVE  Max(s) \in s /\ \A x \in s : x <= Max(s)
  <1> DEFINE T == {k \in Nat : \A r \in SUBSET (1 .. k) :
                                 r # {} => \E m \in r : \A x \in r : m >= x}
  <1>1. 0 \in T
    <2>1. \A r \in SUBSET (1 .. 0) : r = {}
      OBVIOUS
    <2> QED BY <2>1
  <1>2. ASSUME NEW k \in T PROVE k + 1 \in T
    <2> SUFFICES ASSUME NEW r \in SUBSET (1 .. k + 1), r # {}
                 PROVE  \E m \in r : \A x \in r : m >= x
      BY <1>2
    <2>1. CASE k + 1 \in r
      BY <2>1, <1>2
    <2>2. CASE k + 1 \notin r
      <3>1. r \in SUBSET (1 .. k)
        BY <2>2, <1>2
      <3> QED BY <3>1, <1>2
    <2> QED BY <2>1, <2>2
  <1>3. T = Nat
    <2>1. T \in SUBSET Nat
      OBVIOUS
    <2> HIDE DEF T
    <2> QED BY <1>1, <1>2, <2>1, Induction
  <1>4. n \in T
    <2> HIDE DEF T
    <2> QED BY <1>3
  <1>5. PICK m \in s : \A x \in s : m >= x
    BY <1>4
  <1>6. Max(s) \in s /\ \A x \in s : Max(s) >= x
    BY <1>5 DEF Max
  <1>7. \A x \in s : x \in Nat
    OBVIOUS
  <1> QED BY <1>6, <1>7

\* An entry is added to a log.
LEMMA AddedType ==
    ASSUME NEW X, NEW l \in LogOf(X), NEW e \in X
    PROVE  Added(l, e) \in LogOf(X)
  BY AppendProperties DEF Added, LogOf

\* The log before it is cut, as in Appended.
Folded(log, q) == FoldLeft(Added, log, q)

\* The fold goes through the entries in their order.
LEMMA FoldSteps ==
    ASSUME NEW X, NEW q \in Seq(X), NEW log \in LogOf(X)
    PROVE  \E f : /\ f[0] = log /\ Folded(log, q) = f[Len(q)]
                  /\ \A k \in 1 .. Len(q) : f[k] = Added(f[k - 1], q[k])
  <1> DEFINE n == Len(q)
             S == 1 .. n
             ch == [s \in SUBSET S |-> Max(s)]
             op == [x \in S |-> [v \in LogOf(X) |-> Added(v, q[x])]]
             Is(g) == g = [s \in SUBSET S |->
                             IF s = {} THEN log ELSE Added(g[s \ {Max(s)}], q[Max(s)])]
             T(g) == {k \in Nat : \A s \in SUBSET S : Cardinality(s) <= k => g[s] \in LogOf(X)}
  <1>1. n \in Nat /\ \A i \in S : q[i] \in X
    BY LenProperties, ElementOfSeq
  <1>2. IsFiniteSet(S) /\ DOMAIN q = S
    BY <1>1, FS_Interval, LenProperties
  <1> HIDE DEF n
  <1>3. \A s \in SUBSET S : s # {} => Max(s) \in s /\ ch[s] = Max(s)
    BY <1>1, MaxIn
  <1>4. PICK g0 : FoldsTo(g0, S, log, op, ch)
    <2>1. \A s \in SUBSET S : s # {} => ch[s] \in s
      BY <1>3
    <2> HIDE DEF ch, op, S
    <2> QED BY <1>2, <2>1, FoldExists
  <1> DEFINE g == [s \in SUBSET S |-> g0[s]]
  <1>5. \A s \in SUBSET S : g[s] = IF s = {} THEN log ELSE op[ch[s]][g[s \ {ch[s]}]]
    <2> HIDE DEF ch, op, S
    <2>1. \A s \in SUBSET S : s \ {ch[s]} \in SUBSET S
      OBVIOUS
    <2> QED BY <1>4, <2>1 DEF FoldsTo
  <1>6. g = [s \in SUBSET S |-> g[s]]
    OBVIOUS
  <1> HIDE DEF g
  <1>7. ASSUME NEW s \in SUBSET S, s # {}, g[s \ {Max(s)}] \in LogOf(X)
        PROVE  g[s] = Added(g[s \ {Max(s)}], q[Max(s)]) /\ g[s] \in LogOf(X)
    <2>1. Max(s) \in S /\ ch[s] = Max(s) /\ q[Max(s)] \in X
      BY <1>1, <1>3, <1>7
    <2>2. g[s] = op[ch[s]][g[s \ {ch[s]}]]
      <3> HIDE DEF ch, op
      <3> QED BY <1>5, <1>7
    <2>3. op[Max(s)][g[s \ {Max(s)}]] = Added(g[s \ {Max(s)}], q[Max(s)])
      BY <1>7, <2>1
    <2>4. Added(g[s \ {Max(s)}], q[Max(s)]) \in LogOf(X)
      BY <1>7, <2>1, AddedType
    <2> QED BY <2>1, <2>2, <2>3, <2>4
  <1>8. g[{}] = log
    <2> HIDE DEF ch, op
    <2> QED BY <1>5
  <1> HIDE DEF ch, op
  <1>9. \A s \in SUBSET S : g[s] \in LogOf(X)
    <2>1. 0 \in T(g)
      <3>1. \A s \in SUBSET S : Cardinality(s) <= 0 => s = {}
        BY <1>2, Nothing
      <3> QED BY <3>1, <1>8
    <2>2. ASSUME NEW k \in T(g) PROVE k + 1 \in T(g)
      <3> SUFFICES ASSUME NEW s \in SUBSET S, Cardinality(s) <= k + 1, s # {}
                   PROVE  g[s] \in LogOf(X)
        <4>1. g[{}] \in LogOf(X) /\ k + 1 \in Nat
          BY <1>8, <2>2
        <4> QED BY <4>1
      <3>1. Max(s) \in s
        BY <1>3
      <3>2. /\ s \ {Max(s)} \in SUBSET S /\ Cardinality(s \ {Max(s)}) <= k
        <4> HIDE DEF S
        <4> QED BY <1>2, <3>1, <2>2, Smaller
      <3> QED BY <3>2, <1>7, <2>2
    <2>3. T(g) = Nat
      <3>1. T(g) \in SUBSET Nat
        OBVIOUS
      <3> HIDE DEF T
      <3> QED BY <2>1, <2>2, <3>1, Induction
    <2> SUFFICES ASSUME NEW s \in SUBSET S PROVE g[s] \in LogOf(X)
      OBVIOUS
    <2>4. Cardinality(s) \in Nat
      BY <1>2, FS_Subset, FS_CardinalityType
    <2>5. Cardinality(s) \in T(g)
      <3> HIDE DEF T
      <3> QED BY <2>3, <2>4
    <2> QED BY <2>4, <2>5
  <1>10. Is(g)
    <2>1. \A s \in SUBSET S : g[s] = IF s = {} THEN log ELSE Added(g[s \ {Max(s)}], q[Max(s)])
      <3> SUFFICES ASSUME NEW s \in SUBSET S, s # {}
                   PROVE  g[s] = Added(g[s \ {Max(s)}], q[Max(s)])
        BY <1>8
      <3>1. s \ {Max(s)} \in SUBSET S
        OBVIOUS
      <3> QED BY <3>1, <1>7, <1>9
    <2> QED BY <2>1, <1>6
  <1> DEFINE z == CHOOSE h : h = [s \in SUBSET (DOMAIN q) |->
                     IF s = {} THEN log ELSE Added(h[s \ {Max(s)}], q[Max(s)])]
  <1>11. FoldLeft(Added, log, q) = z[DOMAIN q]
    BY DEF FoldLeft, MapThenFoldSet
  <1>12. Is(z)
    <2>1. z = CHOOSE h : Is(h)
      BY <1>2
    <2> HIDE DEF Is, z
    <2> QED BY <1>10, <2>1
  <1> HIDE DEF z
  <1> DEFINE f == [k \in 0 .. n |-> z[1 .. k]]
  <1>13. f[0] = log
    <2>1. z[{}] = log
      BY <1>12
    <2>2. 1 .. 0 = {} /\ 0 \in 0 .. n
      BY <1>1
    <2> HIDE DEF Is
    <2> QED BY <2>1, <2>2
  <1>14. ASSUME NEW k \in 1 .. n PROVE f[k] = Added(f[k - 1], q[k])
    <2>1. 1 .. k \in SUBSET S /\ 1 .. k # {} /\ k \in 0 .. n /\ k - 1 \in 0 .. n
      BY <1>1, <1>14
    <2>2. Max(1 .. k) = k
      <3>0. k \in Nat /\ k >= 1
        BY <1>1, <1>14
      <3>1. k \in Nat /\ k \in 1 .. k
        BY <3>0
      <3> DEFINE s == 1 .. k
      <3>2. Max(s) \in s /\ \A x \in s : x <= Max(s)
        <4> HIDE DEF s
        <4> SUFFICES s \in SUBSET (1 .. k) /\ s # {}
          BY <3>1, MaxIn
        <4>1. s # {}
          BY <3>1 DEF s
        <4>2. s \in SUBSET (1 .. k)
          BY DEF s
        <4> QED BY <4>1, <4>2
      <3>3. Max(1 .. k) \in 1 .. k /\ k <= Max(1 .. k)
        BY <3>1, <3>2
      <3> QED BY <3>3, <1>1, <1>14
    <2>3. (1 .. k) \ {k} = 1 .. k - 1
      BY <1>1, <1>14
    <2>4. z[1 .. k] = Added(z[(1 .. k) \ {Max(1 .. k)}], q[Max(1 .. k)])
      <3> HIDE DEF S
      <3> QED BY <1>12, <2>1
    <2>5. z[1 .. k] = Added(z[1 .. k - 1], q[k])
      <3> HIDE DEF Is
      <3> QED BY <2>2, <2>3, <2>4
    <2> QED BY <2>1, <2>5
  <1>15. Folded(log, q) = f[n]
    <2>1. n \in 0 .. n
      BY <1>1
    <2> HIDE DEF Is
    <2> QED BY <1>2, <1>11, <2>1 DEF Folded
  <1> HIDE DEF f, Is
  <1> QED BY <1>13, <1>14, <1>15 DEF n

\* The list e is what s ends with.
EndOf(e, s) ==
    /\ Len(e) <= Len(s)
    /\ \A i \in 1 .. Len(e) : e[i] = s[i + Len(s) - Len(e)]

\* Equal entries are further apart than the fingerprints reach.
Apart(h) == \A i, j \in DOMAIN h : i < j /\ h[i] = h[j] => j - i > SeenCap

\* A rolling history as it is stored.
Rolling(log, X) ==
    /\ log \in LogOf(X) /\ log.seen = LastN(SeenCap, log.history)
    /\ Len(log.history) <= HistCap /\ Apart(log.history)

\* A rolling history before it is cut.
Growing(log, X) ==
    /\ log \in LogOf(X) /\ EndOf(log.seen, log.history) /\ Apart(log.history)
    /\ Len(log.seen) >= SeenCap \/ Len(log.seen) = Len(log.history)

\* What a history keeps, or has dropped because it is full.
Listed(h, e) == Contains(h, e) \/ Len(h) = HistCap

\* The last n entries (the slices of process_ingest).
LEMMA LastNFacts ==
    ASSUME NEW X, NEW s \in Seq(X), NEW n \in Nat \ {0}
    PROVE  /\ LastN(n, s) \in Seq(X) /\ EndOf(LastN(n, s), s)
           /\ Len(LastN(n, s)) = IF Len(s) > n THEN n ELSE Len(s)
           /\ Len(s) <= n => LastN(n, s) = s
  <1> DEFINE l == Len(s)
  <1>1. l \in Nat /\ \A i \in 1 .. l : s[i] \in X
    BY LenProperties, ElementOfSeq
  <1>2. CASE l > n
    <2> DEFINE k == l - n
               r == SubSeq(s, k + 1, l)
    <2>1. LastN(n, s) = r
      BY <1>2 DEF LastN
    <2>2. k \in Nat /\ k + 1 \in Int /\ l \in Int /\ l - (k + 1) + 1 = n /\ k + 1 <= l
      BY <1>1, <1>2
    <2> HIDE DEF k, l
    <2>3. \A i \in k + 1 .. l : s[i] \in X
      BY <1>1, <2>2
    <2>4. /\ r \in Seq(X) /\ Len(r) = n
          /\ \A i \in 1 .. n : r[i] = s[(k + 1) + i - 1]
      BY <2>2, <2>3, SubSeqProperties
    <2> HIDE DEF r
    <2>5. \A i \in 1 .. n : (k + 1) + i - 1 = i + l - n
      BY <2>2, <1>1 DEF k
    <2>6. EndOf(r, s)
      BY <1>1, <1>2, <2>4, <2>5 DEF EndOf, l
    <2>7. ~(l <= n)
      BY <1>1, <1>2
    <2> QED BY <1>2, <2>1, <2>4, <2>6, <2>7 DEF l
  <1>3. CASE ~(l > n)
    <2>1. LastN(n, s) = SubSeq(s, 1, Len(s))
      BY <1>3 DEF LastN
    <2>2. LastN(n, s) = s
      BY <2>1, SubSeqFull
    <2>3. EndOf(s, s)
      <3>1. \A i \in 1 .. Len(s) : i + Len(s) - Len(s) = i
        BY <1>1
      <3> QED BY <1>1, <3>1 DEF EndOf
    <2> QED BY <1>3, <2>2, <2>3
  <1> QED BY <1>2, <1>3

\* Where the entries of an end are in the list.
LEMMA ShiftFacts ==
    ASSUME NEW a \in Nat, NEW b \in Nat, b <= a
    PROVE  /\ \A i \in 1 .. b : i + a - b \in 1 .. a
           /\ \A i \in 1 .. a : i <= a - b \/ (i - a + b \in 1 .. b /\ (i - a + b) + a - b = i)
           /\ \A i \in 1 .. b + 1 : i + (a + 1) - (b + 1) = i + a - b
           /\ \A i \in 1 .. b + 1 : i \in 1 .. b \/ (i = b + 1 /\ i + a - b = a + 1)
           /\ \A i \in 1 .. a + 1 : i \in 1 .. a \/ i = a + 1
  OBVIOUS

\* Two ends of a list that are equally long are the same.
LEMMA EndsEqual ==
    ASSUME NEW X, NEW s \in Seq(X), NEW a \in Seq(X), NEW b \in Seq(X),
           EndOf(a, s), EndOf(b, s), Len(a) = Len(b)
    PROVE  a = b
  <1>1. \A i \in 1 .. Len(a) : a[i] = b[i]
    BY DEF EndOf
  <1> QED BY <1>1, SeqEqual

\* An end of a list has the entries that far apart, too.
LEMMA EndApart ==
    ASSUME NEW X, NEW s \in Seq(X), NEW e \in Seq(X), EndOf(e, s), Apart(s)
    PROVE  Apart(e)
  <1>1. /\ Len(s) \in Nat /\ Len(e) \in Nat /\ Len(e) <= Len(s)
        /\ DOMAIN s = 1 .. Len(s) /\ DOMAIN e = 1 .. Len(e)
    BY LenProperties DEF EndOf
  <1> SUFFICES ASSUME NEW i \in 1 .. Len(e), NEW j \in 1 .. Len(e), i < j, e[i] = e[j]
               PROVE  j - i > SeenCap
    BY <1>1 DEF Apart
  <1> DEFINE k == Len(s) - Len(e)
  <1>2. k \in Nat /\ i + k \in 1 .. Len(s) /\ j + k \in 1 .. Len(s)
    BY <1>1
  <1>3. e[i] = s[i + k] /\ e[j] = s[j + k]
    <2>1. i + Len(s) - Len(e) = i + k /\ j + Len(s) - Len(e) = j + k
      BY <1>1
    <2> QED BY <2>1 DEF EndOf
  <1> HIDE DEF k
  <1>4. i \in Nat /\ j \in Nat /\ k \in Nat
    BY <1>2
  <1>5. s[i + k] = s[j + k] /\ i + k < j + k
    <2>1. s[i + k] = s[j + k]
      BY <1>3
    <2>2. i + k < j + k
      BY <1>4
    <2> QED BY <2>1, <2>2
  <1>6. (j + k) - (i + k) > SeenCap
    BY <1>1, <1>2, <1>5 DEF Apart
  <1>7. (j + k) - (i + k) = j - i
    BY <1>4
  <1> QED BY <1>6, <1>7

\* Adding an entry keeps a log in shape, and what it has.
LEMMA AddedFacts ==
    ASSUME NEW X, NEW l, Growing(l, X), NEW e \in X
    PROVE  /\ Growing(Added(l, e), X) /\ Contains(Added(l, e).history, e)
           /\ \A x : Contains(l.history, x) => Contains(Added(l, e).history, x)
           /\ Len(l.history) <= Len(Added(l, e).history)
  <1>1. /\ l.history \in Seq(X) /\ l.seen \in Seq(X)
        /\ Len(l.history) \in Nat /\ Len(l.seen) \in Nat
        /\ Len(l.seen) <= Len(l.history)
    BY LenProperties DEF Growing, LogOf, EndOf
  <1>2. CASE Contains(l.seen, e)
    <2>1. PICK i \in 1 .. Len(l.seen) : l.seen[i] = e
      BY <1>2 DEF Contains
    <2> DEFINE j == i + Len(l.history) - Len(l.seen)
    <2>2. l.history[j] = e
      BY <2>1 DEF Growing, EndOf
    <2>4. j \in 1 .. Len(l.history)
      BY <1>1, <2>1, ShiftFacts
    <2> HIDE DEF j
    <2>5. Contains(l.history, e)
      BY <2>2, <2>4 DEF Contains
    <2> QED BY <1>1, <1>2, <2>5 DEF Added
  <1>3. CASE ~Contains(l.seen, e)
    <2> DEFINE h == Append(l.history, e)
               s == Append(l.seen, e)
    <2>1. Added(l, e) = [history |-> h, seen |-> s]
      BY <1>3 DEF Added
    <2>2. /\ h \in Seq(X) /\ Len(h) = Len(l.history) + 1 /\ h[Len(l.history) + 1] = e
          /\ \A i \in 1 .. Len(l.history) : h[i] = l.history[i]
      BY <1>1, AppendProperties
    <2>3. /\ s \in Seq(X) /\ Len(s) = Len(l.seen) + 1 /\ s[Len(l.seen) + 1] = e
          /\ \A i \in 1 .. Len(l.seen) : s[i] = l.seen[i]
      BY <1>1, AppendProperties
    <2>4. DOMAIN h = 1 .. Len(h) /\ DOMAIN l.history = 1 .. Len(l.history)
      BY <1>1, <2>2, LenProperties
    <2> HIDE DEF h, s
    <2>5. EndOf(s, h)
      <3> SUFFICES ASSUME NEW i \in 1 .. Len(s) PROVE s[i] = h[i + Len(h) - Len(s)]
        <4>1. Len(s) <= Len(h)
          BY <1>1, <2>2, <2>3
        <4> QED BY <4>1 DEF EndOf
      <3> DEFINE j == i + Len(l.history) - Len(l.seen)
      <3>1. i \in 1 .. Len(l.seen) + 1 /\ i + Len(h) - Len(s) = j
        BY <1>1, <2>2, <2>3, ShiftFacts
      <3>2. CASE i = Len(s)
        <4>1. j = Len(l.history) + 1
          <5>1. i = Len(l.seen) + 1 /\ i \notin 1 .. Len(l.seen)
            BY <1>1, <2>3, <3>2
          <5> QED BY <1>1, <3>1, <5>1, ShiftFacts
        <4> QED BY <3>1, <3>2, <4>1, <2>2, <2>3
      <3>3. CASE i # Len(s)
        <4>1. i \in 1 .. Len(l.seen) /\ j \in 1 .. Len(l.history)
          <5>1. i \in 1 .. Len(l.seen)
            BY <1>1, <2>3, <3>1, <3>3, ShiftFacts
          <5> QED BY <1>1, <5>1, ShiftFacts
        <4>2. l.seen[i] = l.history[j]
          BY <4>1 DEF Growing, EndOf
        <4> QED BY <3>1, <4>1, <4>2, <2>2, <2>3
      <3> QED BY <3>2, <3>3
    <2>6. Apart(h)
      <3> SUFFICES ASSUME NEW i \in 1 .. Len(h), NEW j \in 1 .. Len(h), i < j, h[i] = h[j]
                   PROVE  j - i > SeenCap
        BY <2>4 DEF Apart
      <3>1. i \in 1 .. Len(l.history)
        BY <1>1, <2>2
      <3>2. CASE j \in 1 .. Len(l.history)
        BY <2>2, <2>4, <3>1, <3>2 DEF Growing, Apart
      <3>3. CASE j \notin 1 .. Len(l.history)
        <4>1. j = Len(l.history) + 1 /\ l.history[i] = e
          BY <1>1, <2>2, <3>1, <3>3
        <4>2. i <= Len(l.history) - Len(l.seen)
          <5> SUFFICES ASSUME ~(i <= Len(l.history) - Len(l.seen)) PROVE FALSE
            OBVIOUS
          <5> DEFINE k == i - Len(l.history) + Len(l.seen)
          <5>1. k \in 1 .. Len(l.seen) /\ k + Len(l.history) - Len(l.seen) = i
            BY <1>1, <3>1, ShiftFacts
          <5>2. l.seen[k] = l.history[k + Len(l.history) - Len(l.seen)]
            <6> HIDE DEF k
            <6> QED BY <5>1 DEF Growing, EndOf
          <5> HIDE DEF k
          <5>3. l.seen[k] = e
            BY <5>1, <5>2, <4>1
          <5> QED BY <1>3, <5>1, <5>3 DEF Contains
        <4>3. Len(l.seen) >= SeenCap
          BY <1>1, <3>1, <4>2 DEF Growing
        <4> QED BY <1>1, <4>1, <4>2, <4>3, IngestAssumption
      <3> QED BY <3>2, <3>3
    <2>7. Growing([history |-> h, seen |-> s], X)
      <3>1. [history |-> h, seen |-> s] \in LogOf(X)
        BY <2>2, <2>3 DEF LogOf
      <3>2. Len(s) >= SeenCap \/ Len(s) = Len(h)
        BY <1>1, <2>2, <2>3, IngestAssumption DEF Growing
      <3> QED BY <2>5, <2>6, <3>1, <3>2 DEF Growing
    <2>8. Contains(h, e)
      <3>1. Len(l.history) + 1 \in 1 .. Len(h)
        BY <1>1, <2>2
      <3> QED BY <3>1, <2>2 DEF Contains
    <2>9. ASSUME NEW x, Contains(l.history, x) PROVE Contains(h, x)
      <3>1. PICK i \in 1 .. Len(l.history) : l.history[i] = x
        BY <2>9 DEF Contains
      <3>2. i \in 1 .. Len(h) /\ h[i] = x
        BY <1>1, <2>2, <3>1
      <3> QED BY <3>2 DEF Contains
    <2>10. Len(l.history) <= Len(h)
      BY <1>1, <2>2
    <2> QED BY <2>1, <2>7, <2>8, <2>9, <2>10
  <1> QED BY <1>2, <1>3

\* All entries are in the log before it is cut.
LEMMA FoldFacts ==
    ASSUME NEW X, NEW log, Growing(log, X), NEW q \in Seq(X)
    PROVE  LET full == Folded(log, q) IN
           /\ Growing(full, X) /\ Len(log.history) <= Len(full.history)
           /\ \A x : Contains(log.history, x) => Contains(full.history, x)
           /\ \A i \in DOMAIN q : Contains(full.history, q[i])
  <1>1. PICK f : /\ f[0] = log /\ Folded(log, q) = f[Len(q)]
                 /\ \A k \in 1 .. Len(q) : f[k] = Added(f[k - 1], q[k])
    <2>1. log \in LogOf(X)
      BY DEF Growing
    <2> QED BY <2>1, FoldSteps
  <1>2. Len(q) \in Nat /\ DOMAIN q = 1 .. Len(q) /\ \A i \in 1 .. Len(q) : q[i] \in X
    BY LenProperties, ElementOfSeq
  <1>3. Len(log.history) \in Nat
    BY LenProperties DEF Growing, LogOf
  <1> DEFINE Ok(k) == /\ Growing(f[k], X) /\ Len(log.history) <= Len(f[k].history)
                      /\ \A x : Contains(log.history, x) => Contains(f[k].history, x)
                      /\ \A i \in 1 .. k : Contains(f[k].history, q[i])
             T == {k \in Nat : k <= Len(q) => Ok(k)}
  <1>4. 0 \in T
    BY <1>1, <1>3
  <1>5. ASSUME NEW k \in T PROVE k + 1 \in T
    <2> SUFFICES ASSUME k + 1 <= Len(q) PROVE Ok(k + 1)
      BY <1>5
    <2>1. k \in Nat /\ Ok(k) /\ k + 1 \in 1 .. Len(q) /\ q[k + 1] \in X
      BY <1>2, <1>5
    <2>2. f[k + 1] = Added(f[k], q[k + 1])
      <3>1. (k + 1) - 1 = k
        BY <2>1
      <3> QED BY <1>1, <2>1, <3>1
    <2>3. /\ Growing(f[k + 1], X) /\ Contains(f[k + 1].history, q[k + 1])
          /\ \A x : Contains(f[k].history, x) => Contains(f[k + 1].history, x)
          /\ Len(f[k].history) <= Len(f[k + 1].history)
      <3>1. Growing(f[k], X)
        BY <2>1
      <3> DEFINE l == f[k]
                 e == q[k + 1]
      <3>2. Growing(l, X) /\ e \in X
        BY <2>1, <3>1
      <3> HIDE DEF Ok, l, e
      <3>3. /\ Growing(Added(l, e), X) /\ Contains(Added(l, e).history, e)
            /\ \A x : Contains(l.history, x) => Contains(Added(l, e).history, x)
            /\ Len(l.history) <= Len(Added(l, e).history)
        BY <3>2, AddedFacts
      <3> QED BY <2>2, <3>3 DEF l, e
    <2>4. Len(log.history) <= Len(f[k + 1].history)
      <3>1. Len(f[k].history) \in Nat /\ Len(f[k + 1].history) \in Nat
        BY <2>1, <2>3, LenProperties DEF Growing, LogOf
      <3> QED BY <1>3, <2>1, <2>3, <3>1
    <2>5. \A i \in 1 .. k + 1 : Contains(f[k + 1].history, q[i])
      BY <2>1, <2>3
    <2> QED BY <2>1, <2>3, <2>4, <2>5
  <1>6. T = Nat
    <2>1. T \in SUBSET Nat
      OBVIOUS
    <2> HIDE DEF T
    <2> QED BY <1>4, <1>5, <2>1, Induction
  <1>7. Ok(Len(q))
    <2>1. Len(q) \in T
      <3> HIDE DEF T
      <3> QED BY <1>2, <1>6
    <2> HIDE DEF Ok
    <2> QED BY <1>2, <2>1
  <1> QED BY <1>1, <1>2, <1>7

\* Appended keeps a history in shape, and what is in it, unless it is full; and
\* the new entries are in it.
LEMMA AppendedFacts ==
    ASSUME NEW X, NEW log, Rolling(log, X), NEW q \in Seq(X)
    PROVE  /\ Rolling(Appended(log, q), X)
           /\ \A x : Listed(log.history, x) => Listed(Appended(log, q).history, x)
           /\ \A i \in DOMAIN q : Listed(Appended(log, q).history, q[i])
  <1>1. /\ log.history \in Seq(X) /\ log.seen \in Seq(X)
        /\ Len(log.history) \in Nat /\ Len(log.seen) \in Nat
    BY LenProperties DEF Rolling, LogOf
  <1>2. HistCap \in Nat \ {0} /\ SeenCap \in Nat \ {0} /\ SeenCap <= HistCap
    BY IngestAssumption
  <1>3. Growing(log, X)
    <2>1. /\ EndOf(LastN(SeenCap, log.history), log.history)
          /\ Len(LastN(SeenCap, log.history)) =
               IF Len(log.history) > SeenCap THEN SeenCap ELSE Len(log.history)
      BY <1>1, <1>2, LastNFacts
    <2> QED BY <1>1, <1>2, <2>1 DEF Rolling, Growing
  <1> DEFINE full == Folded(log, q)
             h == full.history
             cut == LastN(HistCap, h)
             new == Appended(log, q)
  <1>4. /\ Growing(full, X) /\ Len(log.history) <= Len(h)
        /\ \A x : Contains(log.history, x) => Contains(h, x)
        /\ \A i \in DOMAIN q : Contains(h, q[i])
    BY <1>3, FoldFacts
  <1>5. new = [history |-> cut, seen |-> LastN(SeenCap, full.seen)]
    BY DEF Appended, Added, Folded
  <1> HIDE DEF full, new
  <1>6. h \in Seq(X) /\ full.seen \in Seq(X) /\ Len(h) \in Nat /\ Len(full.seen) \in Nat
    BY <1>4, LenProperties DEF Growing, LogOf
  <1> HIDE DEF h
  <1>7. /\ cut \in Seq(X) /\ EndOf(cut, h)
        /\ Len(cut) = IF Len(h) > HistCap THEN HistCap ELSE Len(h)
        /\ Len(h) <= HistCap => cut = h
    BY <1>2, <1>6, LastNFacts
  <1> HIDE DEF cut
  <1>8. Rolling(new, X)
    <2> DEFINE a == LastN(SeenCap, full.seen)
               b == LastN(SeenCap, cut)
    <2>1. /\ a \in Seq(X) /\ EndOf(a, full.seen)
          /\ Len(a) = IF Len(full.seen) > SeenCap THEN SeenCap ELSE Len(full.seen)
      BY <1>2, <1>6, LastNFacts
    <2>2. /\ b \in Seq(X) /\ EndOf(b, cut)
          /\ Len(b) = IF Len(cut) > SeenCap THEN SeenCap ELSE Len(cut)
      BY <1>2, <1>7, LastNFacts
    <2> HIDE DEF a, b
    <2>3. Len(a) = Len(b)
      <3>1. /\ Len(full.seen) <= Len(h)
            /\ Len(full.seen) >= SeenCap \/ Len(full.seen) = Len(h)
        BY <1>4 DEF Growing, EndOf, h
      <3> QED BY <1>2, <1>6, <1>7, <2>1, <2>2, <3>1
    <2>4. EndOf(a, h) /\ EndOf(b, h)
      <3>1. EndOf(full.seen, h)
        BY <1>4 DEF Growing, h
      <3>2. Len(a) \in Nat /\ Len(b) \in Nat /\ Len(cut) \in Nat
        BY <2>1, <2>2, <1>7, LenProperties
      <3>3. EndOf(a, h)
        <4> SUFFICES ASSUME NEW i \in 1 .. Len(a) PROVE a[i] = h[i + Len(h) - Len(a)]
          BY <1>6, <2>1, <3>1, <3>2 DEF EndOf
        <4> DEFINE j == i + Len(full.seen) - Len(a)
        <4>1. j \in 1 .. Len(full.seen) /\ j + Len(h) - Len(full.seen) = i + Len(h) - Len(a)
          BY <1>6, <2>1, <3>2 DEF EndOf
        <4>2. a[i] = full.seen[j]
          BY <2>1 DEF EndOf
        <4> HIDE DEF j
        <4>3. full.seen[j] = h[j + Len(h) - Len(full.seen)]
          BY <3>1, <4>1 DEF EndOf
        <4> QED BY <4>1, <4>2, <4>3
      <3>4. EndOf(b, h)
        <4> SUFFICES ASSUME NEW i \in 1 .. Len(b) PROVE b[i] = h[i + Len(h) - Len(b)]
          BY <1>6, <1>7, <2>2, <3>2 DEF EndOf
        <4> DEFINE j == i + Len(cut) - Len(b)
        <4>1. j \in 1 .. Len(cut) /\ j + Len(h) - Len(cut) = i + Len(h) - Len(b)
          BY <1>6, <2>2, <3>2 DEF EndOf
        <4>2. b[i] = cut[j]
          BY <2>2 DEF EndOf
        <4> HIDE DEF j
        <4>3. cut[j] = h[j + Len(h) - Len(cut)]
          BY <1>7, <4>1 DEF EndOf
        <4> QED BY <4>1, <4>2, <4>3
      <3> QED BY <3>3, <3>4
    <2>5. a = b
      BY <1>6, <2>1, <2>2, <2>3, <2>4, EndsEqual
    <2>6. Apart(cut)
      BY <1>4, <1>6, <1>7, EndApart DEF Growing, h
    <2>7. Len(cut) <= HistCap
      BY <1>2, <1>6, <1>7
    <2>8. new.history = cut /\ new.seen = a /\ new \in LogOf(X)
      BY <1>5, <1>7, <2>1 DEF a, LogOf
    <2> QED BY <2>5, <2>6, <2>7, <2>8 DEF Rolling, b
  <1>9. \A x : Contains(h, x) => Listed(new.history, x)
    BY <1>2, <1>5, <1>6, <1>7 DEF Listed
  <1>10. Len(log.history) = HistCap => Len(new.history) = HistCap
    BY <1>2, <1>1, <1>4, <1>5, <1>6, <1>7 DEF h
  <1>11. ASSUME NEW x, Listed(log.history, x) PROVE Listed(new.history, x)
    BY <1>4, <1>9, <1>10, <1>11 DEF Listed, h
  <1> QED BY <1>4, <1>8, <1>9, <1>11 DEF h, new

-----------------------------------------------------------------------------
(***************************************************************************)
(* Types.                                                                  *)
(***************************************************************************)

\* What requests, the latest snapshot and the rows of the disk are made of.
Request == [attempt : 1 .. MaxAttempts, ts : Minutes, ctr : Counters \cup {NoValue},
            content : Contents]
Reading == [ts : Minutes, ctr : Counters \cup {NoValue}]
Row     == [ts : Minutes, delta : Counters \cup {NoValue}]

InShape(row) == Rolling(row.errors, Entry) /\ Rolling(row.containers, Entry)

TypedAgent ==
    /\ minute \in Minutes /\ counter \in Counters /\ io \in Counters
    /\ Waiting => agent \in Request
    /\ net \subseteq Request /\ faults \in 0 .. MaxFaults

TypedWorkers ==
    \A w \in Workers :
      /\ worker[w].pc \in {"idle", "read", "begin", "txn", "flush", "reply"}
      /\ Handling(w) => /\ worker[w].req \in Request /\ worker[w].prev \in Reading
                        /\ InShape(worker[w].row)

TypedRows ==
    /\ InShape(rig) /\ snapshots \subseteq Minutes /\ latest \in Reading
    /\ disk \subseteq Row /\ IsFiniteSet(disk) /\ deleting \in 0 .. 4

\* The types of everything, with the histories in shape wherever they are held.
Typed == TypedAgent /\ TypedWorkers /\ TypedRows

\* A worker that goes on with its request keeps it, and the row it read.
GoesOn(w) ==
    /\ Handling(w) /\ worker'[w].req = worker[w].req /\ worker'[w].row = worker[w].row

\* What the steps of a worker make of its own state; the others keep theirs.
LEMMA WorkerAfter ==
    ASSUME Shaped, NEW w \in Workers
    PROVE  /\ WorkerStep(w) => \A v \in Workers : v # w => worker'[v] = worker[v]
           /\ \A req \in net : Accept(w, req) =>
                /\ worker'[w].pc = "read" /\ worker'[w].req = req
                /\ worker'[w].row = rig' /\ worker'[w].prev = NoLatest
           /\ ReadPrevious(w) => /\ worker[w].pc = "read" /\ worker'[w].pc = "begin"
                                 /\ GoesOn(w) /\ worker'[w].prev = latest
           /\ Begin(w) => /\ worker[w].pc = "begin" /\ worker'[w].pc = "txn"
                          /\ GoesOn(w) /\ worker'[w].prev = worker[w].prev
           /\ Commit(w) => /\ worker[w].pc = "txn" /\ worker'[w].pc = "flush"
                           /\ GoesOn(w) /\ worker'[w].prev = worker[w].prev
           /\ Flush(w) => /\ worker[w].pc = "flush" /\ worker'[w].pc = "reply"
                          /\ GoesOn(w) /\ worker'[w].prev = worker[w].prev
           /\ Reply(w) \/ Fail(w) \/ Crash(w) => worker'[w] = Idle
  <1>1. WorkerStep(w) => \A v \in Workers : v # w => worker'[v] = worker[v]
    BY DEF WorkerStep, Accept, ReadPrevious, Begin, Commit, Flush, Reply, Fail, Crash, Shaped
  <1>2. ASSUME NEW req \in net, Accept(w, req)
        PROVE  /\ worker'[w].pc = "read" /\ worker'[w].req = req
               /\ worker'[w].row = rig' /\ worker'[w].prev = NoLatest
    BY <1>2 DEF Accept, Shaped
  <1>3. ReadPrevious(w) => /\ worker[w].pc = "read" /\ worker'[w].pc = "begin"
                           /\ GoesOn(w) /\ worker'[w].prev = latest
    BY ZenonT(60) DEF ReadPrevious, Shaped, Handling, GoesOn
  <1>4. ASSUME Begin(w)
        PROVE  /\ worker[w].pc = "begin" /\ worker'[w].pc = "txn"
               /\ GoesOn(w) /\ worker'[w].prev = worker[w].prev
    <2>1. \E seen : /\ worker[w].pc = "begin"
                    /\ worker' = [worker EXCEPT ![w].pc = "txn", ![w].visible = seen]
      BY <1>4 DEF Begin
    <2>2. PICK seen : worker'[w] = [worker[w] EXCEPT !.pc = "txn", !.visible = seen]
      BY <2>1 DEF Shaped
    <2> QED BY <2>1, <2>2 DEF Shaped, Handling, GoesOn
  <1>5. Commit(w) => /\ worker[w].pc = "txn" /\ worker'[w].pc = "flush"
                     /\ GoesOn(w) /\ worker'[w].prev = worker[w].prev
    BY DEF Commit, Shaped, Handling, GoesOn
  <1>6. Flush(w) => /\ worker[w].pc = "flush" /\ worker'[w].pc = "reply"
                    /\ GoesOn(w) /\ worker'[w].prev = worker[w].prev
    BY DEF Flush, Shaped, Handling, GoesOn
  <1>7. Reply(w) \/ Fail(w) \/ Crash(w) => worker'[w] = Idle
    BY DEF Reply, Fail, Crash, Shaped
  <1> QED BY <1>1, <1>2, <1>3, <1>4, <1>5, <1>6, <1>7

\* An empty history is in shape, so a new rig's are.
LEMMA NewInShape == InShape(NewRig) /\ InShape(NoRig)
  <1>1. <<>> \in Seq(Entry) /\ Len(<<>>) = 0
    BY EmptySeq
  <1>2. LastN(SeenCap, <<>>) = <<>> /\ Len(<<>>) <= HistCap
    <2> DEFINE e == <<>>
    <2>1. SeenCap \in Nat \ {0} /\ HistCap \in Nat /\ e \in Seq(Entry) /\ Len(e) = 0
      BY <1>1, IngestAssumption
    <2> HIDE DEF e
    <2>2. Len(e) <= SeenCap => LastN(SeenCap, e) = e
      BY <2>1, LastNFacts
    <2>3. LastN(SeenCap, e) = e /\ Len(e) <= HistCap
      BY <2>1, <2>2
    <2> QED BY <2>3 DEF e
  <1>3. Apart(<<>>)
    BY <1>1, LenProperties DEF Apart
  <1>4. Rolling(EmptyLog, Entry)
    BY <1>1, <1>2, <1>3 DEF Rolling, EmptyLog, LogOf
  <1>5. /\ NewRig.errors = EmptyLog /\ NewRig.containers = EmptyLog
        /\ NoRig.errors = EmptyLog /\ NoRig.containers = EmptyLog
    BY DEF NewRig, NoRig
  <1> QED BY <1>4, <1>5 DEF InShape

LEMMA InitTyped == Init => Typed
  <1> SUFFICES ASSUME Init PROVE Typed
    OBVIOUS
  <1> USE IngestAssumption DEF Init
  <1>1. TypedAgent
    BY DEF TypedAgent, Minutes, Counters, Waiting, AgentIdle
  <1>2. TypedWorkers
    BY DEF TypedWorkers, Handling, Idle
  <1>3. TypedRows
    <2>1. latest \in Reading /\ snapshots \subseteq Minutes /\ deleting \in 0 .. 4
      BY DEF NoLatest, Reading, Minutes
    <2>2. disk \subseteq Row /\ IsFiniteSet(disk)
      BY FS_EmptySet
    <2> QED BY <2>1, <2>2, NewInShape DEF TypedRows
  <1> QED BY <1>1, <1>2, <1>3 DEF Typed

\* What is under way moves between the agent, the network and the workers.
LEMMA TypedMove ==
    ASSUME Typed, Shaped,
           \/ Reboot \/ Resend \/ GiveUp
           \/ \E req \in net : Lose(req) \/ Reject(req)
    PROVE  Typed'
  <1>1. UNCHANGED <<minute, io, worker, database>> /\ counter' \in {counter, 0}
    BY DEF Reboot, Resend, GiveUp, Lose, Reject, machine
  <1>2. TypedWorkers' /\ TypedRows'
    BY <1>1 DEF Typed, TypedWorkers, TypedRows, Handling, database
  <1>3. faults' \in 0 .. MaxFaults
    BY IngestAssumption DEF Reboot, Resend, GiveUp, Lose, Reject, Fault, Typed, TypedAgent
  <1>4. CASE Resend
    <2>1. Waiting /\ agent.attempt < MaxAttempts /\ agent \in Request
          /\ agent' = [agent EXCEPT !.attempt = @ + 1] /\ net' = net \cup {agent'}
      BY <1>4 DEF Resend, Typed, TypedAgent
    <2>2. agent' \in Request
      BY <2>1, IngestAssumption DEF Request
    <2> QED BY <1>1, <1>2, <1>3, <2>1, <2>2, IngestAssumption DEF Typed, TypedAgent, Counters
  <1>5. CASE ~Resend
    <2>1. net' \subseteq net /\ (agent' = agent \/ agent' = AgentIdle)
      BY <1>5 DEF Reboot, GiveUp, Lose, Reject, Answered
    <2>2. Waiting' => agent' \in Request
      BY <2>1 DEF Typed, TypedAgent, Waiting, AgentIdle
    <2> QED BY <1>1, <1>2, <1>3, <2>1, <2>2, IngestAssumption DEF Typed, TypedAgent, Counters
  <1> QED BY <1>4, <1>5

LEMMA TypedCollect ==
    ASSUME Typed, Shaped, NEW c \in Contents, NEW d \in 0 .. MaxIO, NEW missing \in BOOLEAN,
           Collect(c, d, missing)
    PROVE  Typed'
  <1>1. UNCHANGED <<worker, database>>
    BY DEF Collect
  <1>2. TypedWorkers' /\ TypedRows'
    BY <1>1 DEF Typed, TypedWorkers, TypedRows, Handling, database
  <1>3. /\ minute' = minute + 1 /\ minute' \in Minutes
        /\ counter' \in Counters /\ io' \in Counters /\ counter' = counter + d
    BY IngestAssumption DEF Collect, Typed, TypedAgent, Minutes, Counters
  <1>4. faults' \in 0 .. MaxFaults
    BY IngestAssumption DEF Collect, Fault, Typed, TypedAgent
  <1>5. agent' \in Request /\ net' = net \cup {agent'}
    <2>1. \E ctr \in Counters \cup {NoValue} :
            agent' = [attempt |-> 1, ts |-> minute', content |-> c, ctr |-> ctr]
      BY <1>3 DEF Collect
    <2>2. net' = net \cup {agent'} /\ 1 \in 1 .. MaxAttempts
      BY IngestAssumption DEF Collect
    <2> QED BY <1>3, <2>1, <2>2 DEF Request
  <1> QED BY <1>2, <1>3, <1>4, <1>5 DEF Typed, TypedAgent

\* The steps of a worker that write no row of the payload.
LEMMA TypedWork ==
    ASSUME Typed, Shaped, NEW w \in Workers, WorkerStep(w), ~Commit(w)
    PROVE  Typed'
  <1>1. UNCHANGED <<minute, counter, io, snapshots, disk, latest, deleting>>
    BY DEF WorkerStep, Accept, ReadPrevious, Begin, Flush, Reply, Fail, Crash, machine, database
  <1>2. TypedAgent'
    <2>1. net' \subseteq net /\ (agent' = agent \/ agent' = AgentIdle)
      BY DEF WorkerStep, Accept, ReadPrevious, Begin, Flush, Reply, Fail, Crash, Answered
    <2>2. Waiting' => agent' \in Request
      BY <2>1 DEF Typed, TypedAgent, Waiting, AgentIdle
    <2>3. faults' \in 0 .. MaxFaults
      BY IngestAssumption DEF WorkerStep, Accept, ReadPrevious, Begin, Flush, Reply, Fail, Crash,
                              Fault, Typed, TypedAgent
    <2> QED BY <1>1, <2>1, <2>2, <2>3 DEF Typed, TypedAgent
  <1>3. InShape(rig)'
    <2>1. CASE Flush(w) /\ rig.present
      <3> DEFINE t == worker[w]
      <3>1. /\ rig'.errors = Appended(t.row.errors, t.req.content.errors)
            /\ rig'.containers = Appended(t.row.containers, t.req.content.containers)
        BY <2>1 DEF Flush
      <3>2. t.req \in Request /\ InShape(t.row)
        BY <2>1 DEF Flush, Typed, TypedWorkers, Handling
      <3>3. t.req.content.errors \in Seq(Entry) /\ t.req.content.containers \in Seq(Entry)
        BY <3>2, ContentAssumption DEF Request
      <3> HIDE DEF t
      <3>4. /\ Rolling(Appended(t.row.errors, t.req.content.errors), Entry)
            /\ Rolling(Appended(t.row.containers, t.req.content.containers), Entry)
        BY <3>2, <3>3, AppendedFacts DEF InShape
      <3> QED BY <3>1, <3>4 DEF InShape
    <2>2. CASE ~(Flush(w) /\ rig.present)
      <3>1. rig' = rig \/ rig' = NewRig
        BY <2>2 DEF WorkerStep, Accept, ReadPrevious, Begin, Flush, Reply, Fail, Crash, database
      <3> QED BY <3>1, NewInShape DEF InShape, Typed, TypedRows
    <2> QED BY <2>1, <2>2
  <1>4. TypedWorkers'
    <2>1. NoLatest \in Reading
      BY IngestAssumption DEF NoLatest, Reading, Minutes
    <2>2. /\ worker'[w].pc \in {"idle", "read", "begin", "txn", "flush", "reply"}
          /\ Handling(w)' => /\ worker'[w].req \in Request /\ worker'[w].prev \in Reading
                             /\ InShape(worker'[w].row)
      <3>1. ASSUME NEW req \in net, Accept(w, req)
            PROVE  /\ worker'[w].pc = "read" /\ worker'[w].req \in Request
                   /\ worker'[w].prev \in Reading /\ InShape(worker'[w].row)
        <4>1. /\ worker'[w].pc = "read" /\ worker'[w].req = req
              /\ worker'[w].row = rig' /\ worker'[w].prev = NoLatest
          BY <3>1, WorkerAfter
        <4> QED BY <1>3, <2>1, <4>1 DEF Typed, TypedAgent, InShape
      <3>2. ASSUME ReadPrevious(w) \/ Begin(w) \/ Flush(w)
            PROVE  /\ worker'[w].pc \in {"begin", "txn", "reply"} /\ GoesOn(w)
                   /\ worker'[w].prev \in Reading
        BY <3>2, WorkerAfter DEF Typed, TypedWorkers, TypedRows, GoesOn
      <3>3. ASSUME GoesOn(w)
            PROVE  worker'[w].req \in Request /\ InShape(worker'[w].row)
        BY <3>3 DEF GoesOn, Typed, TypedWorkers, InShape
      <3>4. ASSUME Reply(w) \/ Fail(w) \/ Crash(w)
            PROVE  worker'[w].pc = "idle"
        BY <3>4, WorkerAfter DEF Idle
      <3> QED BY <3>1, <3>2, <3>3, <3>4 DEF WorkerStep, Handling
    <2>3. \A v \in Workers : v # w => worker'[v] = worker[v]
      BY WorkerAfter
    <2> QED BY <2>2, <2>3 DEF Typed, TypedWorkers, Handling, InShape
  <1>5. TypedRows'
    BY <1>1, <1>3 DEF Typed, TypedRows
  <1> QED BY <1>2, <1>4, <1>5 DEF Typed

\* What a reading adds to another one, as a delta and as an amount.
LEMMA DeltaFacts ==
    ASSUME NEW p \in Reading, NEW ctr \in Counters \cup {NoValue}
    PROVE  /\ Delta(p, ctr) \in Counters \cup {NoValue}
           /\ Amount(Delta(p, ctr)) \in Nat
           /\ p.ctr = NoValue \/ ctr = NoValue \/ ctr = 0 => Amount(Delta(p, ctr)) = 0
           /\ p.ctr = ctr => Amount(Delta(p, ctr)) = 0
           /\ p.ctr # NoValue /\ ctr # NoValue /\ p.ctr <= ctr
                => Amount(Delta(p, ctr)) = ctr - p.ctr
           /\ \A d \in Nat : ctr # NoValue /\ ctr + d \in Counters
                => Amount(Delta(p, ctr + d)) <= Amount(Delta(p, ctr)) + d
  BY IngestAssumption DEF Delta, Reading, Counters, NoValue, Amount

\* The commit writes rows of the payload.
LEMMA TypedCommit ==
    ASSUME Typed, Shaped, NEW w \in Workers, Commit(w)
    PROVE  Typed'
  <1> DEFINE t == worker[w]
  <1>1. /\ UNCHANGED <<minute, counter, io, agent, net, rig, deleting, faults>>
        /\ t.pc = "txn" /\ snapshots' = snapshots \cup {t.req.ts} /\ disk' = StoreDisk(t)
        /\ latest' = [ts |-> t.req.ts, ctr |-> t.req.ctr]
    BY DEF Commit, machine
  <1>2. /\ t.req \in Request /\ t.prev \in Reading
        /\ t.req.ts \in Minutes /\ t.req.ctr \in Counters \cup {NoValue}
    BY <1>1 DEF Typed, TypedWorkers, Handling, Request
  <1>3. /\ worker'[w].pc = "flush" /\ GoesOn(w) /\ worker'[w].prev = worker[w].prev
        /\ \A v \in Workers : v # w => worker'[v] = worker[v]
    BY WorkerAfter DEF WorkerStep
  <1>4. TypedWorkers'
    BY <1>3 DEF Typed, TypedWorkers, GoesOn, Handling, InShape
  <1>5. disk' \subseteq Row /\ IsFiniteSet(disk')
    <2>1. disk \subseteq Row /\ IsFiniteSet(disk)
      BY DEF Typed, TypedRows
    <2>2. CASE t.req.ctr = NoValue
      BY <1>1, <2>1, <2>2 DEF StoreDisk
    <2>3. CASE t.req.ctr # NoValue
      <3> DEFINE kept == {d \in disk : d.ts # t.req.ts}
                 row  == [ts |-> t.req.ts, delta |-> Delta(t.prev, t.req.ctr)]
      <3>1. disk' = kept \cup {row}
        BY <1>1, <2>3 DEF StoreDisk
      <3>2. row \in Row /\ kept \subseteq Row
        BY <1>2, <2>1, DeltaFacts DEF Row
      <3>3. IsFiniteSet(kept)
        BY <2>1, FS_Subset
      <3> HIDE DEF kept, row
      <3>4. IsFiniteSet(kept \cup {row})
        BY <3>3, FS_AddElement
      <3> QED BY <3>1, <3>2, <3>4
    <2> QED BY <2>2, <2>3
  <1>6. latest' \in Reading /\ snapshots' \subseteq Minutes
    BY <1>1, <1>2 DEF Reading, Typed, TypedRows
  <1>7. TypedAgent' /\ TypedRows'
    BY <1>1, <1>5, <1>6 DEF Typed, TypedAgent, TypedRows, Waiting, InShape
  <1> QED BY <1>4, <1>7 DEF Typed

LEMMA TypedErase ==
    ASSUME Typed, DeleteStep
    PROVE  Typed'
  <1>1. UNCHANGED <<minute, counter, io, agent, net, worker>>
    BY DEF DeleteStep, machine
  <1>2. /\ rig' = rig \/ rig' = NoRig
        /\ snapshots' = snapshots \/ snapshots' = {}
        /\ disk' = disk \/ disk' = {}
        /\ latest' = latest \/ latest' = NoLatest
        /\ deleting' \in 0 .. 4
    BY DEF DeleteStep, DeleteSnapshots, DeleteLatest, DeleteDisk, DeleteContainers, DeleteRig
  <1>3. faults' \in 0 .. MaxFaults
    BY IngestAssumption DEF DeleteStep, DeleteSnapshots, DeleteLatest, DeleteDisk,
          DeleteContainers, DeleteRig, Fault, Typed, TypedAgent
  <1>4. TypedAgent' /\ TypedWorkers'
    BY <1>1, <1>3 DEF Typed, TypedAgent, TypedWorkers, Waiting, Handling
  <1>5. InShape(rig)'
    BY <1>2, NewInShape DEF Typed, TypedRows, InShape
  <1>6. latest' \in Reading
    <2>1. NoLatest \in Reading
      BY IngestAssumption DEF NoLatest, Reading, Minutes
    <2> QED BY <1>2, <2>1 DEF Typed, TypedRows
  <1>7. disk' \subseteq Row /\ IsFiniteSet(disk') /\ snapshots' \subseteq Minutes
    BY <1>2, FS_EmptySet DEF Typed, TypedRows
  <1> QED BY <1>2, <1>4, <1>5, <1>6, <1>7 DEF Typed, TypedRows

LEMMA TypedStutter == ASSUME Typed, UNCHANGED vars PROVE Typed'
  BY DEF vars, Typed, TypedAgent, TypedWorkers, TypedRows, Waiting, Handling, InShape

\* The types hold throughout.
THEOREM TypedAlways == Spec => [](IInv /\ Typed)
  <1>1. Typed /\ IInv /\ [Next]_vars => Typed'
    BY TypedMove, TypedCollect, TypedWork, TypedCommit, TypedErase, TypedStutter
       DEF Next, AgentStep, WorkerStep, IInv
  <1> QED BY InitTyped, Invariance, <1>1, PTL DEF Spec

\* Types of the state, and the caps of the rolling histories.
THEOREM TypeCorrect == Spec => []TypeOK
  <1>1. Typed => TypeOK
    <2> SUFFICES ASSUME Typed PROVE TypeOK
      OBVIOUS
    <2> USE DEF Typed
    <2>1. /\ rig.errors \in Log /\ rig.containers \in Log
          /\ Len(rig.errors.history) <= HistCap
      BY DEF TypedRows, InShape, Rolling, LogOf, Log
    <2>2. Len(rig.errors.seen) <= SeenCap
      <3>1. /\ rig.errors.history \in Seq(Entry)
            /\ rig.errors.seen = LastN(SeenCap, rig.errors.history)
        BY DEF TypedRows, InShape, Rolling, LogOf
      <3> DEFINE h == rig.errors.history
      <3>2. SeenCap \in Nat \ {0} /\ Len(h) \in Nat
        BY <3>1, IngestAssumption, LenProperties
      <3> HIDE DEF h
      <3>3. Len(LastN(SeenCap, h)) = IF Len(h) > SeenCap THEN SeenCap ELSE Len(h)
        BY <3>1, <3>2, LastNFacts DEF h
      <3>4. Len(LastN(SeenCap, h)) <= SeenCap
        BY <3>2, <3>3
      <3> QED BY <3>1, <3>4 DEF h
    <2>3. \A q \in net : q.attempt \in 1 .. MaxAttempts /\ q.ts \in Minutes
      BY DEF TypedAgent, Request
    <2>4. /\ minute \in Minutes /\ counter \in Counters /\ io \in Counters
          /\ faults \in 0 .. MaxFaults
          /\ Waiting => agent \in [attempt : 1 .. MaxAttempts, ts : Minutes,
                                   ctr : Counters \cup {NoValue}, content : Contents]
      BY DEF TypedAgent, Request
    <2>5. /\ snapshots \subseteq Minutes /\ deleting \in 0 .. 4
          /\ disk \subseteq [ts : Minutes, delta : Counters \cup {NoValue}]
          /\ latest \in [ts : Minutes, ctr : Counters \cup {NoValue}]
      BY DEF TypedRows, Row, Reading
    <2>6. \A w \in Workers : worker[w].pc \in
             {"idle", "read", "begin", "txn", "flush", "reply"}
      BY DEF TypedWorkers
    <2> QED BY <2>1, <2>2, <2>3, <2>4, <2>5, <2>6 DEF TypeOK
  <1> QED BY TypedAlways, <1>1, PTL

\* Equal entries of a history are further apart than the window of the
\* deduplication, also with Overlap.
THEOREM HistoriesDeduplicated == Spec => []DedupWindow
  <1>1. Typed => DedupWindow
    BY DEF Typed, TypedRows, InShape, Rolling, Apart, DedupWindow
  <1> QED BY TypedAlways, <1>1, PTL

-----------------------------------------------------------------------------
(***************************************************************************)
(* The accounts of the deltas.                                             *)
(***************************************************************************)

\* The requests under way, the rows of earlier payloads, and the readings a
\* payload may still be compared with.
Pending == (IF Waiting THEN {agent} ELSE {}) \cup net \cup {worker[w].req : w \in Busy}
Before  == {d \in disk : d.ts # minute}
Prevs   == {latest} \cup {worker[w].prev :
                            w \in {v \in Workers : worker[v].pc \in {"begin", "txn"}}}

\* Two attempts at the same payload.
Alike(p, q) == p.ts = q.ts /\ p.ctr = q.ctr /\ p.content = q.content

\* Without Overlap all that is under way is one payload, whose reading is that of
\* the counter, unless the counter was reset since.
OneRequest == \A p, q \in Pending : Alike(p, q)
Measured   == \A q \in Pending : q.ctr # NoValue => counter \in {q.ctr, 0}

OnePerMinute ==
    /\ \A d, e \in disk : d.ts = e.ts => d = e
    /\ \A d \in disk : d.ts <= minute

\* What the rows report, and what a payload may add to them, is covered by the
\* I/O there was, whichever reading the worker has read.
Covered ==
    /\ Sum(disk) + Amount(Delta(latest, counter)) <= io
    /\ \A q \in Pending, p \in Prevs : Sum(Before) + Amount(Delta(p, q.ctr)) <= io

\* Unless something was disturbed, the rows report all I/O between the first
\* reading and the newest, and the next payload is compared with the newest.
Complete ==
    ~disturbed =>
      /\ \A d \in disk : d.ts \in snapshots
      /\ latest = NoLatest => disk = {} /\ first = NoValue
      /\ latest # NoLatest => /\ first \in Counters /\ latest.ctr \in Counters
                              /\ Sum(disk) = latest.ctr - first /\ latest.ctr <= counter
      /\ \A q \in Pending : q.ctr = counter
      /\ minute \notin snapshots => Prevs = {latest}

Accounted == OneRequest /\ Measured /\ OnePerMinute /\ Covered /\ Complete

\* A step other than Collect leaves no new payload under way.
LEMMA PendingKept ==
    ASSUME Shaped, TypedAgent,
           \/ Reboot \/ Resend \/ GiveUp \/ DeleteStep
           \/ \E req \in net : Lose(req) \/ Reject(req)
           \/ \E w \in Workers : WorkerStep(w)
    PROVE  \A r \in Pending' : \E q \in Pending : Alike(r, q)
  <1>1. \/ Waiting' => agent' = agent
        \/ Waiting /\ Waiting' /\ Alike(agent', agent)
    <2>1. ASSUME Resend PROVE Waiting /\ Alike(agent', agent)
      BY <2>1 DEF Resend, Shaped, Alike
    <2>2. ASSUME ~Resend PROVE agent' = agent \/ agent' = AgentIdle
      BY <2>2 DEF Reboot, GiveUp, DeleteStep, Lose, Reject, Answered, WorkerStep, Accept,
           ReadPrevious, Begin, Commit, Flush, Reply, Fail, Crash
    <2> QED BY <2>1, <2>2 DEF Waiting, AgentIdle
  <1>2. Waiting' => Waiting /\ Alike(agent', agent)
    BY <1>1 DEF Alike, Waiting
  <1>3. net' \subseteq net \/ (Resend /\ net' = net \cup {agent'} /\ Waiting')
    <2>1. ASSUME Resend PROVE Waiting'
      <3>1. agent' = [agent EXCEPT !.attempt = @ + 1] /\ Waiting
        BY <2>1 DEF Resend
      <3>2. agent.attempt \in 1 .. MaxAttempts /\ agent \in Request
        BY <3>1 DEF TypedAgent, Request
      <3>3. agent'.attempt = agent.attempt + 1
        BY <3>1, <3>2 DEF Request
      <3> QED BY <3>2, <3>3, IngestAssumption DEF Waiting
    <2> QED BY <2>1 DEF Reboot, Resend, GiveUp, DeleteStep, Lose, Reject, WorkerStep, Accept,
           ReadPrevious, Begin, Commit, Flush, Reply, Fail, Crash
  <1>4. ASSUME NEW v \in Workers, Handling(v)'
        PROVE  (Handling(v) /\ worker'[v].req = worker[v].req) \/ worker'[v].req \in net
    <2>1. ASSUME NEW w \in Workers, WorkerStep(w)
          PROVE  (Handling(v) /\ worker'[v].req = worker[v].req) \/ worker'[v].req \in net
      <3>1. CASE v # w
        BY <1>4, <2>1, <3>1, WorkerAfter DEF Handling
      <3>2. CASE v = w
        <4>1. ~(Reply(w) \/ Fail(w) \/ Crash(w))
          BY <1>4, <3>2, WorkerAfter DEF Handling, Idle
        <4>2. (\E req \in net : worker'[w].req = req) \/ GoesOn(w)
          BY <2>1, <4>1, WorkerAfter DEF WorkerStep
        <4> QED BY <3>2, <4>2 DEF GoesOn
      <3> QED BY <3>1, <3>2
    <2>2. worker' = worker \/ \E w \in Workers : WorkerStep(w)
      BY DEF Reboot, Resend, GiveUp, DeleteStep, Lose, Reject
    <2> QED BY <1>4, <2>1, <2>2 DEF Handling
  <1> SUFFICES ASSUME NEW r \in Pending' PROVE \E q \in Pending : Alike(r, q)
    OBVIOUS
  <1>5. ASSUME NEW q \in net PROVE q \in Pending
    BY <1>5 DEF Pending
  <1>6. Waiting => agent \in Pending
    BY DEF Pending
  <1>7. ASSUME NEW v \in Workers, Handling(v) PROVE worker[v].req \in Pending
    BY <1>7 DEF Pending, Busy, Handling
  <1>8. \A q : Alike(q, q)
    BY DEF Alike
  <1>9. CASE Waiting' /\ r = agent'
    BY <1>2, <1>6, <1>9
  <1>10. CASE r \in net'
    BY <1>2, <1>3, <1>5, <1>6, <1>8, <1>10
  <1>11. CASE \E v \in Workers : Handling(v)' /\ r = worker'[v].req
    BY <1>4, <1>5, <1>7, <1>8, <1>11
  <1>12. \/ Waiting' /\ r = agent'
         \/ r \in net'
         \/ \E v \in Workers : Handling(v)' /\ r = worker'[v].req
    BY DEF Pending, Busy, Handling
  <1> QED BY <1>9, <1>10, <1>11, <1>12

\* No step brings back an older reading to compare with.
LEMMA PrevsKept ==
    ASSUME Shaped, Next
    PROVE  Prevs' \subseteq Prevs \cup {latest'}
  <1> SUFFICES ASSUME NEW v \in Workers, worker'[v].pc \in {"begin", "txn"}
               PROVE  worker'[v].prev \in Prevs
    BY DEF Prevs
  <1>1. latest \in Prevs
    BY DEF Prevs
  <1>2. worker[v].pc \in {"begin", "txn"} => worker[v].prev \in Prevs
    BY DEF Prevs
  <1>3. ASSUME NEW w \in Workers, WorkerStep(w) PROVE worker'[v].prev \in Prevs
    <2>1. CASE v # w
      BY <1>2, <1>3, <2>1, WorkerAfter
    <2>2. CASE v = w
      <3>1. ReadPrevious(w) \/ Begin(w)
        BY <1>3, <2>2, WorkerAfter DEF WorkerStep, Idle
      <3> QED BY <1>1, <1>2, <2>2, <3>1, WorkerAfter
    <2> QED BY <2>1, <2>2
  <1>4. worker' = worker \/ \E w \in Workers : WorkerStep(w)
    BY DEF Next, AgentStep, Reboot, Resend, GiveUp, Collect, DeleteStep, Lose, Reject
  <1> QED BY <1>2, <1>3, <1>4

\* The rows and their sums.
LEMMA RowFacts ==
    ASSUME TypedAgent, TypedRows, OnePerMinute
    PROVE  /\ WeighedSet(disk) /\ WeighedSet(Before)
           /\ Sum(disk) \in Nat /\ Sum(Before) \in Nat /\ Sum(Before) <= Sum(disk)
           /\ (\A d \in disk : d.ts # minute) => Before = disk
  <1>1. disk \subseteq Row /\ IsFiniteSet(disk)
    BY DEF TypedRows
  <1>2. \A d \in Row : Weight(d) \in Nat
    BY IngestAssumption DEF Row, Weight, Amount, Counters
  <1>3. WeighedSet(disk)
    BY <1>1, <1>2 DEF WeighedSet
  <1>4. Before \subseteq disk /\ ((\A d \in disk : d.ts # minute) => Before = disk)
    BY DEF Before
  <1>5. WeighedSet(Before)
    BY <1>1, <1>2, <1>4, FS_Subset DEF WeighedSet
  <1>6. Sum(disk) \in Nat /\ Sum(Before) \in Nat
    BY <1>3, <1>5, SumFacts
  <1>7. Sum(Before) <= Sum(disk)
    <2>1. CASE \A d \in disk : d.ts # minute
      BY <1>4, <1>6, <2>1
    <2>2. CASE ~ \A d \in disk : d.ts # minute
      <3>1. PICK d \in disk : d.ts = minute
        BY <2>2
      <3>2. Before = disk \ {d}
        BY <3>1 DEF Before, OnePerMinute
      <3>3. Sum(disk) = Weight(d) + Sum(disk \ {d}) /\ Weight(d) \in Nat
        BY <1>1, <1>2, <1>3, SumFacts
      <3> QED BY <1>6, <3>2, <3>3
    <2> QED BY <2>1, <2>2
  <1> QED BY <1>3, <1>4, <1>5, <1>6, <1>7

\* A step that writes no row and reads no counter.
LEMMA QuietAccounts ==
    ASSUME Typed, Accounted,
           UNCHANGED <<minute, io, snapshots, disk, latest, first>>,
           \A r \in Pending' : \E q \in Pending : Alike(r, q),
           Prevs' \subseteq Prevs \cup {latest'},
           counter' = counter \/ (counter' = 0 /\ disturbed'),
           disturbed => disturbed'
    PROVE  Accounted'
  <1> USE DEF Accounted
  <1>1. OneRequest' /\ OnePerMinute' /\ Before' = Before
    BY DEF OneRequest, Alike, OnePerMinute, Before
  <1>2. Prevs' \subseteq Prevs /\ latest \in Prevs'
    BY DEF Prevs
  <1>3. counter' \in {counter, 0}
    OBVIOUS
  <1>4. Measured'
    BY <1>3 DEF Measured, Alike
  <1>5. Covered'
    <2>1. Sum(disk') = Sum(disk) /\ Sum(Before') = Sum(Before)
      BY <1>1
    <2>2. Sum(disk') + Amount(Delta(latest', counter')) <= io'
      <3>1. /\ Sum(disk) \in Nat /\ io \in Int /\ Amount(Delta(latest, counter)) \in Nat
            /\ Amount(Delta(latest, 0)) = 0
        <4>1. /\ latest \in Reading /\ counter \in Counters \cup {NoValue}
              /\ 0 \in Counters \cup {NoValue} /\ io \in Int
          BY IngestAssumption DEF Typed, TypedAgent, TypedRows, Counters
        <4>2. Sum(disk) \in Nat
          BY RowFacts DEF Typed
        <4> QED BY <4>1, <4>2, DeltaFacts
      <3>2. Sum(disk) + Amount(Delta(latest, counter)) <= io
        BY DEF Covered
      <3> QED BY <1>3, <2>1, <3>1, <3>2
    <2>3. \A q \in Pending', p \in Prevs' : Sum(Before') + Amount(Delta(p, q.ctr)) <= io'
      BY <1>2, <2>1 DEF Covered, Alike
    <2> QED BY <2>2, <2>3 DEF Covered
  <1>6. Complete'
    <2> SUFFICES ASSUME ~disturbed' PROVE Complete'
      BY DEF Complete
    <2>1. ~disturbed /\ counter' = counter
      OBVIOUS
    <2>2. \A q \in Pending' : q.ctr = counter'
      BY <2>1 DEF Complete, Alike
    <2>3. minute \notin snapshots => Prevs' = {latest}
      BY <1>2, <2>1 DEF Complete
    <2> QED BY <2>1, <2>2, <2>3 DEF Complete
  <1> QED BY <1>1, <1>4, <1>5, <1>6

\* A payload is built when nothing is under way; its reading is the counter.
LEMMA CollectAccounts ==
    ASSUME Typed, IInv, Accounted, ~Overlap,
           NEW c \in Contents, NEW d \in 0 .. MaxIO, NEW missing \in BOOLEAN,
           Collect(c, d, missing)
    PROVE  Accounted'
  <1> USE DEF Accounted
  <1>1. /\ minute' = minute + 1 /\ counter' = counter + d /\ io' = io + d
        /\ net = {} /\ Busy = {} /\ net' = {agent'}
        /\ UNCHANGED <<worker, rig, snapshots, disk, latest, first>>
        /\ agent'.ctr = IF missing THEN NoValue ELSE counter'
        /\ disturbed' = (disturbed \/ missing)
    BY DEF Collect, database
  <1>2. /\ minute \in Nat /\ counter \in Counters /\ io \in Nat /\ d \in Nat
        /\ latest \in Reading /\ counter' \in Counters /\ counter \in Nat
        /\ counter # NoValue /\ counter' # NoValue
    BY <1>1, IngestAssumption DEF Typed, TypedAgent, TypedRows, Counters, Collect, Minutes, NoValue
  <1>3. Pending' = {agent'}
    <2>1. Busy' = {}
      BY <1>1 DEF Busy
    <2> QED BY <1>1, <2>1 DEF Pending
  <1>4. Prevs' = {latest}
    <2>1. \A w \in Workers : worker'[w].pc = "idle"
      BY <1>1 DEF Busy
    <2> QED BY <1>1, <2>1 DEF Prevs
  <1>5. OneRequest' /\ Measured'
    BY <1>1, <1>3 DEF OneRequest, Measured, Alike
  <1>6. OnePerMinute'
    BY <1>1, <1>2 DEF OnePerMinute, Typed, TypedRows, Row, Minutes
  <1>7. Before' = disk
    BY <1>1, <1>2 DEF Before, OnePerMinute, Typed, TypedRows, Row, Minutes
  <1>8. Covered'
    <2>1. /\ Amount(Delta(latest, counter)) \in Nat /\ Amount(Delta(latest, counter')) \in Nat
          /\ Amount(Delta(latest, counter')) <= Amount(Delta(latest, counter)) + d
          /\ Amount(Delta(latest, NoValue)) = 0
      <3>1. /\ counter \in Counters \cup {NoValue} /\ NoValue \in Counters \cup {NoValue}
            /\ counter' \in Counters \cup {NoValue} /\ counter + d \in Counters
        BY <1>1, <1>2
      <3> QED BY <1>1, <1>2, <3>1, DeltaFacts
    <2>2. Sum(disk) \in Nat /\ Sum(disk) + Amount(Delta(latest, counter)) <= io
      BY RowFacts DEF Typed, Covered
    <2>3. /\ Sum(disk) + Amount(Delta(latest, counter')) <= io'
          /\ Sum(disk) + Amount(Delta(latest, NoValue)) <= io'
      BY <1>1, <1>2, <2>1, <2>2
    <2>4. Sum(disk') = Sum(disk) /\ Sum(Before') = Sum(disk)
      BY <1>1, <1>7
    <2>5. Sum(disk') + Amount(Delta(latest', counter')) <= io'
      BY <1>1, <2>3, <2>4
    <2>6. \A q \in Pending', p \in Prevs' : Sum(Before') + Amount(Delta(p, q.ctr)) <= io'
      BY <1>1, <1>3, <1>4, <2>3, <2>4
    <2> QED BY <2>5, <2>6 DEF Covered
  <1>9. Complete'
    <2> SUFFICES ASSUME ~disturbed' PROVE Complete'
      BY DEF Complete
    <2>1. ~disturbed /\ ~missing
      BY <1>1
    <2>2. /\ \A r \in disk : r.ts \in snapshots
          /\ latest = NoLatest => disk = {} /\ first = NoValue
          /\ latest # NoLatest => /\ first \in Counters /\ latest.ctr \in Counters
                                  /\ Sum(disk) = latest.ctr - first /\ latest.ctr <= counter
      BY <2>1 DEF Complete
    <2>3. latest # NoLatest => latest.ctr <= counter'
      BY <1>1, <1>2, <2>2 DEF Counters
    <2>4. \A q \in Pending' : q.ctr = counter'
      BY <1>1, <1>3, <2>1
    <2> QED BY <1>1, <1>4, <2>2, <2>3, <2>4 DEF Complete
  <1> QED BY <1>5, <1>6, <1>8, <1>9

\* The commit replaces the row of the payload and the reading to compare with.
LEMMA CommitAccounts ==
    ASSUME Typed, IInv, Accounted, ~Overlap, NEW w \in Workers, Commit(w)
    PROVE  Accounted'
  <1> USE DEF Accounted
  <1> DEFINE t   == worker[w]
             ctr == t.req.ctr
             row == [ts |-> minute, delta |-> Delta(t.prev, ctr)]
  <1>1. /\ UNCHANGED <<minute, counter, io>> /\ t.pc = "txn"
        /\ snapshots' = snapshots \cup {t.req.ts} /\ disk' = StoreDisk(t)
        /\ latest' = [ts |-> t.req.ts, ctr |-> ctr]
        /\ first' = IF first = NoValue THEN ctr ELSE first
        /\ disturbed' = (disturbed \/ t.req.ts \in snapshots)
    BY DEF Commit, machine
  <1>2. t.req \in Pending /\ t.prev \in Prevs /\ t.req.ts = minute
    BY <1>1 DEF Pending, Prevs, Busy, IInv, UnderWay, Handling, Dated
  <1>3. /\ t.prev \in Reading /\ ctr \in Counters \cup {NoValue} /\ latest \in Reading
        /\ latest' \in Reading
        /\ io \in Nat /\ counter \in Counters /\ counter \in Nat /\ counter # NoValue
    <2>1. TypedRows'
      BY TypedCommit DEF Typed, IInv
    <2> QED BY <1>1, <2>1, IngestAssumption DEF Typed, TypedWorkers, TypedAgent, TypedRows,
               Handling, Request, Counters, NoValue
  <1>4. disk' = IF ctr = NoValue THEN disk ELSE Before \cup {row}
    BY <1>1, <1>2 DEF StoreDisk, Before
  <1> HIDE DEF t, ctr
  <1>5. \A r \in Pending' : r.ctr = ctr /\ \E q \in Pending : Alike(r, q)
    <2>1. \A r \in Pending' : \E q \in Pending : Alike(r, q)
      BY PendingKept DEF WorkerStep, IInv, Typed
    <2> QED BY <1>2, <2>1 DEF OneRequest, Alike, ctr
  <1>6. Prevs' \subseteq Prevs \cup {latest'}
    BY PrevsKept DEF Next, WorkerStep, IInv
  <1>7. OneRequest' /\ Measured'
    BY <1>1, <1>5 DEF OneRequest, Measured, Alike
  <1>8. OnePerMinute'
    BY <1>1, <1>3, <1>4 DEF OnePerMinute, Before, Typed, TypedAgent, Minutes
  <1>9. Before' = Before
    BY <1>1, <1>4 DEF Before
  <1>10. /\ WeighedSet(disk') /\ Sum(disk) \in Nat /\ Sum(Before) \in Nat
         /\ Sum(Before) <= Sum(disk)
         /\ (\A d \in disk : d.ts # minute) => Before = disk
    <2>1. disk' \subseteq Row /\ IsFiniteSet(disk')
      BY TypedCommit DEF Typed, TypedRows, IInv
    <2>2. WeighedSet(disk')
      BY <2>1, IngestAssumption DEF WeighedSet, Row, Weight, Amount, Counters
    <2> QED BY <2>2, RowFacts DEF Typed
  <1>11. /\ ctr = NoValue => Sum(disk') = Sum(disk)
         /\ ctr # NoValue => Sum(disk') = Sum(Before) + Amount(Delta(t.prev, ctr))
    <2>1. ASSUME ctr # NoValue PROVE Sum(disk') = Sum(Before) + Amount(Delta(t.prev, ctr))
      <3>1. row \in disk' /\ disk' \ {row} = Before
        BY <1>4, <2>1 DEF Before
      <3>2. Weight(row) = Amount(Delta(t.prev, ctr))
        BY DEF Weight
      <3> HIDE DEF row
      <3>3. Sum(disk') = Weight(row) + Sum(disk' \ {row})
        BY <1>10, <3>1, SumFacts
      <3>4. Amount(Delta(t.prev, ctr)) \in Nat
        BY <1>3, DeltaFacts
      <3>5. Sum(disk') = Amount(Delta(t.prev, ctr)) + Sum(Before)
        BY <3>1, <3>2, <3>3
      <3>6. Sum(Before) \in Nat
        BY <1>10
      <3> QED BY <3>4, <3>5, <3>6
    <2> QED BY <1>4, <2>1
  <1> HIDE DEF row
  <1>12. Sum(disk') <= io /\ Sum(disk') \in Nat /\ Sum(Before) <= io
    <2>1. Sum(Before) + Amount(Delta(t.prev, ctr)) <= io
      BY <1>2 DEF Covered, ctr
    <2>2. /\ Amount(Delta(t.prev, ctr)) \in Nat /\ Amount(Delta(latest, counter)) \in Nat
      BY <1>3, DeltaFacts
    <2>3. Sum(disk) + Amount(Delta(latest, counter)) <= io
      BY DEF Covered
    <2> QED BY <1>3, <1>10, <1>11, <2>1, <2>2, <2>3
  <1>13. Covered'
    <2>1. latest'.ctr = ctr
      BY <1>1
    <2>2. Amount(Delta(latest', counter)) = 0
      <3>1. CASE ctr = NoValue
        BY <1>3, <2>1, <3>1, DeltaFacts
      <3>2. CASE ctr # NoValue
        <4>1. counter \in {ctr, 0}
          BY <1>2, <3>2 DEF Measured, ctr
        <4> QED BY <1>3, <2>1, <4>1, DeltaFacts
      <3> QED BY <3>1, <3>2
    <2>3. Amount(Delta(latest', ctr)) = 0
      BY <1>3, <2>1, DeltaFacts
    <2>4. Sum(disk') + Amount(Delta(latest', counter')) <= io'
      BY <1>1, <1>12, <2>2
    <2>5. \A q \in Pending', p \in Prevs' : Sum(Before') + Amount(Delta(p, q.ctr)) <= io'
      <3> SUFFICES ASSUME NEW q \in Pending', NEW p \in Prevs'
                   PROVE  Sum(Before) + Amount(Delta(p, ctr)) <= io
        BY <1>1, <1>5, <1>9
      <3>1. CASE p \in Prevs
        BY <1>2, <3>1 DEF Covered, ctr
      <3>2. CASE p = latest'
        BY <1>10, <1>12, <2>3, <3>2
      <3> QED BY <1>6, <3>1, <3>2
    <2> QED BY <2>4, <2>5 DEF Covered
  <1>14. Complete'
    <2> SUFFICES ASSUME ~disturbed' PROVE Complete'
      BY DEF Complete
    <2>1. ~disturbed /\ minute \notin snapshots /\ minute \in snapshots'
      BY <1>1, <1>2
    <2>2. /\ \A d \in disk : d.ts \in snapshots
          /\ latest = NoLatest => disk = {} /\ first = NoValue
          /\ latest # NoLatest => /\ first \in Counters /\ latest.ctr \in Counters
                                  /\ Sum(disk) = latest.ctr - first /\ latest.ctr <= counter
          /\ ctr = counter /\ t.prev = latest
      BY <1>2, <2>1 DEF Complete, ctr
    <2>3. Before = disk
      BY <1>10, <2>1, <2>2
    <2>4. latest'.ctr = counter /\ latest' # NoLatest
      BY <1>1, <1>3, <2>2 DEF NoLatest
    <2>5. Sum(disk') = Sum(disk) + Amount(Delta(latest, counter))
      BY <1>3, <1>11, <2>2, <2>3
    <2>6. first' \in Counters /\ Sum(disk') = counter - first'
      <3>1. CASE latest = NoLatest
        <4>1. disk = {} /\ first' = counter
          BY <1>1, <2>2, <3>1
        <4>2. Amount(Delta(latest, counter)) = 0
          BY <1>3, <3>1, DeltaFacts DEF NoLatest
        <4>3. Sum(disk) = 0
          BY <1>10, <4>1, SumFacts
        <4> QED BY <1>3, <2>5, <4>1, <4>2, <4>3
      <3>2. CASE latest # NoLatest
        <4>1. first' = first /\ first \in Int /\ latest.ctr \in Int /\ latest.ctr # NoValue
          BY <1>1, <2>2, <3>2, IngestAssumption DEF Counters, NoValue
        <4>2. Amount(Delta(latest, counter)) = counter - latest.ctr
          BY <1>3, <2>2, <3>2, <4>1, DeltaFacts
        <4> QED BY <1>3, <2>2, <2>5, <3>2, <4>1, <4>2
      <3> QED BY <3>1, <3>2
    <2>7. \A d \in disk' : d.ts \in snapshots'
      <3>1. \A d \in disk' : d \in disk \/ d.ts = minute
        BY <1>4 DEF Before, row
      <3> QED BY <1>1, <2>1, <2>2, <3>1
    <2>8. \A q \in Pending' : q.ctr = counter'
      BY <1>1, <1>5, <2>2
    <2>9. latest'.ctr \in Counters /\ latest'.ctr <= counter'
      BY <1>1, <1>3, <2>4
    <2> QED BY <1>1, <2>1, <2>4, <2>6, <2>7, <2>8, <2>9 DEF Complete
  <1> QED BY <1>7, <1>8, <1>13, <1>14

\* A deletion only takes rows and readings away.
LEMMA EraseAccounts ==
    ASSUME Typed, IInv, Accounted, DeleteStep
    PROVE  Accounted'
  <1> USE DEF Accounted
  <1>1. /\ UNCHANGED <<minute, counter, io, agent, net, worker>> /\ disturbed'
        /\ disk' = disk \/ disk' = {}
        /\ latest' = latest \/ latest' = NoLatest
    BY DEF DeleteStep, machine, DeleteSnapshots, DeleteLatest, DeleteDisk, DeleteContainers,
           DeleteRig
  <1>2. Pending' = Pending
    BY <1>1 DEF Pending, Waiting, Busy
  <1>3. OneRequest' /\ Measured' /\ OnePerMinute' /\ Complete'
    BY <1>1, <1>2 DEF OneRequest, Measured, OnePerMinute, Complete
  <1>4. Prevs' \subseteq Prevs \cup {NoLatest} /\ Before' \in {Before, {}}
    BY <1>1 DEF Prevs, Before
  <1>5. /\ Sum(disk) \in Nat /\ Sum(Before) \in Nat /\ Sum(Before) <= Sum(disk)
        /\ Sum({}) = 0 /\ io \in Nat
    BY RowFacts, SumFacts, IngestAssumption DEF Typed, TypedAgent, Counters
  <1>6. /\ counter \in Counters \cup {NoValue} /\ latest \in Reading /\ NoLatest \in Reading
        /\ Amount(Delta(latest, counter)) \in Nat
        /\ \A ctr \in Counters \cup {NoValue} : Amount(Delta(NoLatest, ctr)) = 0
    <2>1. /\ counter \in Counters \cup {NoValue} /\ latest \in Reading /\ NoLatest \in Reading
          /\ NoLatest.ctr = NoValue
      BY IngestAssumption DEF Typed, TypedAgent, TypedRows, NoLatest, Reading, Minutes
    <2> QED BY <2>1, DeltaFacts
  <1>7. Sum(disk) + Amount(Delta(latest, counter)) <= io
    BY DEF Covered
  <1>8. Sum(disk') <= Sum(disk) /\ Sum(Before') <= Sum(Before) /\ Sum(disk') \in Nat
        /\ Sum(Before') \in Nat
    BY <1>1, <1>4, <1>5
  <1>9. Amount(Delta(latest', counter')) <= Amount(Delta(latest, counter))
        /\ Amount(Delta(latest', counter')) \in Nat
    BY <1>1, <1>6
  <1>10. Sum(disk') + Amount(Delta(latest', counter')) <= io'
    BY <1>1, <1>5, <1>6, <1>7, <1>8, <1>9
  <1>11. \A q \in Pending', p \in Prevs' : Sum(Before') + Amount(Delta(p, q.ctr)) <= io'
    <2> SUFFICES ASSUME NEW q \in Pending, NEW p \in Prevs \cup {NoLatest}
                 PROVE  Sum(Before') + Amount(Delta(p, q.ctr)) <= io
      BY <1>1, <1>2, <1>4
    <2>1. q.ctr \in Counters \cup {NoValue} /\ p \in Reading
      BY <1>6 DEF Pending, Prevs, Busy, Typed, TypedAgent, TypedWorkers, Handling, Request
    <2>2. Amount(Delta(p, q.ctr)) \in Nat
      BY <2>1, DeltaFacts
    <2>3. CASE p \in Prevs
      <3>1. Sum(Before) + Amount(Delta(p, q.ctr)) <= io
        BY <2>3 DEF Covered
      <3> QED BY <1>5, <1>8, <2>2, <3>1
    <2>4. CASE p = NoLatest
      BY <1>5, <1>6, <1>7, <1>8, <2>1, <2>4
    <2> QED BY <2>3, <2>4
  <1> QED BY <1>3, <1>10, <1>11 DEF Covered

LEMMA InitAccounts == Init => Accounted
  <1> SUFFICES ASSUME Init PROVE Accounted
    OBVIOUS
  <1> USE DEF Init
  <1>1. Pending = {} /\ Before = {} /\ Prevs = {NoLatest}
    BY DEF Pending, Before, Prevs, Waiting, AgentIdle, Busy, Idle
  <1>2. Sum(disk) = 0
    BY FS_EmptySet, SumFacts DEF WeighedSet
  <1>3. Amount(Delta(latest, counter)) = 0
    BY DEF Delta, NoLatest, Amount
  <1> QED BY <1>1, <1>2, <1>3 DEF Accounted, OneRequest, Measured, OnePerMinute, Covered,
             Complete, NoLatest

\* The accounts hold throughout, as long as payloads do not overlap.
THEOREM AccountsHold == Spec => [](~Overlap => Accounted)
  <1>1. IInv /\ Typed /\ (~Overlap => Accounted) /\ [Next]_vars => (~Overlap => Accounted)'
    <2> SUFFICES ASSUME IInv, Typed, ~Overlap, Accounted, [Next]_vars PROVE Accounted'
      OBVIOUS
    <2>1. CASE UNCHANGED vars
      <3>1. /\ UNCHANGED <<minute, io, counter, snapshots, disk, latest, first, disturbed>>
            /\ UNCHANGED <<agent, net, worker>>
        BY <2>1 DEF vars
      <3>2. Pending' = Pending /\ Prevs' = Prevs
        BY <3>1 DEF Pending, Prevs, Waiting, Busy
      <3> QED BY <3>1, <3>2, QuietAccounts DEF Alike
    <2>2. CASE \/ Reboot \/ Resend \/ GiveUp
               \/ \E req \in net : Lose(req) \/ Reject(req)
      <3>1. /\ UNCHANGED <<minute, io, snapshots, disk, latest, first>>
            /\ counter' = counter \/ (counter' = 0 /\ disturbed')
            /\ disturbed => disturbed'
        BY <2>2 DEF Reboot, Resend, GiveUp, Lose, Reject, machine, database, history
      <3>2. \A r \in Pending' : \E q \in Pending : Alike(r, q)
        BY <2>2, PendingKept DEF IInv, Typed
      <3>3. Prevs' \subseteq Prevs \cup {latest'}
        BY <2>2, PrevsKept DEF IInv, Next, AgentStep
      <3> QED BY <3>1, <3>2, <3>3, QuietAccounts
    <2>3. ASSUME NEW w \in Workers, WorkerStep(w), ~Commit(w) PROVE Accounted'
      <3>1. /\ UNCHANGED <<minute, io, counter, snapshots, disk, latest, first>>
            /\ disturbed => disturbed'
        BY <2>3 DEF WorkerStep, Accept, ReadPrevious, Begin, Flush, Reply, Fail, Crash,
                    machine, database, history
      <3>2. \A r \in Pending' : \E q \in Pending : Alike(r, q)
        BY <2>3, PendingKept DEF IInv, Typed
      <3>3. Prevs' \subseteq Prevs \cup {latest'}
        BY <2>3, PrevsKept DEF IInv, Next
      <3> QED BY <3>1, <3>2, <3>3, QuietAccounts
    <2> QED BY <2>1, <2>2, <2>3, CollectAccounts, CommitAccounts, EraseAccounts
            DEF Next, AgentStep
  <1>2. Init => (~Overlap => Accounted)
    BY InitAccounts
  <1> QED BY TypedAlways, <1>1, <1>2, PTL DEF Spec

\* The deltas never report more I/O than there was, and all of it unless a counter
\* or a row was disturbed.
THEOREM DeltasRight == Spec => [](~Overlap => DeltasAreRight)
  <1>1. Typed /\ (~Overlap => Accounted) => (~Overlap => DeltasAreRight)
    <2> SUFFICES ASSUME Typed, Accounted PROVE DeltasAreRight
      OBVIOUS
    <2>1. Sum(disk) \in Nat /\ io \in Nat /\ Amount(Delta(latest, counter)) \in Nat
      <3>1. /\ latest \in Reading /\ counter \in Counters \cup {NoValue} /\ io \in Nat
        BY IngestAssumption DEF Typed, TypedAgent, TypedRows, Counters
      <3> QED BY <3>1, RowFacts, DeltaFacts DEF Typed, Accounted
    <2>2. Sum(disk) <= io
      BY <2>1 DEF Accounted, Covered
    <2> QED BY <2>2, ReportedIsSum DEF DeltasAreRight, NeverOverReports, DeltasAddUp,
               Accounted, Complete
  <1> QED BY AccountsHold, TypedAlways, <1>1, PTL

-----------------------------------------------------------------------------
(***************************************************************************)
(* What is stored of each payload.                                         *)
(***************************************************************************)

\* The errors are in the history, unless it is full.
Listing(log, errors) == \A i \in DOMAIN errors : Listed(log.history, errors[i])

\* The payload p is stored, and the rows that workers have read and will write
\* back hold it, too, unless they are of the same payload.
Kept(p) ==
    /\ Listing(rig.errors, p.content.errors)
    /\ latest.ts = p.ts => rig.latestErrors = p.content.errors
    /\ p.ts = minute => latest.ts = minute
    /\ p.ts < minute => \A w \in Workers :
         Handling(w) => Listing(worker[w].row.errors, p.content.errors)

\* What was acknowledged, or will be, after the last statement of a deletion.
Recorded ==
    /\ \A p \in acked, q \in Pending : p.ts = q.ts => p.content = q.content
    /\ ~rig.present => /\ \A p \in acked : ~(p.ts > erased)
                       /\ \A w \in Workers : worker[w].pc \in {"flush", "reply"}
                                               => ~(worker[w].req.ts > erased)
    /\ \A p \in acked : p.ts > erased => Kept(p)
    /\ \A w \in Workers : worker[w].req.ts > erased =>
         /\ worker[w].pc = "reply" => Kept(worker[w].req)
         /\ worker[w].pc = "flush" => latest.ts = minute

LEMMA InitRecorded == Init => Recorded
  BY DEF Init, Recorded, Idle

\* Steps of the agent and the network change no row.
LEMMA MoveRecords ==
    ASSUME IInv, Typed, Recorded,
           \/ Reboot \/ Resend \/ GiveUp
           \/ \E req \in net : Lose(req) \/ Reject(req)
    PROVE  Recorded'
  <1>1. UNCHANGED <<minute, worker, rig, latest, acked, erased>>
    BY DEF Reboot, Resend, GiveUp, Lose, Reject, machine, database, history
  <1>2. \A r \in Pending' : \E q \in Pending : Alike(r, q)
    BY PendingKept DEF IInv, Typed
  <1>3. \A p : Kept(p) => Kept(p)'
    BY <1>1 DEF Kept, Handling
  <1>4. \A p \in acked', r \in Pending' : p.ts = r.ts => p.content = r.content
    BY <1>1, <1>2 DEF Recorded, Alike
  <1> QED BY <1>1, <1>3, <1>4 DEF Recorded

\* Nothing is under way when a payload is built, and it is the newest.
LEMMA CollectRecords ==
    ASSUME IInv, Typed, Recorded, ~Overlap,
           NEW c \in Contents, NEW d \in 0 .. MaxIO, NEW missing \in BOOLEAN,
           Collect(c, d, missing)
    PROVE  Recorded'
  <1>1. /\ minute' = minute + 1 /\ agent'.ts = minute' /\ net = {} /\ net' = {agent'}
        /\ \A w \in Workers : worker[w].pc = "idle"
        /\ UNCHANGED <<worker, rig, latest, acked, erased>>
    BY DEF Collect, database, Busy
  <1>2. minute \in Nat /\ \A p \in acked : p.ts \in 0 .. minute
    BY DEF IInv, Acknowledged, Shaped
  <1>3. \A r \in Pending' : r.ts = minute'
    <2>1. Busy' = {}
      BY <1>1 DEF Busy
    <2> QED BY <1>1, <2>1 DEF Pending
  <1>4. \A p \in acked : p.ts # minute'
    BY <1>1, <1>2
  <1>5. ASSUME NEW p \in acked, Kept(p) PROVE Kept(p)'
    BY <1>1, <1>4, <1>5 DEF Kept, Handling
  <1>6. \A p \in acked', r \in Pending' : p.ts = r.ts => p.content = r.content
    BY <1>1, <1>3, <1>4
  <1> QED BY <1>1, <1>5, <1>6 DEF Recorded

\* Reading, answering and ending writes nothing of the payload; a rig that is
\* created had nothing stored.
LEMMA WorkRecords ==
    ASSUME IInv, Typed, Recorded, OneRequest, NEW w \in Workers,
           WorkerStep(w), ~Commit(w), ~Flush(w)
    PROVE  Recorded'
  <1>1. /\ UNCHANGED <<minute, latest, erased>>
        /\ rig' = rig \/ (~rig.present /\ rig' = NewRig)
    BY DEF WorkerStep, Accept, ReadPrevious, Begin, Reply, Fail, Crash, machine, database, history
  <1>2. /\ \A v \in Workers : v # w => worker'[v] = worker[v]
        /\ worker'[w].pc \in {"idle", "read", "begin", "txn"}
        /\ Handling(w)' => GoesOn(w) \/ worker'[w].row = rig'
    <2>1. \A v \in Workers : v # w => worker'[v] = worker[v]
      BY WorkerAfter DEF IInv
    <2>2. CASE \E req \in net : Accept(w, req)
      BY <2>1, <2>2, WorkerAfter DEF IInv
    <2>3. CASE ReadPrevious(w) \/ Begin(w)
      BY <2>1, <2>3, WorkerAfter DEF IInv
    <2>4. CASE Reply(w) \/ Fail(w) \/ Crash(w)
      <3>1. worker'[w] = Idle
        BY <2>4, WorkerAfter DEF IInv
      <3> QED BY <2>1, <3>1 DEF Idle, Handling
    <2> QED BY <2>2, <2>3, <2>4 DEF WorkerStep
  <1>3. ASSUME rig' = rig, NEW p, Kept(p) PROVE Kept(p)'
    <2>1. ASSUME NEW v \in Workers, Handling(v)', p.ts < minute
          PROVE  Listing(worker'[v].row.errors, p.content.errors)
      <3>1. CASE Handling(v) /\ worker'[v].row = worker[v].row
        BY <1>3, <2>1, <3>1 DEF Kept
      <3>2. CASE worker'[v].row = rig'
        BY <1>3, <3>2 DEF Kept
      <3> QED BY <1>2, <2>1, <3>1, <3>2 DEF GoesOn, Handling
    <2> QED BY <1>1, <1>3, <2>1 DEF Kept
  <1>4. \/ acked' = acked
        \/ /\ worker[w].pc = "reply" /\ rig' = rig
           /\ acked' = acked \cup {[ts |-> worker[w].req.ts, content |-> worker[w].req.content]}
    BY DEF WorkerStep, Accept, ReadPrevious, Begin, Reply, Fail, Crash, history, database
  <1>5. \A p \in acked' : \/ p \in acked
                          \/ /\ worker[w].pc = "reply" /\ worker[w].req \in Pending
                             /\ p.ts = worker[w].req.ts /\ p.content = worker[w].req.content
    BY <1>4 DEF Pending, Busy
  <1>6. \A p \in acked', r \in Pending' : p.ts = r.ts => p.content = r.content
    <2>1. \A r \in Pending' : \E q \in Pending : Alike(r, q)
      BY PendingKept DEF IInv, Typed
    <2> QED BY <1>5, <2>1 DEF Recorded, Alike, OneRequest
  <1>7. ASSUME NEW p \in acked', p.ts > erased PROVE rig' = rig /\ Kept(p)'
    <2>1. CASE p \in acked
      BY <1>1, <1>3, <1>7, <2>1 DEF Recorded
    <2>2. CASE p \notin acked
      <3>1. /\ worker[w].pc = "reply" /\ rig' = rig
            /\ p.ts = worker[w].req.ts /\ p.content = worker[w].req.content
        BY <1>4, <1>5, <2>2
      <3>2. Kept(worker[w].req)
        BY <1>7, <3>1 DEF Recorded
      <3>3. Kept(p)
        BY <3>1, <3>2 DEF Kept
      <3> QED BY <1>3, <3>1, <3>3
    <2> QED BY <2>1, <2>2
  <1>8. ASSUME NEW v \in Workers, worker'[v].req.ts > erased, worker'[v].pc \in {"flush", "reply"}
        PROVE  /\ worker'[v] = worker[v] /\ rig' = rig
               /\ worker'[v].pc = "reply" => Kept(worker[v].req)'
               /\ worker'[v].pc = "flush" => latest'.ts = minute'
    <2>1. worker'[v] = worker[v]
      BY <1>2, <1>8
    <2>2. rig' = rig
      BY <1>1, <1>8, <2>1 DEF Recorded
    <2>3. worker[v].pc = "reply" => Kept(worker[v].req)
      BY <1>8, <2>1 DEF Recorded
    <2>4. ASSUME worker[v].pc = "reply" PROVE Kept(worker[v].req)'
      <3>1. PICK p : p = worker[v].req
        OBVIOUS
      <3>2. Kept(p)'
        BY <1>3, <2>2, <2>3, <2>4, <3>1
      <3>3. p = worker'[v].req
        BY <2>1, <3>1
      <3> QED BY <3>2, <3>3 DEF Kept
    <2> QED BY <1>1, <1>8, <2>1, <2>2, <2>4 DEF Recorded
  <1>9. ~rig'.present => rig' = rig /\ ~rig.present
    BY <1>1 DEF NewRig
  <1>10. ~rig'.present =>
           /\ \A p \in acked' : ~(p.ts > erased)
           /\ \A v \in Workers : worker'[v].pc \in {"flush", "reply"}
                                   => ~(worker'[v].req.ts > erased)
    BY <1>2, <1>5, <1>9 DEF Recorded
  <1> QED BY <1>1, <1>6, <1>7, <1>8, <1>10 DEF Recorded

\* The commit makes the payload the newest; what is stored of the same payload
\* was the newest before.
LEMMA CommitRecords ==
    ASSUME IInv, Typed, Recorded, ~Overlap, NEW w \in Workers, Commit(w)
    PROVE  Recorded'
  <1>1. /\ UNCHANGED <<minute, rig, acked, erased>> /\ rig.present
        /\ latest'.ts = worker[w].req.ts /\ worker[w].pc = "txn"
    BY DEF Commit, machine
  <1>2. worker[w].req.ts = minute
    BY <1>1 DEF IInv, UnderWay, Handling, Dated
  <1>3. /\ \A v \in Workers : v # w => worker'[v] = worker[v]
        /\ worker'[w].pc = "flush" /\ GoesOn(w)
    BY WorkerAfter DEF IInv, WorkerStep
  <1>4. ASSUME NEW p, Kept(p) PROVE Kept(p)'
    <2>1. latest'.ts = p.ts => latest.ts = p.ts
      BY <1>1, <1>2, <1>4 DEF Kept
    <2>2. ASSUME NEW v \in Workers, Handling(v)', p.ts < minute
          PROVE  Listing(worker'[v].row.errors, p.content.errors)
      <3>1. Handling(v) /\ worker'[v].row = worker[v].row
        BY <1>3, <2>2 DEF GoesOn, Handling
      <3> QED BY <1>4, <2>2, <3>1 DEF Kept
    <2> QED BY <1>1, <1>2, <1>4, <2>1, <2>2 DEF Kept
  <1>5. \A p \in acked', r \in Pending' : p.ts = r.ts => p.content = r.content
    <2>1. \A r \in Pending' : \E q \in Pending : Alike(r, q)
      BY PendingKept DEF IInv, Typed, WorkerStep
    <2> QED BY <1>1, <2>1 DEF Recorded, Alike
  <1>6. ASSUME NEW v \in Workers, worker'[v].req.ts > erased, worker'[v].pc = "reply"
        PROVE  Kept(worker[v].req)'
    <2>1. worker'[v] = worker[v]
      BY <1>3, <1>6
    <2>2. PICK p : p = worker[v].req
      OBVIOUS
    <2>3. Kept(p)'
      BY <1>4, <1>6, <2>1, <2>2 DEF Recorded
    <2>4. p = worker'[v].req
      BY <2>1, <2>2
    <2> QED BY <2>3, <2>4 DEF Kept
  <1> QED BY <1>1, <1>2, <1>4, <1>5, <1>6 DEF Recorded

\* The second statement writes the histories from the row that was read: it has
\* all that is stored of older payloads, and gets the errors of its own.
LEMMA FlushRecords ==
    ASSUME IInv, Typed, Recorded, OneRequest, ~Overlap, NEW w \in Workers, Flush(w)
    PROVE  Recorded'
  <1> DEFINE t      == worker[w]
             errors == t.req.content.errors
  <1>1. /\ UNCHANGED <<minute, latest, acked, erased>> /\ t.pc = "flush"
        /\ ~rig.present => rig' = rig
        /\ rig.present => /\ rig'.present /\ rig'.latestErrors = errors
                          /\ rig'.errors = Appended(t.row.errors, errors)
    BY DEF Flush, machine, history
  <1>2. t.req.ts = minute /\ minute \in Nat /\ erased \in Nat
    BY <1>1 DEF IInv, UnderWay, Handling, Dated, Shaped
  <1>3. /\ \A v \in Workers : v # w => worker'[v] = worker[v]
        /\ worker'[w].pc = "reply" /\ GoesOn(w)
    BY WorkerAfter DEF IInv, WorkerStep
  <1>4. t.req \in Pending /\ errors \in Seq(Entry) /\ Rolling(t.row.errors, Entry)
    <2>1. t.req \in Request /\ InShape(t.row) /\ t.req \in Pending
      BY <1>1 DEF Typed, TypedWorkers, Handling, Pending, Busy
    <2> QED BY <2>1, ContentAssumption DEF Request, InShape
  <1>5. \A p \in acked', r \in Pending' : p.ts = r.ts => p.content = r.content
    <2>1. \A r \in Pending' : \E q \in Pending : Alike(r, q)
      BY PendingKept DEF IInv, Typed, WorkerStep
    <2> QED BY <1>1, <2>1 DEF Recorded, Alike
  <1>6. CASE ~rig.present
    <2>1. rig' = rig /\ ~(t.req.ts > erased)
      BY <1>1, <1>6 DEF Recorded
    <2>2. \A p \in acked : ~(p.ts > erased)
      BY <1>6 DEF Recorded
    <2>3. \A v \in Workers : worker'[v].pc \in {"flush", "reply"} => ~(worker'[v].req.ts > erased)
      BY <1>3, <1>6, <2>1 DEF Recorded, GoesOn
    <2> QED BY <1>1, <1>5, <2>1, <2>2, <2>3 DEF Recorded
  <1>7. CASE rig.present
    <2> DEFINE old == t.row.errors
    <2>1. /\ \A x : Listed(old.history, x) => Listed(Appended(old, errors).history, x)
          /\ \A i \in DOMAIN errors : Listed(Appended(old, errors).history, errors[i])
      <3> HIDE DEF old, errors
      <3> QED BY <1>4, AppendedFacts DEF old
    <2>2. /\ \A p : Listing(old, p.content.errors) => Listing(rig'.errors, p.content.errors)
          /\ Listing(rig'.errors, errors)
      BY <1>1, <1>7, <2>1 DEF Listing
    <2>3. ASSUME NEW p, p.ts = minute, p.content = t.req.content, t.req.ts > erased
          PROVE  Kept(p)'
      <3>1. latest.ts = minute
        BY <1>1, <2>3 DEF Recorded
      <3> QED BY <1>1, <1>2, <1>7, <2>2, <2>3, <3>1 DEF Kept
    <2>4. ASSUME NEW p, p.ts \in 0 .. minute, p.ts > erased, Kept(p),
                 p.ts = minute => p.content = t.req.content
          PROVE  Kept(p)'
      <3>1. t.req.ts > erased
        BY <1>2, <2>4
      <3>2. CASE p.ts = minute
        BY <2>3, <2>4, <3>1, <3>2
      <3>3. CASE p.ts # minute
        <4>1. p.ts < minute /\ latest.ts = minute
          BY <1>1, <1>2, <2>4, <3>1, <3>3 DEF Recorded
        <4>2. Listing(old, p.content.errors)
          BY <1>1, <2>4, <4>1 DEF Kept, Handling
        <4>3. ASSUME NEW v \in Workers, Handling(v)'
              PROVE  Listing(worker'[v].row.errors, p.content.errors)
          <5>1. Handling(v) /\ worker'[v].row = worker[v].row
            BY <1>3, <4>3 DEF GoesOn, Handling
          <5> QED BY <2>4, <4>1, <5>1 DEF Kept
        <4>4. Listing(rig'.errors, p.content.errors)
          BY <2>2, <4>2
        <4> QED BY <1>1, <3>3, <4>1, <4>3, <4>4 DEF Kept
      <3> QED BY <3>2, <3>3
    <2>5. ASSUME NEW p \in acked, p.ts > erased PROVE Kept(p)'
      <3>1. p.ts \in 0 .. minute
        BY DEF IInv, Acknowledged
      <3>2. p.ts = minute => p.content = t.req.content
        BY <1>2, <1>4 DEF Recorded
      <3> QED BY <2>4, <2>5, <3>1, <3>2 DEF Recorded
    <2>6. ASSUME NEW v \in Workers, worker'[v].req.ts > erased, worker'[v].pc = "reply"
          PROVE  Kept(worker[v].req)'
      <3>1. worker'[v].req = worker[v].req /\ Handling(v)
        BY <1>3, <2>6 DEF GoesOn, Handling
      <3>2. PICK p : p = worker[v].req
        OBVIOUS
      <3>3. p.ts = minute /\ p.content = t.req.content
        <4>1. p \in Pending
          BY <3>1, <3>2 DEF Pending, Busy, Handling
        <4> QED BY <1>2, <1>4, <4>1 DEF OneRequest, Alike
      <3>4. Kept(p)'
        BY <1>2, <2>3, <2>6, <3>1, <3>2, <3>3
      <3> QED BY <3>1, <3>2, <3>4 DEF Kept
    <2>7. ASSUME NEW v \in Workers, worker'[v].req.ts > erased, worker'[v].pc = "flush"
          PROVE  latest'.ts = minute'
      BY <1>1, <1>3, <2>7 DEF Recorded
    <2> QED BY <1>1, <1>5, <1>7, <2>5, <2>6, <2>7 DEF Recorded
  <1> QED BY <1>6, <1>7

\* A statement of a deletion makes all that was built so far forgotten.
LEMMA EraseRecords ==
    ASSUME IInv, Typed, Recorded, DeleteStep
    PROVE  Recorded'
  <1>1. UNCHANGED <<minute, agent, net, worker, acked>> /\ erased' = minute
    BY DEF DeleteStep, machine
  <1>2. /\ minute \in Nat /\ \A p \in acked : p.ts \in 0 .. minute
        /\ \A w \in Workers : Handling(w) => worker[w].req.ts \in 0 .. minute
    BY DEF IInv, Acknowledged, Shaped, UnderWay, Dated
  <1>3. \A p \in acked : ~(p.ts > erased')
    BY <1>1, <1>2
  <1>4. \A w \in Workers : Handling(w) => ~(worker[w].req.ts > erased')
    BY <1>1, <1>2
  <1>5. Pending' = Pending
    BY <1>1 DEF Pending, Waiting, Busy
  <1> QED BY <1>1, <1>3, <1>4, <1>5 DEF Recorded, Handling

\* What was acknowledged stays recorded, as long as payloads do not overlap.
THEOREM RecordsHold == Spec => [](~Overlap => Recorded)
  <1>1. IInv /\ Typed /\ (~Overlap => Accounted) /\ (~Overlap => Recorded) /\ [Next]_vars
          => (~Overlap => Recorded)'
    <2> SUFFICES ASSUME IInv, Typed, ~Overlap, OneRequest, Recorded, [Next]_vars
                 PROVE  Recorded'
      BY DEF Accounted
    <2>1. CASE UNCHANGED vars
      <3>1. UNCHANGED <<minute, agent, net, worker, rig, latest, acked, erased>>
        BY <2>1 DEF vars
      <3>2. Pending' = Pending
        BY <3>1 DEF Pending, Waiting, Busy
      <3> QED BY <3>1, <3>2 DEF Recorded, Kept, Handling
    <2>2. ASSUME NEW w \in Workers, WorkerStep(w) PROVE Recorded'
      BY <2>2, WorkRecords, CommitRecords, FlushRecords
    <2> QED BY <2>1, <2>2, MoveRecords, CollectRecords, EraseRecords DEF Next, AgentStep
  <1>2. Init => (~Overlap => Recorded)
    BY InitRecorded
  <1> QED BY TypedAlways, AccountsHold, <1>1, <1>2, PTL DEF Spec

\* What was acknowledged is stored until the rig is deleted, also after crashes
\* between the two commits, and nothing is in a history twice within the window.
THEOREM StoredOnceAlways == Spec => [](~Overlap => StoredOnce)
  <1>1. IInv /\ (~Overlap => Recorded) => (~Overlap => AckedIsStored)
    BY DEF IInv, Acknowledged, Recorded, Kept, Listing, Listed, AckedIsStored
  <1> QED BY Invariance, RecordsHold, HistoriesDeduplicated, <1>1, PTL DEF StoredOnce
===============================================================================

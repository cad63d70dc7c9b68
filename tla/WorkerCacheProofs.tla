--------------------------- MODULE WorkerCacheProofs ---------------------------
(***************************************************************************)
(* Proofs about WorkerCache, for all times to live and all bounds that      *)
(* satisfy CacheAssumption.                                                 *)
(*                                                                          *)
(* The three properties speak of entries; an entry is what a request made   *)
(* of a read some steps earlier, so each is strengthened by what must hold  *)
(* of a read that is not yet stored, and of the entries while the worker is *)
(* between dropping them and committing.                                    *)
(***************************************************************************)
EXTENDS WorkerCache, TLAPS

Live(key)    == cache[key].left > 0
OwnOf(key)   == IF key[1] = "light" THEN own.rig ELSE own.data
IsChart(key) == key[1] = "chart"

\* The time an entry may still live and the time it has been late for add up.
Bounded ==
    /\ \A key \in Key : Live(key) =>
         cache[key].late + cache[key].left <= Ttl(key) + MaxRequest
    /\ request.pc = "fill" => request.late <= request.took

\* What is read or cached is not older than what this process wrote, but for
\* the rig row between an edit and its invalidation.
PlainFresh ==
    /\ own.rig <= rig /\ own.data <= data
    /\ request.pc = "fill" => request.n >= OwnOf(request.key)
    /\ request.pc = "commit" => \A key \in Key : ~IsChart(key) => ~Live(key)
    /\ \A key \in Key : ~IsChart(key) /\ Live(key) =>
         cache[key].n >= OwnOf(key) \/ (key[1] = "light" /\ request.pc = "invalidate")

\* Charts that belong to the present counter have a version up to its own,
\* a smaller one while a heartbeat is not yet committed.
ChartsFresh ==
    /\ request.pc = "fill" /\ IsChart(request.key) /\ ~request.old =>
         request.key[2] = Version
    /\ \A key \in Key : IsChart(key) /\ Live(key) /\ ~cache[key].old =>
         /\ key[2] <= Version
         /\ request.pc = "commit" => key[2] < Version
         /\ key[2] = Version => cache[key].n >= own.data

IInv == TypeOK /\ Bounded /\ PlainFresh /\ ChartsFresh

-----------------------------------------------------------------------------
\* What a key is.
LEMMA KeyFacts ==
    /\ \A key \in Key : /\ key[1] \in {"light", "snap", "report", "chart"}
                        /\ key[2] \in 0 .. MaxBumps
    /\ <<"light", 0>> \in Key /\ <<"light", 0>>[1] = "light"
  BY CacheAssumption DEF Key

\* An entry is stored with a positive time to live.
LEMMA TtlFacts == \A key \in Key : Ttl(key) \in Nat \ {0}
  BY KeyFacts, CacheAssumption DEF Ttl

\* What the records that stand for nothing are.
LEMMA NothingFacts ==
    /\ None \in Entry /\ None.left = 0
    /\ Idle \in Request /\ Idle.pc = "idle"
    /\ NoCounter \in Counter /\ NoCounter.left = 0
    /\ Empty \in [Key -> Entry] /\ \A key \in Key : Empty[key] = None
  <1>1. None \in Entry /\ None.left = 0
    BY CacheAssumption DEF None, Entry
  <1>2. Idle \in Request /\ Idle.pc = "idle"
    BY KeyFacts, CacheAssumption DEF Idle, Request
  <1>3. NoCounter \in Counter /\ NoCounter.left = 0
    BY CacheAssumption DEF NoCounter, Counter
  <1>4. Empty \in [Key -> Entry] /\ \A key \in Key : Empty[key] = None
    BY <1>1 DEF Empty
  <1> QED BY <1>1, <1>2, <1>3, <1>4

\* A heartbeat leaves a live counter of one to MaxBumps.
LEMMA BumpedFacts ==
    ASSUME TypeOK, counter.left > 0 => counter.n < MaxBumps
    PROVE  /\ Bumped(counter) \in Counter
           /\ Bumped(counter).left > 0
           /\ Bumped(counter).n = Version + 1
  BY CacheAssumption DEF TypeOK, Counter, Bumped, Version

\* What a tick makes of the entries.
LEMMA LaterFacts ==
    ASSUME TypeOK, NEW key \in Key, NEW e \in Entry
    PROVE  /\ Aged(key, e) \in Entry
           /\ Aged(key, e).left > 0 => /\ e.left > 0
                                       /\ Aged(key, e).left = e.left - 1
                                       /\ Aged(key, e).n = e.n
                                       /\ Aged(key, e).old = e.old
                                       /\ Aged(key, e).late <= e.late + 1
  <1>1. Source(key) \in Int
    BY DEF Source, TypeOK
  <1>2. CASE e.left <= 1
    BY <1>2, NothingFacts DEF Aged
  <1>3. CASE ~(e.left <= 1)
    <2>1. e.left - 1 \in Nat /\ e.left - 1 > 0
      BY <1>3 DEF Entry
    <2>2. Aged(key, e) = [e EXCEPT !.left = e.left - 1,
                            !.late = IF e.n < Source(key) THEN e.late + 1 ELSE e.late]
      BY <1>3 DEF Aged
    <2>3. PICK late \in Nat : /\ late <= e.late + 1
                              /\ late = IF e.n < Source(key) THEN e.late + 1 ELSE e.late
      BY DEF Entry
    <2>4. Aged(key, e) = [e EXCEPT !.left = e.left - 1, !.late = late]
      BY <2>2, <2>3
    <2>5. /\ Aged(key, e) \in Entry /\ Aged(key, e).left = e.left - 1
          /\ Aged(key, e).n = e.n /\ Aged(key, e).late = late
      BY <2>1, <2>3, <2>4 DEF Entry
    <2>6. Aged(key, e).old = e.old
      BY <2>4 DEF Entry
    <2> QED BY <1>3, <2>3, <2>5, <2>6 DEF Entry
  <1> QED BY <1>2, <1>3

\* Losing the counter changes no entry but for its mark.
LEMMA OrphanedFacts ==
    ASSUME NEW entries \in [Key -> Entry]
    PROVE  /\ Orphaned(entries) \in [Key -> Entry]
           /\ \A key \in Key : /\ Orphaned(entries)[key].left = entries[key].left
                               /\ Orphaned(entries)[key].n = entries[key].n
                               /\ Orphaned(entries)[key].late = entries[key].late
                               /\ IsChart(key) /\ entries[key].left > 0 =>
                                    Orphaned(entries)[key].old
  BY DEF Orphaned, Entry, IsChart

\* Dropping entries.
LEMMA WithoutFacts ==
    ASSUME NEW kinds, TypeOK
    PROVE  /\ Without(cache, kinds) \in [Key -> Entry]
           /\ \A key \in Key : /\ key[1] \in kinds => Without(cache, kinds)[key] = None
                               /\ key[1] \notin kinds =>
                                    Without(cache, kinds)[key] = cache[key]
  BY NothingFacts DEF Without, TypeOK

\* What a tick makes of the cache as a whole.
LEMMA TickFacts ==
    ASSUME TypeOK, Tick
    PROVE  /\ cache' \in [Key -> Entry]
           /\ \A key \in Key :
                cache'[key].left > 0 =>
                  /\ cache[key].left > 0 /\ cache'[key].left = cache[key].left - 1
                  /\ cache'[key].n = cache[key].n
                  /\ cache'[key].late <= cache[key].late + 1
                  /\ IsChart(key) /\ ~cache'[key].old =>
                       ~cache[key].old /\ counter.left # 1
  <1>1. \A key \in Key : cache[key] \in Entry
    BY DEF TypeOK
  <1>2. Later \in [Key -> Entry] /\ \A key \in Key : Later[key] = Aged(key, cache[key])
    BY <1>1, LaterFacts DEF Later
  <1>3. \A key \in Key :
          Later[key].left > 0 =>
            /\ cache[key].left > 0 /\ Later[key].left = cache[key].left - 1
            /\ Later[key].n = cache[key].n
            /\ Later[key].late <= cache[key].late + 1
            /\ Later[key].old = cache[key].old
    BY <1>1, <1>2, LaterFacts
  <1>4. CASE counter.left = 1
    <2>1. cache' = Orphaned(Later)
      BY <1>4 DEF Tick
    <2> QED BY <1>2, <1>3, <2>1, OrphanedFacts
  <1>5. CASE counter.left # 1
    <2>1. cache' = Later
      BY <1>5 DEF Tick
    <2> QED BY <1>2, <1>3, <1>5, <2>1
  <1> QED BY <1>4, <1>5

\* What a tick makes of the counter and the request.
LEMMA TickRequest ==
    ASSUME TypeOK, Tick
    PROVE  /\ counter' \in Counter /\ request' \in Request
           /\ request'.pc = request.pc /\ request'.key = request.key
           /\ request'.n = request.n
           /\ request.pc = "fill" =>
                /\ request'.took = request.took + 1
                /\ request'.late <= request.late + 1
           /\ IsChart(request.key) /\ ~request'.old =>
                ~request.old /\ counter.left # 1
           /\ counter.left # 1 => Version' = Version
           /\ counter.left = 1 => Version' = 0
  <1>1. counter' \in Counter
    BY CacheAssumption DEF Tick, TypeOK, Counter, NoCounter
  <1>2. /\ counter.left # 1 => Version' = Version
        /\ counter.left = 1 => Version' = 0
    BY CacheAssumption DEF Tick, TypeOK, Counter, NoCounter, Version
  <1>3. PICK late \in Nat : /\ late <= request.late + 1
                            /\ late = IF request.pc = "fill" /\ request.n < Source(request.key)
                                      THEN request.late + 1 ELSE request.late
    BY DEF TypeOK, Request
  <1>4. /\ LaterRequest \in Request
        /\ LaterRequest.pc = request.pc /\ LaterRequest.key = request.key
        /\ LaterRequest.n = request.n /\ LaterRequest.old = request.old
        /\ request.pc = "fill" => /\ LaterRequest.took = request.took + 1
                                  /\ LaterRequest.late <= request.late + 1
    <2>1. CASE request.pc = "idle"
      BY <2>1 DEF LaterRequest, TypeOK
    <2>2. CASE request.pc # "idle"
      <3>1. LaterRequest = [request EXCEPT !.took = request.took + 1, !.late = late]
        BY <1>3, <2>2 DEF LaterRequest
      <3>2. request.took + 1 \in 0 .. MaxRequest
        BY <2>2, CacheAssumption DEF Tick, TypeOK, Request
      <3>3. /\ LaterRequest \in Request
            /\ LaterRequest.pc = request.pc /\ LaterRequest.key = request.key
            /\ LaterRequest.n = request.n
            /\ LaterRequest.took = request.took + 1 /\ LaterRequest.late = late
        BY <3>1, <3>2, <1>3 DEF TypeOK, Request
      <3>4. LaterRequest.old = request.old
        BY <3>1 DEF TypeOK, Request
      <3> QED BY <1>3, <3>3, <3>4
    <2> QED BY <2>1, <2>2
  <1>5. CASE counter.left = 1 /\ IsChart(request.key)
    <2>1. request' = [LaterRequest EXCEPT !.old = TRUE]
      BY <1>5 DEF Tick, IsChart
    <2>2. request' \in Request /\ request'.old
      BY <1>4, <2>1 DEF Request
    <2>3. /\ request'.pc = request.pc /\ request'.key = request.key
          /\ request'.n = request.n
          /\ request.pc = "fill" => /\ request'.took = request.took + 1
                                    /\ request'.late <= request.late + 1
      BY <1>4, <2>1 DEF Request
    <2> QED BY <1>1, <1>2, <2>2, <2>3
  <1>6. CASE ~(counter.left = 1 /\ IsChart(request.key))
    <2>1. request' = LaterRequest
      BY <1>6 DEF Tick, IsChart
    <2> QED BY <1>1, <1>2, <1>4, <1>6, <2>1
  <1> QED BY <1>5, <1>6

\* Every step keeps every variable in its type.
LEMMA TypeStep == TypeOK /\ [Next]_vars => TypeOK'
  <1> SUFFICES ASSUME TypeOK, [Next]_vars PROVE TypeOK'
    OBVIOUS
  <1>0. /\ 0 \in 0 .. MaxWrites /\ 0 \in 0 .. MaxRequest
        /\ \A key \in Key : Source(key) \in 0 .. MaxWrites
        /\ data \in 0 .. MaxWrites
    BY CacheAssumption DEF TypeOK, Source
  <1>1. ASSUME NEW key \in Key, Miss(key) PROVE TypeOK'
    <2>1. request' \in Request
      BY <1>0, <1>1, NothingFacts DEF Miss, Request
    <2> QED BY <1>1, <2>1 DEF Miss, TypeOK
  <1>2. CASE Fill
    <2>1. request.key \in Key /\ Ttl(request.key) \in Nat
      BY TtlFacts DEF TypeOK, Request
    <2>2. [n |-> request.n, left |-> Ttl(request.key),
           late |-> request.late, old |-> request.old] \in Entry
      BY <2>1 DEF TypeOK, Request, Entry
    <2>3. cache' \in [Key -> Entry]
      BY <1>2, <2>1, <2>2 DEF Fill, TypeOK
    <2> QED BY <1>2, <2>3, NothingFacts DEF Fill, TypeOK
  <1>3. CASE Heartbeat
    <2>1. request' \in Request
      BY <1>3, NothingFacts DEF Heartbeat, Request
    <2>2. cache' \in [Key -> Entry] /\ counter' \in Counter
      BY <1>3, WithoutFacts, BumpedFacts DEF Heartbeat
    <2> QED BY <1>3, <2>1, <2>2 DEF Heartbeat, TypeOK
  <1>4. CASE Commit
    <2>1. /\ rig' \in 0 .. MaxWrites /\ data' \in 0 .. rig'
          /\ data' \in 0 .. MaxWrites
      BY <1>4, CacheAssumption DEF Commit, TypeOK
    <2>2. own' \in [rig : 0 .. MaxWrites, data : 0 .. MaxWrites]
      BY <1>4, <2>1 DEF Commit
    <2> QED BY <1>4, <2>1, <2>2, NothingFacts DEF Commit, TypeOK
  <1>5. CASE Rollback
    BY <1>5, NothingFacts DEF Rollback, TypeOK
  <1>6. CASE Edit
    <2>1. request' \in Request
      BY <1>6, NothingFacts DEF Edit, Request
    <2>2. rig' \in 0 .. MaxWrites /\ data' \in 0 .. rig'
      BY <1>6, CacheAssumption DEF Edit, TypeOK
    <2>3. own' \in [rig : 0 .. MaxWrites, data : 0 .. MaxWrites]
      BY <1>6, <2>2 DEF Edit, TypeOK
    <2> QED BY <1>6, <2>1, <2>2, <2>3 DEF Edit, TypeOK
  <1>7. CASE Invalidate
    BY <1>7, WithoutFacts, NothingFacts DEF Invalidate, TypeOK
  <1>8. CASE Elsewhere
    BY <1>8, CacheAssumption DEF Elsewhere, TypeOK
  <1>9. CASE Tick
    BY <1>9, TickFacts, TickRequest DEF Tick, TypeOK
  <1>10. CASE Evict
    <2>1. cache' \in [Key -> Entry] /\ counter' \in Counter
      BY <1>10, NothingFacts, OrphanedFacts DEF Evict, TypeOK
    <2> QED BY <1>10, <2>1 DEF Evict, TypeOK
  <1>11. CASE Restart
    BY <1>0, <1>11, NothingFacts DEF Restart, TypeOK
  <1>12. CASE UNCHANGED vars
    BY <1>12 DEF vars, TypeOK
  <1> QED BY <1>1, <1>2, <1>3, <1>4, <1>5, <1>6, <1>7, <1>8, <1>9, <1>10,
             <1>11, <1>12 DEF Next

-----------------------------------------------------------------------------
\* The initial state satisfies the invariant.
LEMMA InitIInv == Init => IInv
  <1> SUFFICES ASSUME Init PROVE IInv
    OBVIOUS
  <1>1. TypeOK
    BY CacheAssumption, NothingFacts DEF Init, TypeOK
  <1>2. request.pc = "idle" /\ \A key \in Key : ~Live(key)
    BY NothingFacts DEF Init, Live
  <1>3. own.rig = 0 /\ own.data = 0 /\ rig = 0 /\ data = 0
    BY DEF Init
  <1> QED BY <1>1, <1>2, <1>3 DEF IInv, Bounded, PlainFresh, ChartsFresh

\* An entry is late for no longer than it has been in the cache and the
\* request that stored it had taken.
LEMMA BoundedStep == IInv /\ [Next]_vars => Bounded'
  <1> SUFFICES ASSUME IInv, [Next]_vars PROVE Bounded'
    OBVIOUS
  <1> USE DEF Live
  <1>0. TypeOK /\ Bounded
    BY DEF IInv
  <1>t. \A key \in Key : Ttl(key)' = Ttl(key)
    BY DEF Ttl
  <1>1. ASSUME NEW key \in Key, Miss(key) PROVE Bounded'
    <2>1. request'.late = 0 /\ request'.took = 0
      BY <1>1 DEF Miss, Idle
    <2> QED BY <1>0, <1>1, <1>t, <2>1 DEF Miss, Bounded
  <1>2. CASE Fill
    <2>1. /\ request.key \in Key /\ request.late <= request.took
          /\ request.took <= MaxRequest /\ request.late \in Nat
          /\ request.took \in Nat
      BY <1>0, <1>2, CacheAssumption DEF Fill, Bounded, TypeOK, Request
    <2>2. /\ cache'[request.key].late = request.late
          /\ cache'[request.key].left = Ttl(request.key)
          /\ \A key \in Key : key # request.key => cache'[key] = cache[key]
      BY <1>0, <1>2, <2>1 DEF Fill, TypeOK
    <2>3. request.late + Ttl(request.key) <= Ttl(request.key) + MaxRequest
      BY <2>1, TtlFacts, CacheAssumption
    <2>4. request'.pc = "idle"
      BY <1>2, NothingFacts DEF Fill
    <2> QED BY <1>0, <1>t, <2>2, <2>3, <2>4 DEF Bounded
  <1>3. CASE Heartbeat
    <2>1. request'.pc = "commit"
      BY <1>3 DEF Heartbeat, Idle
    <2>2. \A key \in Key : cache'[key].left > 0 => cache'[key] = cache[key]
      BY <1>0, <1>3, WithoutFacts, NothingFacts DEF Heartbeat
    <2> QED BY <1>0, <1>t, <2>1, <2>2 DEF Bounded
  <1>4. CASE Commit \/ Rollback
    BY <1>0, <1>4, <1>t, NothingFacts DEF Commit, Rollback, Bounded
  <1>6. CASE Edit
    <2>1. request'.pc = "invalidate"
      BY <1>6 DEF Edit, Idle
    <2> QED BY <1>0, <1>6, <1>t, <2>1 DEF Edit, Bounded
  <1>7. CASE Invalidate
    <2>1. \A key \in Key : cache'[key].left > 0 => cache'[key] = cache[key]
      BY <1>0, <1>7, WithoutFacts, NothingFacts DEF Invalidate
    <2> QED BY <1>0, <1>7, <1>t, <2>1, NothingFacts DEF Invalidate, Bounded
  <1>8. CASE Elsewhere
    BY <1>0, <1>8, <1>t DEF Elsewhere, Bounded
  <1>9. CASE Tick
    <2>1. ASSUME NEW key \in Key, cache'[key].left > 0
          PROVE  cache'[key].late + cache'[key].left <= Ttl(key) + MaxRequest
      <3>1. cache[key] \in Entry /\ cache'[key] \in Entry
        BY <1>0, <1>9, TickFacts DEF TypeOK
      <3>2. /\ cache[key].late + cache[key].left <= Ttl(key) + MaxRequest
            /\ cache'[key].left = cache[key].left - 1
            /\ cache'[key].late <= cache[key].late + 1
        BY <1>0, <1>9, <2>1, TickFacts DEF Bounded
      <3> QED BY <3>1, <3>2, TtlFacts, CacheAssumption DEF Entry
    <2>2. request'.pc = "fill" => request'.late <= request'.took
      <3>1. request \in Request /\ request' \in Request
        BY <1>0, <1>9, TickRequest DEF TypeOK
      <3> QED BY <1>0, <1>9, <3>1, TickRequest DEF Bounded, Request
    <2> QED BY <1>t, <2>1, <2>2 DEF Bounded
  <1>10. CASE Evict
    <2>1. \A key \in Key : cache'[key].left > 0 =>
            cache'[key].left = cache[key].left /\ cache'[key].late = cache[key].late
      BY <1>0, <1>10, NothingFacts, OrphanedFacts DEF Evict, TypeOK
    <2> QED BY <1>0, <1>10, <1>t, <2>1 DEF Evict, Bounded
  <1>11. CASE Restart
    BY <1>11, NothingFacts DEF Restart, Bounded
  <1>12. CASE UNCHANGED vars
    BY <1>0, <1>12, <1>t DEF vars, Bounded
  <1> QED BY <1>1, <1>2, <1>3, <1>4, <1>6, <1>7, <1>8, <1>9, <1>10,
             <1>11, <1>12 DEF Next

\* A worker drops what it is about to make old before it commits it, or just
\* after an edit, and reads nothing in between.
LEMMA PlainStep == IInv /\ [Next]_vars => PlainFresh'
  <1> SUFFICES ASSUME IInv, [Next]_vars PROVE PlainFresh'
    OBVIOUS
  <1> USE DEF Live
  <1>0. TypeOK /\ PlainFresh
    BY DEF IInv
  <1>t. /\ rig \in Int /\ data \in Int /\ own.rig \in Int /\ own.data \in Int
        /\ request \in Request /\ request.key \in Key
        /\ \A key \in Key : cache[key] \in Entry /\ cache[key].n \in Int
    BY <1>0 DEF TypeOK, Entry, Request
  <1>o. ASSUME own' = own PROVE \A key \in Key : OwnOf(key)' = OwnOf(key)
    BY <1>o DEF OwnOf
  <1>1. ASSUME NEW key \in Key, Miss(key) PROVE PlainFresh'
    <2>1. /\ request'.pc = "fill" /\ request'.key = key /\ request'.n = Source(key)
          /\ own' = own /\ cache' = cache /\ rig' = rig /\ data' = data
          /\ request.pc = "idle"
      BY <1>1, <1>t DEF Miss, Idle
    <2>2. Source(key) >= OwnOf(key)
      BY <1>0, <1>t DEF Source, OwnOf, PlainFresh
    <2> QED BY <1>0, <1>o, <2>1, <2>2 DEF PlainFresh
  <1>2. CASE Fill
    <2>1. /\ request.key \in Key /\ request.n >= OwnOf(request.key)
          /\ request'.pc = "idle" /\ request.pc = "fill"
          /\ own' = own /\ rig' = rig /\ data' = data
      BY <1>0, <1>2, <1>t, NothingFacts DEF Fill, PlainFresh, Request
    <2>2. /\ cache'[request.key].n = request.n
          /\ \A key \in Key : key # request.key => cache'[key] = cache[key]
      BY <1>0, <1>2, <2>1 DEF Fill, TypeOK
    <2> QED BY <1>0, <1>o, <2>1, <2>2 DEF PlainFresh
  <1>3. CASE Heartbeat
    <2>1. /\ request'.pc = "commit" /\ own' = own /\ rig' = rig /\ data' = data
          /\ cache' = Without(cache, Dropped)
      BY <1>3 DEF Heartbeat, Idle
    <2>2. \A key \in Key : ~IsChart(key) => cache'[key].left = 0
      BY <1>0, <2>1, KeyFacts, WithoutFacts, NothingFacts DEF Dropped, IsChart
    <2> QED BY <1>0, <2>1, <2>2 DEF PlainFresh
  <1>4. CASE Commit
    <2>1. /\ request'.pc = "idle" /\ request.pc = "commit" /\ cache' = cache
          /\ own'.rig = rig' /\ own'.data = data'
          /\ rig' \in Int /\ data' \in Int
      BY <1>4, <1>t, NothingFacts DEF Commit
    <2> QED BY <1>0, <2>1 DEF PlainFresh
  <1>5. CASE Rollback
    <2>1. /\ request'.pc = "idle" /\ own' = own /\ rig' = rig /\ data' = data
          /\ request.pc = "commit" /\ cache' = cache
      BY <1>5, NothingFacts DEF Rollback
    <2> QED BY <1>0, <1>o, <2>1 DEF PlainFresh
  <1>6. CASE Edit
    <2>1. /\ request'.pc = "invalidate" /\ request.pc = "idle" /\ cache' = cache
          /\ rig' = rig + 1 /\ data' = data
      BY <1>6 DEF Edit, Idle
    <2>2. own'.rig = rig' /\ own'.data = own.data
      BY <1>0, <1>6 DEF Edit, TypeOK
    <2>3. \A key \in Key : key[1] # "light" => OwnOf(key)' = OwnOf(key)
      BY <2>2 DEF OwnOf
    <2> QED BY <1>0, <1>t, <2>1, <2>2, <2>3 DEF PlainFresh
  <1>7. CASE Invalidate
    <2>1. /\ request'.pc = "idle" /\ own' = own /\ rig' = rig /\ data' = data
          /\ cache' = Without(cache, Edited)
      BY <1>7, NothingFacts DEF Invalidate
    <2>2. \A key \in Key : cache'[key].left > 0 =>
            key[1] # "light" /\ cache'[key] = cache[key]
      BY <1>0, <2>1, WithoutFacts, NothingFacts DEF Edited
    <2>3. ASSUME NEW key \in Key, ~IsChart(key), cache'[key].left > 0
          PROVE  cache'[key].n >= OwnOf(key)
      <3>1. key[1] # "light" /\ cache'[key] = cache[key] /\ cache[key].left > 0
        BY <2>2, <2>3
      <3>2. cache[key].n >= OwnOf(key)
        BY <1>0, <2>3, <3>1 DEF PlainFresh
      <3> QED BY <3>1, <3>2
    <2>4. \A key \in Key : OwnOf(key)' = OwnOf(key)
      BY <1>o, <2>1
    <2> QED BY <1>0, <2>1, <2>3, <2>4 DEF PlainFresh
  <1>8. CASE Elsewhere
    <2>1. /\ own' = own /\ cache' = cache /\ request' = request
          /\ rig <= rig' /\ data <= data' /\ rig' \in Int /\ data' \in Int
      BY <1>8, <1>t DEF Elsewhere
    <2>2. own'.rig <= rig' /\ own'.data <= data'
      BY <1>0, <1>t, <2>1 DEF PlainFresh
    <2>3. \A key \in Key : OwnOf(key)' = OwnOf(key)
      BY <1>o, <2>1
    <2> QED BY <1>0, <1>t, <2>1, <2>2, <2>3 DEF PlainFresh
  <1>9. CASE Tick
    <2>1. /\ own' = own /\ rig' = rig /\ data' = data
          /\ request'.pc = request.pc /\ request'.key = request.key
          /\ request'.n = request.n /\ request.key \in Key
      BY <1>0, <1>9, <1>t, TickRequest DEF Tick, Request
    <2>2. \A key \in Key : cache'[key].left > 0 =>
            cache[key].left > 0 /\ cache'[key].n = cache[key].n
      BY <1>0, <1>9, TickFacts
    <2> QED BY <1>0, <1>o, <2>1, <2>2 DEF PlainFresh
  <1>10. CASE Evict
    <2>1. \A key \in Key : cache'[key].left > 0 =>
            cache[key].left > 0 /\ cache'[key].n = cache[key].n
      BY <1>0, <1>10, NothingFacts, OrphanedFacts DEF Evict, TypeOK
    <2> QED BY <1>0, <1>o, <1>10, <2>1 DEF Evict, PlainFresh
  <1>11. CASE Restart
    <2>1. /\ own'.rig = 0 /\ own'.data = 0 /\ request'.pc = "idle"
          /\ rig' = rig /\ data' = data /\ rig >= 0 /\ data >= 0
      BY <1>0, <1>11, NothingFacts, CacheAssumption DEF Restart, TypeOK
    <2>2. \A key \in Key : ~(cache'[key].left > 0)
      BY <1>11, NothingFacts DEF Restart
    <2> QED BY <2>1, <2>2 DEF PlainFresh
  <1>12. CASE UNCHANGED vars
    BY <1>0, <1>12, <1>o, <1>t DEF vars, PlainFresh
  <1> QED BY <1>1, <1>2, <1>3, <1>4, <1>5, <1>6, <1>7, <1>8, <1>9, <1>10,
             <1>11, <1>12 DEF Next

\* A heartbeat moves the counter past every chart of its time, and a counter
\* that starts anew finds only charts that are marked.
LEMMA ChartsStep == IInv /\ [Next]_vars => ChartsFresh'
  <1> SUFFICES ASSUME IInv, [Next]_vars PROVE ChartsFresh'
    OBVIOUS
  <1> USE DEF Live, IsChart
  <1>0. TypeOK /\ PlainFresh /\ ChartsFresh
    BY DEF IInv
  <1>t. /\ Version \in Nat /\ request \in Request /\ own.data \in Int /\ data \in Int
        /\ \A key \in Key : key[2] \in Nat /\ cache[key].n \in Int
    BY <1>0, KeyFacts, CacheAssumption DEF TypeOK, Entry, Version, Counter
  <1>v. ASSUME counter' = counter PROVE Version' = Version
    BY <1>v DEF Version
  <1>1. ASSUME NEW key \in Key, Miss(key) PROVE ChartsFresh'
    <2>1. /\ request'.pc = "fill" /\ request'.key = key /\ request.pc = "idle"
          /\ own' = own /\ cache' = cache /\ Version' = Version
          /\ key[1] = "chart" => key[2] = Version
      BY <1>1, <1>t, <1>v DEF Miss, Idle, Current
    <2> QED BY <1>0, <2>1 DEF ChartsFresh
  <1>2. CASE Fill
    <2>1. /\ request.key \in Key /\ request.n >= OwnOf(request.key)
          /\ request'.pc = "idle" /\ request.pc = "fill"
          /\ own' = own /\ Version' = Version
      BY <1>0, <1>2, <1>t, <1>v, NothingFacts DEF Fill, PlainFresh, Request
    <2>2. /\ cache'[request.key].n = request.n
          /\ \A key \in Key : key # request.key => cache'[key] = cache[key]
      BY <1>0, <1>2, <2>1 DEF Fill, TypeOK
    <2>3. cache'[request.key].old = request.old
      BY <1>0, <1>2, <2>1 DEF Fill, TypeOK
    <2>4. request.key[1] = "chart" => request.n >= own.data
      BY <2>1 DEF OwnOf
    <2> QED BY <1>0, <1>t, <2>1, <2>2, <2>3, <2>4 DEF ChartsFresh
  <1>3. CASE Heartbeat
    <2>1. /\ request'.pc = "commit" /\ own' = own
          /\ cache' = Without(cache, Dropped) /\ counter' = Bumped(counter)
      BY <1>3 DEF Heartbeat, Idle
    <2>2. Version' = Version + 1
      BY <1>0, <1>3, <2>1, BumpedFacts DEF Heartbeat, Version
    <2>3. \A key \in Key : cache'[key].left > 0 => cache'[key] = cache[key]
      BY <1>0, <2>1, WithoutFacts, NothingFacts
    <2> QED BY <1>0, <1>t, <2>1, <2>2, <2>3 DEF ChartsFresh
  <1>4. CASE Commit
    <2>1. /\ request'.pc = "idle" /\ request.pc = "commit" /\ cache' = cache
          /\ Version' = Version
      BY <1>4, <1>v, NothingFacts DEF Commit
    <2> QED BY <1>0, <1>t, <2>1 DEF ChartsFresh
  <1>5. CASE Rollback
    <2>1. /\ request'.pc = "idle" /\ own' = own /\ cache' = cache /\ Version' = Version
      BY <1>5, <1>v, NothingFacts DEF Rollback
    <2> QED BY <1>0, <2>1 DEF ChartsFresh
  <1>6. CASE Edit
    <2>1. /\ request'.pc = "invalidate" /\ cache' = cache /\ Version' = Version
      BY <1>6, <1>v DEF Edit, Idle
    <2>2. own'.data = own.data
      BY <1>0, <1>6 DEF Edit, TypeOK
    <2> QED BY <1>0, <2>1, <2>2 DEF ChartsFresh
  <1>7. CASE Invalidate
    <2>1. /\ request'.pc = "idle" /\ own' = own /\ Version' = Version
          /\ cache' = Without(cache, Edited)
      BY <1>7, <1>v, NothingFacts DEF Invalidate
    <2>2. \A key \in Key : cache'[key].left > 0 => cache'[key] = cache[key]
      BY <1>0, <2>1, WithoutFacts, NothingFacts
    <2> QED BY <1>0, <2>1, <2>2 DEF ChartsFresh
  <1>8. CASE Elsewhere
    BY <1>0, <1>8, <1>v DEF Elsewhere, ChartsFresh
  <1>9. CASE Tick
    <2>1. /\ own' = own
          /\ request'.pc = request.pc /\ request'.key = request.key
          /\ request.key[1] = "chart" /\ ~request'.old => ~request.old /\ Version' = Version
      BY <1>0, <1>9, TickRequest DEF Tick
    <2>2. \A key \in Key : cache'[key].left > 0 /\ key[1] = "chart" /\ ~cache'[key].old =>
            /\ cache[key].left > 0 /\ cache'[key].n = cache[key].n
            /\ ~cache[key].old /\ Version' = Version
      BY <1>0, <1>9, TickFacts, TickRequest
    <2> QED BY <1>0, <2>1, <2>2 DEF ChartsFresh
  <1>10. CASE Evict
    <2>1. own' = own /\ request' = request /\ request.pc = "idle"
      BY <1>10 DEF Evict
    <2>2. ASSUME counter' = counter,
                 NEW key \in Key, cache' = [cache EXCEPT ![key] = None]
          PROVE  ChartsFresh'
      <3>1. \A k \in Key : cache'[k].left > 0 => cache'[k] = cache[k]
        BY <1>0, <2>2, NothingFacts DEF TypeOK
      <3> QED BY <1>0, <1>v, <2>1, <2>2, <3>1 DEF ChartsFresh
    <2>3. ASSUME cache' = Orphaned(cache) PROVE ChartsFresh'
      <3>1. \A key \in Key : key[1] = "chart" /\ cache'[key].left > 0 => cache'[key].old
        BY <1>0, <2>3, OrphanedFacts DEF TypeOK
      <3> QED BY <2>1, <3>1 DEF ChartsFresh
    <2> QED BY <1>10, <2>2, <2>3 DEF Evict
  <1>11. CASE Restart
    BY <1>11, NothingFacts DEF Restart, ChartsFresh
  <1>12. CASE UNCHANGED vars
    BY <1>0, <1>12, <1>v DEF vars, ChartsFresh
  <1> QED BY <1>1, <1>2, <1>3, <1>4, <1>5, <1>6, <1>7, <1>8, <1>9, <1>10,
             <1>11, <1>12 DEF Next

-----------------------------------------------------------------------------
\* The invariant the four properties follow from.
THEOREM Inductive == Spec => []IInv
  <1>1. Init => IInv
    BY InitIInv
  <1>2. IInv /\ [Next]_vars => IInv'
    BY TypeStep, BoundedStep, PlainStep, ChartsStep DEF IInv
  <1> QED BY <1>1, <1>2, PTL DEF Spec

\* TypeOK, for all times to live and all bounds.
THEOREM TypeCorrect == Spec => []TypeOK
  <1>1. IInv => TypeOK
    BY DEF IInv
  <1> QED BY <1>1, Inductive, PTL

\* Nothing is served, and no permission decided, from an entry the database
\* has been ahead of for longer than its time to live and one request.
THEOREM StalenessBounded == Spec => []BoundedStaleness
  <1>1. IInv => BoundedStaleness
    <2> SUFFICES ASSUME IInv, NEW key \in Key, cache[key].left > 0
                 PROVE  cache[key].late <= Ttl(key) + MaxRequest
      BY DEF BoundedStaleness
    <2>1. cache[key].late + cache[key].left <= Ttl(key) + MaxRequest
      BY DEF IInv, Bounded, Live
    <2>2. cache[key] \in Entry
      BY DEF IInv, TypeOK
    <2> QED BY <2>1, <2>2, TtlFacts, CacheAssumption DEF Entry
  <1> QED BY <1>1, Inductive, PTL

\* A worker that has answered a heartbeat or an edit shows nothing older.
THEOREM OwnWritesShown == Spec => []OwnWritesSeen
  <1>1. IInv => OwnWritesSeen
    BY DEF IInv, PlainFresh, OwnWritesSeen, Live, IsChart, OwnOf
  <1> QED BY <1>1, Inductive, PTL

\* Nor in a chart, while the counter of the charts is not lost.
THEOREM ChartsCurrent == Spec => []ChartsFollowCounter
  <1>1. IInv => ChartsFollowCounter
    BY DEF IInv, ChartsFresh, ChartsFollowCounter, Live, IsChart, Current
  <1> QED BY <1>1, Inductive, PTL

===============================================================================

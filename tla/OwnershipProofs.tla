--------------------------- MODULE OwnershipProofs ---------------------------
(***************************************************************************)
(* Proofs about Ownership, for all sets of users, keys, rigs and workers.   *)
(*                                                                          *)
(* The properties speak of what is written; the invariant adds what each    *)
(* worker has in hand between its read and its write: whoever holds a key   *)
(* that is not raced acts for the user of that key.                         *)
(***************************************************************************)
EXTENDS Ownership, TLAPS

\* What a request of each kind carries.
Shape ==
    \A w \in Workers :
      LET q == request[w] IN
      /\ q.pc \in {"find", "create", "store", "adopt", "drop"} => q.rig \in Rigs
      /\ q.pc \in {"find", "create", "store", "adopt", "revoke", "reactivate",
                   "delete", "move"} => q.key \in Keys
      /\ q.key # NoKey \/ q.pc = "transfer" => q.user \in Users
      /\ \A k \in Keys : q.key = k \/ k \in q.todo => keys[k].state # "unused"

\* Whoever holds a key acts for its user.
Held ==
    \A w \in Workers :
      LET q == request[w] IN
      q.key \in Keys \ raced => keys[q.key].user = q.user

\* A key that is about to be deleted is revoked.
Closed ==
    \A w \in Workers :
      LET q == request[w] IN
      q.pc = "delete" /\ q.key \notin raced => keys[q.key].state # "active"

\* A report that is about to be stored is for a rig of its user.
Accepted ==
    \A w \in Workers :
      LET q == request[w] IN
      q.pc \in {"store", "adopt"} /\ q.key \notin raced => rigs[q.rig].owner = q.user

IInv == TypeOK /\ Shape /\ Held /\ Closed /\ Accepted /\ RigsFollowTheirKey

-----------------------------------------------------------------------------
\* What the worker with nothing in hand looks like.
LEMMA IdleFacts ==
    /\ Idle \in Request /\ Idle.pc = "idle" /\ Idle.todo = {}
    /\ Idle.key = NoKey /\ Idle.key \notin Keys
  BY OwnershipAssumption DEF Idle, Request, Step

\* A step of one worker leaves the requests of the others alone.
LEMMA BecomeFacts ==
    ASSUME request \in [Workers -> Request], NEW w \in Workers,
           NEW q \in Request, Become(w, q)
    PROVE  /\ request' \in [Workers -> Request]
           /\ request'[w] = q
           /\ \A v \in Workers : v # w => request'[v] = request[v]
  BY DEF Become

\* What the requests of the steps are; every other request is Idle.
LEMMA AuthenticateFacts ==
    ASSUME TypeOK, NEW w \in Workers, NEW k \in Keys, NEW r \in Rigs, Authenticate(w, k, r)
    PROVE  /\ request' \in [Workers -> Request]
           /\ \A v \in Workers : v # w => request'[v] = request[v]
           /\ request'[w].pc = "find" /\ request'[w].user = keys[k].user
           /\ request'[w].key = k /\ request'[w].rig = r /\ request'[w].todo = {}
  <1> DEFINE q == [Idle EXCEPT !.pc = "find", !.user = keys[k].user, !.key = k, !.rig = r]
  <1>1. /\ q \in Request /\ q.pc = "find" /\ q.user = keys[k].user
        /\ q.key = k /\ q.rig = r /\ q.todo = {}
    BY IdleFacts DEF Request, Step, TypeOK, Key
  <1>2. Become(w, q)
    BY DEF Authenticate
  <1> HIDE DEF q
  <1> QED BY <1>1, <1>2, BecomeFacts DEF TypeOK

\* A report goes on with the same key, rig and user, or ends.
LEMMA FindFacts ==
    ASSUME TypeOK, NEW w \in Workers, FindRig(w) \/ CreateRig(w)
    PROVE  /\ request' \in [Workers -> Request]
           /\ \A v \in Workers : v # w => request'[v] = request[v]
           /\ \/ request'[w] = Idle
              \/ /\ request'[w].key = request[w].key /\ request'[w].rig = request[w].rig
                 /\ request'[w].user = request[w].user
                 /\ request'[w].todo = request[w].todo
                 /\ request'[w].pc \in {"create", "store", "adopt"}
                 /\ request[w].pc \in {"find", "create"}
                 /\ CreateRig(w) => /\ request'[w].pc = "store" /\ request[w].pc = "create"
                                    /\ ~Present(request[w].rig) /\ Exists(request[w].key)
                                    /\ rigs' = [rigs EXCEPT ![request[w].rig] =
                                                 [owner |-> request[w].user,
                                                  key |-> request[w].key]]
                 /\ FindRig(w) /\ request'[w].pc # "create" =>
                      rigs[request[w].rig].owner = request[w].user
           /\ request'[w] = Idle => rigs' = rigs
  <1> DEFINE q == request[w]
             Next1(p) == [q EXCEPT !.pc = p]
  <1>1. \A p \in Step : /\ Next1(p) \in Request /\ Next1(p).pc = p
                        /\ Next1(p).key = q.key /\ Next1(p).rig = q.rig
                        /\ Next1(p).user = q.user /\ Next1(p).todo = q.todo
    BY DEF TypeOK, Request
  <1>2. {"create", "store", "adopt"} \subseteq Step
    BY DEF Step
  <1>3. CASE FindRig(w)
    <2>1. CASE Become(w, Idle)
      <3>1. request'[w] = Idle /\ rigs' = rigs
        BY <1>3, <2>1, IdleFacts, BecomeFacts DEF FindRig, TypeOK
      <3> QED BY <2>1, <3>1, IdleFacts, BecomeFacts DEF TypeOK
    <2>2. CASE ~Become(w, Idle)
      <3>1. PICK p \in {"create", "store", "adopt"} :
              /\ Become(w, Next1(p)) /\ q.pc = "find"
              /\ p # "create" => rigs[q.rig].owner = q.user
        BY <1>3, <2>2 DEF FindRig, Claimed
      <3>2. /\ request' \in [Workers -> Request] /\ request'[w] = Next1(p)
            /\ \A v \in Workers : v # w => request'[v] = request[v]
        <4> HIDE DEF Next1
        <4> QED BY <1>1, <1>2, <3>1, BecomeFacts DEF TypeOK
      <3>3. ~CreateRig(w) /\ rigs' = rigs
        BY <1>3, <3>1 DEF FindRig, CreateRig
      <3> HIDE DEF Next1
      <3> QED BY <1>1, <1>2, <3>1, <3>2, <3>3
    <2> QED BY <2>1, <2>2
  <1>4. CASE CreateRig(w)
    <2>1. CASE Become(w, Idle) /\ UNCHANGED rigs
      BY <2>1, IdleFacts, BecomeFacts DEF TypeOK
    <2>2. CASE /\ ~Present(q.rig) /\ Exists(q.key)
               /\ rigs' = [rigs EXCEPT ![q.rig] = [owner |-> q.user, key |-> q.key]]
               /\ Become(w, Next1("store"))
      <3>1. /\ request' \in [Workers -> Request] /\ request'[w] = Next1("store")
            /\ \A v \in Workers : v # w => request'[v] = request[v]
        <4> HIDE DEF Next1
        <4> QED BY <1>1, <1>2, <2>2, BecomeFacts DEF TypeOK
      <3>2. ~FindRig(w) /\ q.pc = "create"
        BY <1>4 DEF FindRig, CreateRig
      <3>3. request'[w].pc = "store" /\ request'[w] # Idle
        <4> HIDE DEF Next1
        <4> QED BY <1>1, <1>2, <3>1, IdleFacts
      <3> HIDE DEF Next1
      <3> QED BY <1>1, <1>2, <2>2, <3>1, <3>2, <3>3
    <2> QED BY <1>4, <2>1, <2>2 DEF CreateRig
  <1> QED BY <1>3, <1>4

\* A request that ends.
LEMMA EndFacts ==
    ASSUME TypeOK, NEW w \in Workers, Become(w, Idle)
    PROVE  /\ request' \in [Workers -> Request] /\ request'[w] = Idle
           /\ \A v \in Workers : v # w => request'[v] = request[v]
  BY IdleFacts, BecomeFacts DEF TypeOK

\* What the other requests that begin are.
LEMMA OpenKeyFacts ==
    ASSUME TypeOK, NEW w \in Workers, NEW k \in Keys,
           NEW op \in {"revoke", "reactivate", "delete"}, OpenKey(w, k, op)
    PROVE  /\ request' \in [Workers -> Request]
           /\ \A v \in Workers : v # w => request'[v] = request[v]
           /\ request'[w].pc = op /\ request'[w].user = keys[k].user
           /\ request'[w].key = k /\ request'[w].todo = {}
  <1> DEFINE q == [Idle EXCEPT !.pc = op, !.user = keys[k].user, !.key = k]
  <1>1. q \in Request /\ q.pc = op /\ q.user = keys[k].user /\ q.key = k /\ q.todo = {}
    BY IdleFacts DEF Request, Step, TypeOK, Key
  <1>2. Become(w, q)
    BY DEF OpenKey
  <1> HIDE DEF q
  <1> QED BY <1>1, <1>2, BecomeFacts DEF TypeOK

LEMMA OpenRigFacts ==
    ASSUME TypeOK, NEW w \in Workers, NEW r \in Rigs, OpenRig(w, r)
    PROVE  /\ request' \in [Workers -> Request]
           /\ \A v \in Workers : v # w => request'[v] = request[v]
           /\ request'[w].pc = "drop" /\ request'[w].rig = r
           /\ request'[w].key = NoKey /\ request'[w].todo = {}
  <1> DEFINE q == [Idle EXCEPT !.pc = "drop", !.user = rigs[r].owner, !.rig = r]
  <1>1. q \in Request /\ q.pc = "drop" /\ q.rig = r /\ q.key = NoKey /\ q.todo = {}
    BY IdleFacts DEF Request, Step, TypeOK, Rig
  <1>2. Become(w, q)
    BY DEF OpenRig
  <1> HIDE DEF q
  <1> QED BY <1>1, <1>2, BecomeFacts DEF TypeOK

LEMMA StartFacts ==
    ASSUME TypeOK, NEW w \in Workers, NEW from \in Users, NEW to \in Users,
           NEW ks \in SUBSET Keys, StartTransfer(w, from, to, ks)
    PROVE  /\ request' \in [Workers -> Request]
           /\ \A v \in Workers : v # w => request'[v] = request[v]
           /\ request'[w].pc = "transfer" /\ request'[w].user = to
           /\ request'[w].key = NoKey /\ request'[w].todo = ks
  <1> DEFINE q == [Idle EXCEPT !.pc = "transfer", !.user = to, !.todo = ks]
  <1>1. q \in Request /\ q.pc = "transfer" /\ q.user = to /\ q.key = NoKey /\ q.todo = ks
    BY IdleFacts DEF Request, Step
  <1>2. Become(w, q)
    BY DEF StartTransfer
  <1> HIDE DEF q
  <1> QED BY <1>1, <1>2, BecomeFacts DEF TypeOK

\* A transfer saves a key ...
LEMMA SaveFacts ==
    ASSUME TypeOK, NEW w \in Workers, NEW k \in Keys, SaveKey(w, k), Exists(k)
    PROVE  /\ request' \in [Workers -> Request]
           /\ \A v \in Workers : v # w => request'[v] = request[v]
           /\ request'[w].pc = "move" /\ request'[w].user = request[w].user
           /\ request'[w].key = k /\ request'[w].todo = request[w].todo \ {k}
  <1> DEFINE q == [request[w] EXCEPT !.pc = "move", !.key = k, !.todo = request[w].todo \ {k}]
  <1>1. /\ q \in Request /\ q.pc = "move" /\ q.user = request[w].user
        /\ q.key = k /\ q.todo = request[w].todo \ {k}
    BY DEF Request, Step, TypeOK
  <1>2. Become(w, q)
    BY DEF SaveKey
  <1> HIDE DEF q
  <1> QED BY <1>1, <1>2, BecomeFacts DEF TypeOK

\* ... and, once its rigs are moved, ends or goes on with the next.
LEMMA MoveFacts ==
    ASSUME TypeOK, NEW w \in Workers, MoveRigs(w)
    PROVE  /\ request' \in [Workers -> Request]
           /\ \A v \in Workers : v # w => request'[v] = request[v]
           /\ \/ request'[w] = Idle
              \/ /\ request'[w].pc = "transfer" /\ request'[w].user = request[w].user
                 /\ request'[w].key = NoKey /\ request'[w].todo = request[w].todo
  <1> DEFINE q == [request[w] EXCEPT !.pc = "transfer", !.key = NoKey]
  <1>1. /\ q \in Request /\ q.pc = "transfer" /\ q.user = request[w].user
        /\ q.key = NoKey /\ q.todo = request[w].todo
    BY DEF Request, Step, TypeOK
  <1>2. Become(w, Idle) \/ Become(w, q)
    BY DEF MoveRigs
  <1> HIDE DEF q
  <1> QED BY <1>1, <1>2, IdleFacts, BecomeFacts DEF TypeOK

-----------------------------------------------------------------------------
\* Every step keeps every variable in its type.
LEMMA TypeStep == IInv /\ [Next]_vars => TypeOK'
  <1> SUFFICES ASSUME IInv, [Next]_vars PROVE TypeOK'
    OBVIOUS
  <1>0. TypeOK /\ Shape
    BY DEF IInv
  <1> USE DEF Exists, Present
  <1>1. ASSUME NEW u \in Users, NEW k \in Keys, CreateKey(u, k) PROVE TypeOK'
    <2>1. /\ keys' \in [Keys -> Key] /\ keys'[k].user = u /\ keys'[k].state = "active"
          /\ \A x \in Keys : x # k => keys'[x] = keys[x]
      BY <1>0, <1>1 DEF CreateKey, TypeOK, Key
    <2> QED BY <1>0, <1>1, <2>1 DEF CreateKey, TypeOK, Rig
  <1>2. ASSUME NEW w \in Workers, NEW k \in Keys, NEW r \in Rigs, Authenticate(w, k, r)
        PROVE  TypeOK'
    BY <1>0, <1>2, AuthenticateFacts DEF Authenticate, TypeOK
  <1>3. ASSUME NEW w \in Workers, FindRig(w) PROVE TypeOK'
    BY <1>0, <1>3, FindFacts DEF FindRig, TypeOK
  <1>4. ASSUME NEW w \in Workers, CreateRig(w) PROVE TypeOK'
    <2>1. CASE request'[w] = Idle
      BY ZenonT(60), <1>0, <1>4, <2>1, FindFacts DEF CreateRig, TypeOK
    <2>2. CASE request'[w] # Idle
      <3>1. /\ request[w].rig \in Rigs /\ request[w].user \in Users
            /\ request[w].key \in Keys /\ Exists(request[w].key)
            /\ rigs' = [rigs EXCEPT ![request[w].rig] =
                          [owner |-> request[w].user, key |-> request[w].key]]
        BY <1>0, <1>4, <2>2, FindFacts, OwnershipAssumption DEF Shape, TypeOK
      <3>2. rigs' \in [Rigs -> Rig]
        BY <1>0, <3>1 DEF TypeOK, Rig
      <3>3. \A r \in Rigs : rigs'[r].key # NoKey =>
              rigs'[r].owner # NoUser /\ Exists(rigs'[r].key)
        BY <1>0, <3>1, OwnershipAssumption DEF TypeOK
      <3> QED BY <1>0, <1>4, <3>2, <3>3, FindFacts DEF CreateRig, TypeOK
    <2> QED BY <2>1, <2>2
  <1>5. ASSUME NEW w \in Workers, StoreHeartbeat(w) PROVE TypeOK'
    <2>1. request[w].rig \in Rigs /\ request[w].key \in Keys
      BY <1>0, <1>5 DEF Shape, StoreHeartbeat
    <2>2. /\ rigs' \in [Rigs -> Rig]
          /\ \A r \in Rigs : rigs'[r].key # NoKey =>
               rigs'[r].owner # NoUser /\ Exists(rigs'[r].key)
      BY SMTT(30), <1>0, <1>5, <2>1 DEF StoreHeartbeat, TypeOK, Rig
    <2> QED BY <1>0, <1>5, <2>2, EndFacts DEF StoreHeartbeat, TypeOK
  <1>6. ASSUME NEW w \in Workers, NEW k \in Keys,
               NEW op \in {"revoke", "reactivate", "delete"}, OpenKey(w, k, op)
        PROVE  TypeOK'
    BY <1>0, <1>6, OpenKeyFacts DEF OpenKey, TypeOK
  <1>7. ASSUME NEW w \in Workers, Revoke(w) \/ Reactivate(w) PROVE TypeOK'
    <2>1. request[w].key \in Keys
      BY <1>0, <1>7 DEF Shape, Revoke, Reactivate
    <2>2. /\ keys' \in [Keys -> Key]
          /\ \A k \in Keys : /\ keys'[k].user = keys[k].user
                             /\ Exists(k)' <=> Exists(k)
                             /\ keys'[k].state = "unused" <=> keys[k].state = "unused"
      BY <1>0, <1>7, <2>1 DEF Revoke, Reactivate, TypeOK, Key
    <2>3. raced' \subseteq Keys
      BY <1>0, <1>7, <2>1 DEF Revoke, Reactivate, TypeOK
    <2>4. Become(w, Idle) /\ rigs' = rigs
      BY <1>7 DEF Revoke, Reactivate
    <2>5. \A r \in Rigs : rigs[r].key \in Keys \cup {NoKey}
      BY <1>0 DEF TypeOK, Rig
    <2> QED BY <1>0, <2>2, <2>3, <2>4, <2>5, EndFacts DEF TypeOK
  <1>8. ASSUME NEW w \in Workers, DeleteKey(w) PROVE TypeOK'
    <2> DEFINE k == request[w].key
    <2>1. k \in Keys /\ keys[k].state # "unused"
      BY <1>0, <1>8 DEF Shape, DeleteKey
    <2>2. /\ keys' \in [Keys -> Key] /\ keys'[k].state = "deleted"
          /\ \A x \in Keys : /\ keys'[x].user = keys[x].user
                             /\ x # k => keys'[x] = keys[x]
      BY <1>0, <1>8, <2>1 DEF DeleteKey, TypeOK, Key
    <2>3. /\ rigs' \in [Rigs -> Rig]
          /\ \A r \in Rigs : /\ rigs'[r].key # k
                             /\ rigs'[r].key # NoKey => rigs'[r] = rigs[r]
      BY <1>0, <1>8, <2>1, OwnershipAssumption DEF DeleteKey, Unlinked, TypeOK, Rig
    <2>4. \A r \in Rigs : (rigs[r].key # NoKey => rigs[r].owner # NoUser /\ Exists(rigs[r].key))'
      BY <1>0, <2>2, <2>3 DEF TypeOK, Rig
    <2>5. \A x \in Keys : keys'[x].state # "unused" => keys'[x].user \in Users
      BY <1>0, <2>1, <2>2 DEF TypeOK
    <2> QED BY <1>0, <1>8, <2>2, <2>3, <2>4, <2>5, EndFacts DEF DeleteKey, TypeOK
  <1>9. ASSUME NEW w \in Workers, NEW r \in Rigs, OpenRig(w, r) PROVE TypeOK'
    BY <1>0, <1>9, OpenRigFacts DEF OpenRig, TypeOK
  <1>10. ASSUME NEW w \in Workers, DropRig(w) PROVE TypeOK'
    <2>1. /\ rigs' \in [Rigs -> Rig]
          /\ \A r \in Rigs : rigs'[r].key # NoKey =>
               rigs'[r].owner # NoUser /\ Exists(rigs'[r].key)
      BY <1>0, <1>10 DEF DropRig, NoRow, TypeOK, Rig
    <2>2. raced' \subseteq Keys
      BY <1>0, <1>10 DEF DropRig, Storing, TypeOK
    <2> QED BY <1>0, <1>10, <2>1, <2>2, EndFacts DEF DropRig, TypeOK
  <1>11. ASSUME NEW w \in Workers, NEW from \in Users, NEW to \in Users,
                NEW ks \in SUBSET Keys, StartTransfer(w, from, to, ks)
         PROVE  TypeOK'
    BY <1>0, <1>11, StartFacts DEF StartTransfer, TypeOK
  <1>12. ASSUME NEW w \in Workers, NEW k \in Keys, SaveKey(w, k) PROVE TypeOK'
    <2>1. CASE Exists(k)
      <3>1. request[w].user \in Users
        BY <1>0, <1>12 DEF Shape, SaveKey
      <3>2. /\ keys' = [keys EXCEPT ![k].user = request[w].user] /\ rigs' = rigs
            /\ raced' \subseteq Keys
        BY <1>0, <1>12, <2>1 DEF SaveKey, TypeOK
      <3>3. /\ keys' \in [Keys -> Key]
            /\ \A x \in Keys : /\ keys'[x].state = keys[x].state
                               /\ keys'[x].state # "unused" => keys'[x].user \in Users
        BY <1>0, <3>1, <3>2 DEF TypeOK, Key
      <3>4. \A r \in Rigs : rigs[r].key \in Keys \cup {NoKey}
        BY <1>0 DEF TypeOK, Rig
      <3> QED BY <1>0, <1>12, <2>1, <3>2, <3>3, <3>4, SaveFacts DEF TypeOK
    <2>2. CASE ~Exists(k)
      BY <1>0, <1>12, <2>2, EndFacts DEF SaveKey, TypeOK
    <2> QED BY <2>1, <2>2
  <1>13. ASSUME NEW w \in Workers, MoveRigs(w) PROVE TypeOK'
    <2>1. request[w].user \in Users
      BY <1>0, <1>13, OwnershipAssumption DEF Shape, MoveRigs
    <2>2. /\ rigs' \in [Rigs -> Rig]
          /\ \A r \in Rigs : rigs'[r].key # NoKey =>
               rigs'[r].owner # NoUser /\ Exists(rigs'[r].key)
      BY <1>0, <1>13, <2>1, OwnershipAssumption DEF MoveRigs, Enrolled, TypeOK, Rig
    <2>3. raced' \subseteq Keys
      BY <1>0, <1>13 DEF MoveRigs, Storing, TypeOK
    <2> QED BY <1>0, <1>13, <2>2, <2>3, MoveFacts DEF MoveRigs, TypeOK
  <1>14. ASSUME NEW w \in Workers, Abandon(w) PROVE TypeOK'
    <2>1. raced' \subseteq Keys
      BY <1>0, <1>14 DEF Abandon, Shape, TypeOK
    <2> QED BY <1>0, <1>14, <2>1, EndFacts DEF Abandon, TypeOK
  <1>15. CASE UNCHANGED vars
    BY <1>0, <1>15 DEF vars, TypeOK
  <1> QED BY <1>1, <1>2, <1>3, <1>4, <1>5, <1>6, <1>7, <1>8, <1>9, <1>10, <1>11,
             <1>12, <1>13, <1>14, <1>15 DEF Next, Ingest, Account, Transfer

-----------------------------------------------------------------------------
\* What a step may do to a key: nothing to its user but for its creation and its
\* transfer, and it does not become unused again.
LEMMA KeysStep ==
    ASSUME IInv, [Next]_vars, NEW k \in Keys
    PROVE  /\ keys[k].state # "unused" => keys'[k].state # "unused"
           /\ k \in raced => k \in raced'
           /\ \/ keys'[k].user = keys[k].user
              \/ keys[k].state = "unused"
              \/ \E w \in Workers : SaveKey(w, k) /\ Exists(k)
           /\ \/ keys'[k].state = "active" => keys[k].state = "active"
              \/ keys[k].state = "unused"
              \/ \E w \in Workers : Reactivate(w) /\ request[w].key = k
  <1>0. TypeOK /\ Shape
    BY DEF IInv
  <1>1. ASSUME NEW u \in Users, NEW x \in Keys, CreateKey(u, x)
        PROVE  /\ keys[k].state # "unused" => keys'[k] = keys[k]
               /\ raced' = raced
    BY <1>0, <1>1 DEF CreateKey, TypeOK
  <1>2. ASSUME NEW w \in Workers, Ingest(w) PROVE keys' = keys /\ raced' = raced
    BY <1>2 DEF Ingest, Authenticate, FindRig, CreateRig, StoreHeartbeat
  <1>3. ASSUME NEW w \in Workers, Revoke(w) \/ Reactivate(w) \/ DeleteKey(w)
        PROVE  /\ keys[k].state # "unused" => keys'[k].state # "unused"
               /\ keys'[k].user = keys[k].user /\ raced \subseteq raced'
               /\ \/ keys'[k].state = "active" => keys[k].state = "active"
                  \/ (Reactivate(w) /\ request[w].key = k)
    <2>1. request[w].key \in Keys
      BY <1>0, <1>3 DEF Shape, Revoke, Reactivate, DeleteKey
    <2> QED BY <1>0, <1>3, <2>1 DEF Revoke, Reactivate, DeleteKey, TypeOK, Key, Exists
  <1>4. ASSUME NEW w \in Workers,
               \/ \E x \in Keys, op \in {"revoke", "reactivate", "delete"} : OpenKey(w, x, op)
               \/ \E r \in Rigs : OpenRig(w, r)
               \/ DropRig(w) \/ MoveRigs(w) \/ Abandon(w)
               \/ \E from, to \in Users, ks \in SUBSET Keys : StartTransfer(w, from, to, ks)
        PROVE  keys' = keys /\ raced \subseteq raced'
    BY <1>4 DEF OpenKey, OpenRig, DropRig, MoveRigs, Abandon, StartTransfer
  <1>5. ASSUME NEW w \in Workers, NEW x \in Keys, SaveKey(w, x)
        PROVE  /\ keys'[k].state = keys[k].state /\ raced \subseteq raced'
               /\ keys'[k].user = keys[k].user \/ (SaveKey(w, k) /\ Exists(k))
    BY <1>0, <1>5 DEF SaveKey, TypeOK, Key, Exists
  <1>6. CASE UNCHANGED vars
    BY <1>6 DEF vars
  <1> QED BY <1>1, <1>2, <1>3, <1>4, <1>5, <1>6 DEF Next, Account, Transfer

\* What worker w has in hand after a step: what it had, with the same key, or
\* nothing, or what it took up in the step.
LEMMA RequestStep ==
    ASSUME IInv, [Next]_vars, NEW w \in Workers
    PROVE  \/ request'[w] = request[w]
           \/ request'[w] = Idle /\ (request[w].pc = "move" => Abandon(w))
           \/ \E k \in Keys, r \in Rigs : Authenticate(w, k, r)
           \/ FindRig(w) \/ CreateRig(w)
           \/ \E k \in Keys, op \in {"revoke", "reactivate", "delete"} : OpenKey(w, k, op)
           \/ \E r \in Rigs : OpenRig(w, r)
           \/ \E from, to \in Users, ks \in SUBSET Keys : StartTransfer(w, from, to, ks)
           \/ \E k \in Keys : SaveKey(w, k) /\ Exists(k)
           \/ MoveRigs(w)
  <1>0. TypeOK
    BY DEF IInv
  <1>1. ASSUME NEW q \in Request, NEW v \in Workers, v # w, Become(v, q)
        PROVE  request'[w] = request[w]
    BY <1>0, <1>1, BecomeFacts DEF TypeOK
  <1>2. ASSUME NEW v \in Workers, v # w, Ingest(v) \/ Account(v) \/ Transfer(v) \/ Abandon(v)
        PROVE  request'[w] = request[w]
    <2>1. CASE \E k \in Keys, r \in Rigs : Authenticate(v, k, r)
      BY <1>0, <1>2, <2>1, AuthenticateFacts
    <2>2. CASE FindRig(v) \/ CreateRig(v)
      BY <1>0, <1>2, <2>2, FindFacts
    <2>3. CASE Become(v, Idle)
      BY <1>0, <1>2, <2>3, EndFacts
    <2>4. CASE \E k \in Keys, op \in {"revoke", "reactivate", "delete"} : OpenKey(v, k, op)
      BY <1>0, <1>2, <2>4, OpenKeyFacts
    <2>5. CASE \E r \in Rigs : OpenRig(v, r)
      BY <1>0, <1>2, <2>5, OpenRigFacts
    <2>6. CASE \E from, to \in Users, ks \in SUBSET Keys : StartTransfer(v, from, to, ks)
      BY <1>0, <1>2, <2>6, StartFacts
    <2>7. CASE \E k \in Keys : SaveKey(v, k) /\ Exists(k)
      BY <1>0, <1>2, <2>7, SaveFacts
    <2>8. CASE MoveRigs(v)
      BY <1>0, <1>2, <2>8, MoveFacts
    <2> QED BY <1>2, <2>1, <2>2, <2>3, <2>4, <2>5, <2>6, <2>7, <2>8
            DEF Ingest, Account, Transfer, StoreHeartbeat, Revoke, Reactivate,
                DeleteKey, DropRig, SaveKey, Abandon
  <1>3. ASSUME Become(w, Idle) PROVE request'[w] = Idle
    BY <1>0, <1>3, EndFacts
  <1>4. CASE Ingest(w) \/ Account(w) \/ Transfer(w) \/ Abandon(w)
    BY <1>3, <1>4 DEF Ingest, Account, Transfer, StoreHeartbeat, Revoke, Reactivate,
                      DeleteKey, DropRig, SaveKey, Abandon
  <1>5. CASE \E u \in Users, k \in Keys : CreateKey(u, k)
    BY <1>5 DEF CreateKey
  <1>6. CASE UNCHANGED vars
    BY <1>6 DEF vars
  <1> QED BY <1>2, <1>4, <1>5, <1>6 DEF Next

\* What a step may do to a rig.
LEMMA RigsStep ==
    ASSUME IInv, [Next]_vars, NEW r \in Rigs
    PROVE  \/ rigs'[r] = rigs[r]
           \/ \E w \in Workers : /\ CreateRig(w) /\ request[w].rig = r /\ ~Present(r)
                                 /\ rigs'[r].owner = request[w].user
                                 /\ rigs'[r].key = request[w].key
           \/ \E w \in Workers : /\ StoreHeartbeat(w) /\ request[w].rig = r
                                 /\ rigs'[r].owner = rigs[r].owner
                                 /\ rigs'[r].key = request[w].key
           \/ rigs'[r].owner = rigs[r].owner /\ rigs'[r].key = NoKey
           \/ \E w \in Workers : /\ DropRig(w) /\ request[w].rig = r
                                 /\ rigs'[r].key = NoKey
           \/ \E w \in Workers : /\ MoveRigs(w) /\ rigs[r].key = request[w].key
                                 /\ rigs'[r].owner = request[w].user
                                 /\ rigs'[r].key = rigs[r].key
  <1>0. TypeOK /\ Shape
    BY DEF IInv
  <1>1. ASSUME NEW w \in Workers, CreateRig(w), rigs'[r] # rigs[r]
        PROVE  /\ request[w].rig = r /\ ~Present(r)
               /\ rigs'[r].owner = request[w].user /\ rigs'[r].key = request[w].key
    <2>1. request[w].rig \in Rigs
      BY <1>0, <1>1 DEF Shape, CreateRig
    <2> QED BY <1>0, <1>1, <2>1 DEF CreateRig, TypeOK
  <1>2. ASSUME NEW w \in Workers, StoreHeartbeat(w), rigs'[r] # rigs[r]
        PROVE  /\ request[w].rig = r /\ rigs'[r].owner = rigs[r].owner
               /\ rigs'[r].key = request[w].key
    BY <1>0, <1>2 DEF StoreHeartbeat, TypeOK, Rig
  <1>3. ASSUME NEW w \in Workers, DeleteKey(w), rigs'[r] # rigs[r]
        PROVE  rigs'[r].owner = rigs[r].owner /\ rigs'[r].key = NoKey
    BY <1>0, <1>3 DEF DeleteKey, Unlinked, TypeOK, Rig
  <1>4. ASSUME NEW w \in Workers, DropRig(w), rigs'[r] # rigs[r]
        PROVE  request[w].rig = r /\ rigs'[r].key = NoKey
    BY <1>0, <1>4 DEF DropRig, NoRow, TypeOK
  <1>5. ASSUME NEW w \in Workers, MoveRigs(w), rigs'[r] # rigs[r]
        PROVE  /\ rigs[r].key = request[w].key /\ rigs'[r].owner = request[w].user
               /\ rigs'[r].key = rigs[r].key
    BY SMTT(30), <1>0, <1>5 DEF MoveRigs, Enrolled, TypeOK, Rig
  <1>6. ASSUME NEW w \in Workers,
               \/ \E k \in Keys, x \in Rigs : Authenticate(w, k, x)
               \/ FindRig(w) \/ Revoke(w) \/ Reactivate(w) \/ Abandon(w)
               \/ \E k \in Keys, op \in {"revoke", "reactivate", "delete"} : OpenKey(w, k, op)
               \/ \E x \in Rigs : OpenRig(w, x)
               \/ \E from, to \in Users, ks \in SUBSET Keys : StartTransfer(w, from, to, ks)
               \/ \E k \in Keys : SaveKey(w, k)
        PROVE  rigs' = rigs
    BY <1>6 DEF Authenticate, FindRig, Revoke, Reactivate, Abandon, OpenKey, OpenRig,
                StartTransfer, SaveKey
  <1>7. CASE UNCHANGED vars \/ \E u \in Users, k \in Keys : CreateKey(u, k)
    BY <1>7 DEF vars, CreateKey
  <1> QED BY <1>1, <1>2, <1>3, <1>4, <1>5, <1>6, <1>7 DEF Next, Ingest, Account, Transfer

-----------------------------------------------------------------------------
\* A request carries what its kind needs.
LEMMA ShapeStep == IInv /\ [Next]_vars => Shape'
  <1> SUFFICES ASSUME IInv, [Next]_vars, NEW w \in Workers
               PROVE  /\ request'[w].pc \in {"find", "create", "store", "adopt", "drop"} =>
                           request'[w].rig \in Rigs
                      /\ request'[w].pc \in {"find", "create", "store", "adopt", "revoke",
                                             "reactivate", "delete", "move"} =>
                           request'[w].key \in Keys
                      /\ request'[w].key # NoKey \/ request'[w].pc = "transfer" =>
                           request'[w].user \in Users
                      /\ \A k \in Keys : request'[w].key = k \/ k \in request'[w].todo =>
                           keys'[k].state # "unused"
    BY DEF Shape
  <1>0. TypeOK /\ Shape
    BY DEF IInv
  <1>k. \A k \in Keys : keys[k].state # "unused" => keys'[k].state # "unused"
    BY KeysStep
  <1>1. CASE request'[w] = request[w]
    BY <1>0, <1>k, <1>1 DEF Shape
  <1>2. CASE request'[w] = Idle
    BY <1>2, IdleFacts
  <1>3. CASE \E k \in Keys, r \in Rigs : Authenticate(w, k, r)
    <2>1. PICK k \in Keys, r \in Rigs : Authenticate(w, k, r)
      BY <1>3
    <2>2. keys[k].state = "active" /\ keys[k].user \in Users
      BY <1>0, <2>1 DEF Authenticate, TypeOK
    <2> QED BY <1>0, <1>k, <2>1, <2>2, AuthenticateFacts
  <1>4. CASE FindRig(w) \/ CreateRig(w)
    <2>1. request[w].rig \in Rigs /\ request[w].key \in Keys
      BY <1>0, <1>4 DEF Shape, FindRig, CreateRig
    <2>2. CASE request'[w] # Idle
      <3>1. /\ request'[w].key = request[w].key /\ request'[w].rig = request[w].rig
            /\ request'[w].user = request[w].user /\ request'[w].todo = request[w].todo
            /\ request'[w].pc \in {"create", "store", "adopt"}
        BY <1>0, <1>4, <2>2, FindFacts
      <3>2. request[w].user \in Users
        BY <1>0, <2>1, OwnershipAssumption DEF Shape
      <3>3. \A k \in Keys : request[w].key = k \/ k \in request[w].todo =>
              keys[k].state # "unused"
        BY <1>0 DEF Shape
      <3> QED BY <1>k, <2>1, <3>1, <3>2, <3>3
    <2> QED BY <1>2, <2>2
  <1>5. CASE \E k \in Keys, op \in {"revoke", "reactivate", "delete"} : OpenKey(w, k, op)
    <2>1. PICK k \in Keys, op \in {"revoke", "reactivate", "delete"} : OpenKey(w, k, op)
      BY <1>5
    <2>2. keys[k].state # "unused" /\ keys[k].user \in Users
      BY <1>0, <2>1 DEF OpenKey, Asks, Exists, TypeOK
    <2> QED BY <1>0, <1>k, <2>1, <2>2, OpenKeyFacts
  <1>6. CASE \E r \in Rigs : OpenRig(w, r)
    BY <1>0, <1>6, OpenRigFacts, OwnershipAssumption
  <1>7. CASE \E from, to \in Users, ks \in SUBSET Keys : StartTransfer(w, from, to, ks)
    <2>1. PICK from \in Users, to \in Users, ks \in SUBSET Keys : StartTransfer(w, from, to, ks)
      BY <1>7
    <2>2. \A k \in ks : keys[k].state # "unused"
      BY <2>1 DEF StartTransfer, Exists
    <2> QED BY <1>0, <1>k, <2>1, <2>2, StartFacts, OwnershipAssumption
  <1>8. CASE \E k \in Keys : SaveKey(w, k) /\ Exists(k)
    <2>1. PICK k \in Keys : SaveKey(w, k) /\ Exists(k)
      BY <1>8
    <2>2. request[w].user \in Users /\ k \in request[w].todo
      BY <1>0, <2>1 DEF Shape, SaveKey
    <2> QED BY <1>0, <1>k, <2>1, <2>2, SaveFacts DEF Shape
  <1>9. CASE MoveRigs(w)
    <2>1. request[w].user \in Users
      BY <1>0, <1>9, OwnershipAssumption DEF Shape, MoveRigs
    <2>2. CASE request'[w] = Idle
      BY <2>2, IdleFacts
    <2>3. CASE request'[w] # Idle
      <3>1. /\ request'[w].pc = "transfer" /\ request'[w].user = request[w].user
            /\ request'[w].key = NoKey /\ request'[w].todo = request[w].todo
        BY <1>0, <1>9, <2>3, MoveFacts
      <3>2. \A k \in request[w].todo : k \in Keys => keys[k].state # "unused"
        BY <1>0 DEF Shape
      <3> QED BY <1>k, <2>1, <3>1, <3>2, OwnershipAssumption
    <2> QED BY <2>2, <2>3
  <1> QED BY <1>1, <1>2, <1>3, <1>4, <1>5, <1>6, <1>7, <1>8, <1>9, RequestStep

\* A key that changes hands while a worker holds it is raced.
LEMMA HeldStep == IInv /\ [Next]_vars => Held'
  <1> SUFFICES ASSUME IInv, [Next]_vars, NEW w \in Workers, NEW k \in Keys,
                      request'[w].key = k, k \notin raced'
               PROVE  keys'[k].user = request'[w].user
    BY DEF Held
  <1>0. TypeOK /\ Shape /\ Held
    BY DEF IInv
  <1>1. k \notin raced
    BY KeysStep
  <1>2. CASE request'[w] = request[w]
    <2>1. keys[k].user = request[w].user /\ keys[k].state # "unused"
      BY <1>0, <1>1, <1>2 DEF Held, Shape
    <2>2. ASSUME NEW v \in Workers, SaveKey(v, k), Exists(k) PROVE v = w
      BY <1>2, <2>2 DEF SaveKey, HeldBeside
    <2>3. ASSUME SaveKey(w, k), Exists(k) PROVE keys'[k].user = request'[w].user
      BY <1>0, <1>2, <2>3 DEF SaveKey, TypeOK, Key
    <2> QED BY <1>2, <2>1, <2>2, <2>3, KeysStep
  <1>3. CASE request'[w] = Idle
    BY <1>3, IdleFacts
  <1>4. CASE \E x \in Keys, r \in Rigs : Authenticate(w, x, r)
    BY ZenonT(60), <1>0, <1>4, AuthenticateFacts DEF Authenticate
  <1>5. CASE FindRig(w) \/ CreateRig(w)
    <2>1. request'[w].key = request[w].key /\ request'[w].user = request[w].user
      BY <1>0, <1>5, FindFacts, IdleFacts
    <2>2. keys' = keys
      BY <1>5 DEF FindRig, CreateRig
    <2> QED BY <1>0, <1>1, <2>1, <2>2 DEF Held
  <1>6. CASE \E x \in Keys, op \in {"revoke", "reactivate", "delete"} : OpenKey(w, x, op)
    BY ZenonT(60), <1>0, <1>6, OpenKeyFacts DEF OpenKey
  <1>7. CASE \/ \E r \in Rigs : OpenRig(w, r)
             \/ \E from, to \in Users, ks \in SUBSET Keys : StartTransfer(w, from, to, ks)
    BY <1>0, <1>7, OpenRigFacts, StartFacts, OwnershipAssumption
  <1>8. CASE \E x \in Keys : SaveKey(w, x) /\ Exists(x)
    <2>1. SaveKey(w, k) /\ Exists(k)
      BY <1>0, <1>8, SaveFacts
    <2>2. keys'[k].user = request[w].user
      BY <1>0, <2>1 DEF SaveKey, TypeOK, Key
    <2> QED BY <1>0, <2>1, <2>2, SaveFacts
  <1>9. CASE MoveRigs(w)
    BY <1>0, <1>9, MoveFacts, IdleFacts, OwnershipAssumption
  <1> QED BY <1>2, <1>3, <1>4, <1>5, <1>6, <1>7, <1>8, <1>9, RequestStep

\* A key that is reactivated while a worker is about to delete it is raced.
LEMMA ClosedStep == IInv /\ [Next]_vars => Closed'
  <1> SUFFICES ASSUME IInv, [Next]_vars, NEW w \in Workers,
                      request'[w].pc = "delete", request'[w].key \notin raced'
               PROVE  keys'[request'[w].key].state # "active"
    BY DEF Closed
  <1>0. TypeOK /\ Shape /\ Closed
    BY DEF IInv
  <1>1. CASE request'[w] = request[w]
    <2> DEFINE k == request[w].key
    <2>1. k \in Keys /\ keys[k].state # "unused"
      BY <1>0, <1>1 DEF Shape
    <2>2. k \notin raced /\ keys[k].state # "active"
      BY <1>0, <1>1, <2>1, KeysStep DEF Closed
    <2>3. ASSUME NEW v \in Workers, Reactivate(v), request[v].key = k PROVE FALSE
      BY <1>1, <2>3 DEF Reactivate, HeldBeside
    <2> HIDE DEF k
    <2>4. keys'[k].state # "active"
      BY <2>1, <2>2, <2>3, KeysStep
    <2> QED BY <1>1, <2>4 DEF k
  <1>2. CASE request'[w] = Idle
    BY <1>2, IdleFacts
  <1>3. CASE \E x \in Keys, r \in Rigs : Authenticate(w, x, r)
    BY <1>0, <1>3, AuthenticateFacts
  <1>4. CASE FindRig(w) \/ CreateRig(w)
    BY <1>0, <1>4, FindFacts, IdleFacts
  <1>5. CASE \E x \in Keys, op \in {"revoke", "reactivate", "delete"} : OpenKey(w, x, op)
    <2>1. PICK x \in Keys, op \in {"revoke", "reactivate", "delete"} : OpenKey(w, x, op)
      BY <1>5
    <2>2. op = "delete" /\ request'[w].key = x
      BY <1>0, <2>1, OpenKeyFacts
    <2>3. keys' = keys /\ keys[x].state = "revoked"
      BY <2>1, <2>2 DEF OpenKey, Asks
    <2> QED BY <2>2, <2>3
  <1>6. CASE \E r \in Rigs : OpenRig(w, r)
    BY <1>0, <1>6, OpenRigFacts
  <1>7. CASE \E from, to \in Users, ks \in SUBSET Keys : StartTransfer(w, from, to, ks)
    BY <1>0, <1>7, StartFacts
  <1>8. CASE \E x \in Keys : SaveKey(w, x) /\ Exists(x)
    BY <1>0, <1>8, SaveFacts
  <1>9. CASE MoveRigs(w)
    BY <1>0, <1>9, MoveFacts, IdleFacts
  <1> QED BY <1>1, <1>2, <1>3, <1>4, <1>5, <1>6, <1>7, <1>8, <1>9, RequestStep

\* A rig that changes hands, or is deleted, under a report races its key.
LEMMA AcceptedStep == IInv /\ [Next]_vars => Accepted'
  <1> SUFFICES ASSUME IInv, [Next]_vars, NEW w \in Workers,
                      request'[w].pc \in {"store", "adopt"}, request'[w].key \notin raced'
               PROVE  rigs'[request'[w].rig].owner = request'[w].user
    BY DEF Accepted
  <1>0. TypeOK /\ Shape /\ Accepted
    BY DEF IInv
  <1>1. CASE request'[w] = request[w]
    <2> DEFINE r == request[w].rig
               k == request[w].key
    <2>1. /\ r \in Rigs /\ k \in Keys /\ request[w].user \in Users
          /\ request[w].pc \in {"store", "adopt"}
      BY <1>0, <1>1, OwnershipAssumption DEF Shape
    <2>2. k \notin raced
      BY <1>1, <2>1, KeysStep
    <2>3. rigs[r].owner = request[w].user /\ Present(r)
      BY <1>0, <2>1, <2>2, OwnershipAssumption DEF Accepted, Present
    <2>4. ASSUME NEW v \in Workers, DropRig(v), request[v].rig = r PROVE FALSE
      <3>1. v # w
        BY <2>1, <2>4 DEF DropRig
      <3>2. k \in Storing(v, {r})
        BY <2>1, <3>1 DEF Storing
      <3> QED BY <1>1, <2>4, <3>2 DEF DropRig
    <2>5. ASSUME NEW v \in Workers, MoveRigs(v), rigs[r].key = request[v].key PROVE FALSE
      <3>1. v # w
        BY <2>1, <2>5 DEF MoveRigs
      <3>2. k \in Storing(v, Enrolled(request[v].key, request[v].user))
        BY <2>1, <2>5, <3>1 DEF Storing, Enrolled
      <3> QED BY <1>1, <2>5, <3>2 DEF MoveRigs
    <2> HIDE DEF r, k
    <2>6. rigs'[r].owner = rigs[r].owner
      BY <2>1, <2>3, <2>4, <2>5, RigsStep
    <2> QED BY <1>1, <2>3, <2>6 DEF r
  <1>2. CASE request'[w] = Idle
    BY <1>2, IdleFacts
  <1>3. CASE \E x \in Keys, r \in Rigs : Authenticate(w, x, r)
    BY <1>0, <1>3, AuthenticateFacts
  <1>4. CASE FindRig(w)
    <2>1. /\ request'[w].rig = request[w].rig /\ request'[w].user = request[w].user
          /\ rigs[request[w].rig].owner = request[w].user
      BY <1>0, <1>4, FindFacts, IdleFacts
    <2> QED BY <1>4, <2>1 DEF FindRig
  <1>5. CASE CreateRig(w)
    <2>1. /\ request'[w].rig = request[w].rig /\ request'[w].user = request[w].user
          /\ request[w].pc = "create"
          /\ rigs' = [rigs EXCEPT ![request[w].rig] =
                        [owner |-> request[w].user, key |-> request[w].key]]
      BY <1>0, <1>5, FindFacts, IdleFacts
    <2>2. request[w].rig \in Rigs
      BY <1>0, <2>1 DEF Shape
    <2> QED BY <1>0, <2>1, <2>2 DEF TypeOK
  <1>6. CASE \E x \in Keys, op \in {"revoke", "reactivate", "delete"} : OpenKey(w, x, op)
    BY <1>0, <1>6, OpenKeyFacts
  <1>7. CASE \/ \E r \in Rigs : OpenRig(w, r)
             \/ \E from, to \in Users, ks \in SUBSET Keys : StartTransfer(w, from, to, ks)
    BY <1>0, <1>7, OpenRigFacts, StartFacts
  <1>8. CASE \E x \in Keys : SaveKey(w, x) /\ Exists(x)
    BY <1>0, <1>8, SaveFacts
  <1>9. CASE MoveRigs(w)
    BY <1>0, <1>9, MoveFacts, IdleFacts
  <1> QED BY <1>1, <1>2, <1>3, <1>4, <1>5, <1>6, <1>7, <1>8, <1>9, RequestStep

\* A transfer gives all rigs of a key to the user it gave the key to, and a
\* report stores its key in a rig of the key's user only.
LEMMA RigsFollowStep == IInv /\ [Next]_vars => RigsFollowTheirKey'
  <1> SUFFICES ASSUME IInv, [Next]_vars, NEW r \in Rigs,
                      rigs'[r].key # NoKey, rigs'[r].key \notin raced', ~Moving(rigs[r].key)'
               PROVE  rigs'[r].owner = keys'[rigs'[r].key].user
    BY DEF RigsFollowTheirKey
  <1>0. TypeOK /\ Shape /\ Held /\ Accepted /\ RigsFollowTheirKey
    BY DEF IInv
  <1>1. CASE rigs'[r] = rigs[r]
    <2> DEFINE k == rigs[r].key
    <2>1. k \in Keys /\ Exists(k) /\ keys[k].state # "unused"
      BY <1>0, <1>1 DEF TypeOK, Rig, Exists
    <2>2. k \notin raced /\ k \notin raced'
      BY <1>1, <2>1, KeysStep
    <2>3. ASSUME NEW w \in Workers, SaveKey(w, k) PROVE FALSE
      <3>1. request'[w].pc = "move" /\ request'[w].key = k
        BY <1>0, <2>1, <2>3, SaveFacts
      <3> QED BY <1>1, <3>1 DEF Moving
    <2> HIDE DEF k
    <2>4. keys'[k].user = keys[k].user
      BY <2>1, <2>3, KeysStep
    <2>5. CASE ~Moving(k)
      BY <1>0, <1>1, <2>1, <2>2, <2>4, <2>5, OwnershipAssumption DEF RigsFollowTheirKey, k
    <2>6. CASE Moving(k)
      <3>1. PICK w \in Workers : request[w].pc = "move" /\ request[w].key = k
        BY <2>6 DEF Moving
      <3>2. request'[w] # request[w]
        BY <1>1, <3>1 DEF Moving, k
      <3>3. ~Abandon(w)
        BY <2>2, <3>1 DEF Abandon
      <3>4. MoveRigs(w)
        BY <3>1, <3>2, <3>3, RequestStep DEF Authenticate, FindRig, CreateRig, OpenKey,
           OpenRig, StartTransfer, SaveKey
      <3>5. rigs'[r].owner = request[w].user
        BY <1>0, <3>1, <3>4 DEF MoveRigs, Enrolled, TypeOK, Rig, k
      <3>6. keys[k].user = request[w].user
        BY <1>0, <2>1, <2>2, <3>1 DEF Held
      <3> QED BY <1>1, <2>4, <3>5, <3>6 DEF k
    <2> QED BY <2>5, <2>6
  <1>2. ASSUME NEW w \in Workers, CreateRig(w),
               rigs'[r].owner = request[w].user, rigs'[r].key = request[w].key
        PROVE  rigs'[r].owner = keys'[rigs'[r].key].user
    <2>1. request[w].key \in Keys
      BY <1>0, <1>2 DEF Shape, CreateRig
    <2>2. keys' = keys /\ raced' = raced
      BY <1>2 DEF CreateRig
    <2> QED BY <1>0, <1>2, <2>1, <2>2 DEF Held
  <1>3. ASSUME NEW w \in Workers, StoreHeartbeat(w), request[w].rig = r,
               rigs'[r].owner = rigs[r].owner, rigs'[r].key = request[w].key
        PROVE  rigs'[r].owner = keys'[rigs'[r].key].user
    <2>1. request[w].key \in Keys
      BY <1>0, <1>3 DEF Shape, StoreHeartbeat
    <2>2. keys' = keys /\ raced' = raced
      BY <1>3 DEF StoreHeartbeat
    <2>3. rigs[r].owner = request[w].user
      BY <1>0, <1>3, <2>2 DEF Accepted, StoreHeartbeat
    <2> QED BY <1>0, <1>3, <2>1, <2>2, <2>3 DEF Held
  <1>4. ASSUME NEW w \in Workers, MoveRigs(w), rigs[r].key = request[w].key,
               rigs'[r].owner = request[w].user, rigs'[r].key = rigs[r].key
        PROVE  rigs'[r].owner = keys'[rigs'[r].key].user
    <2>1. request[w].key \in Keys
      BY <1>0, <1>4 DEF Shape, MoveRigs
    <2>2. keys' = keys /\ raced \subseteq raced'
      BY <1>4 DEF MoveRigs
    <2> QED BY <1>0, <1>4, <2>1, <2>2 DEF Held
  <1> QED BY <1>1, <1>2, <1>3, <1>4, RigsStep

-----------------------------------------------------------------------------
\* The invariant the four properties follow from.
THEOREM Inductive == Spec => []IInv
  <1>1. Init => IInv
    <2> SUFFICES ASSUME Init PROVE IInv
      OBVIOUS
    <2>1. /\ \A w \in Workers : request[w] = Idle
          /\ \A k \in Keys : keys[k].user = NoUser /\ keys[k].state = "unused"
          /\ \A r \in Rigs : rigs[r].key = NoKey
      BY DEF Init, NoRow
    <2>2. TypeOK
      BY <2>1, IdleFacts DEF Init, TypeOK, Key, Rig, NoRow
    <2> QED BY <2>1, <2>2, IdleFacts DEF IInv, Shape, Held, Closed, Accepted, RigsFollowTheirKey
  <1>2. IInv /\ [Next]_vars => IInv'
    BY TypeStep, ShapeStep, HeldStep, ClosedStep, AcceptedStep, RigsFollowStep DEF IInv
  <1> QED BY <1>1, <1>2, PTL DEF Spec

\* TypeOK, for all sets of users, keys, rigs and workers.
THEOREM TypeCorrect == Spec => []TypeOK
  <1>1. IInv => TypeOK
    BY DEF IInv
  <1> QED BY <1>1, Inductive, PTL

\* Ownership follows the key, but for the keys that were raced.
THEOREM OwnershipFollows == Spec => []RigsFollowTheirKey
  <1>1. IInv => RigsFollowTheirKey
    BY DEF IInv
  <1> QED BY <1>1, Inductive, PTL

\* No report is stored in the account of somebody else.
THEOREM ReportsArrive == Spec => []ReportsReachTheirUser
  <1>1. IInv => ReportsReachTheirUser
    BY DEF IInv, Shape, Held, Accepted, ReportsReachTheirUser
  <1> QED BY <1>1, Inductive, PTL

\* No key is changed by anybody but its user, nor deleted while active.
THEOREM KeysGuarded == Spec => []KeysChangedByTheirUser
  <1>1. IInv => KeysChangedByTheirUser
    BY DEF IInv, Shape, Held, Closed, KeysChangedByTheirUser
  <1> QED BY <1>1, Inductive, PTL

===============================================================================

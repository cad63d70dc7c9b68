------------------------------- MODULE Ownership -------------------------------
(***************************************************************************)
(* API keys, the rigs they enrol and the users who own both.  An agent      *)
(* reports with a key; the rig it reports belongs to the user the key        *)
(* belonged to when it was enrolled, follows the key when staff transfer it, *)
(* and refuses the keys of everyone else.                                    *)
(*                                                                          *)
(* Views run outside transactions (there is no ATOMIC_REQUESTS): a request   *)
(* reads, checks, and then writes by statements that each commit on their    *)
(* own, so two Gunicorn workers interleave between any two of them.  An      *)
(* action is one statement with the checks that follow it.  Tags, names and  *)
(* the caches are left out.                                                  *)
(***************************************************************************)
EXTENDS Naturals

CONSTANTS Users, Keys, Rigs, Workers, NoUser, NoKey, NoRig

ASSUME OwnershipAssumption ==
    NoUser \notin Users /\ NoKey \notin Keys /\ NoRig \notin Rigs

VARIABLES
    keys,     \* ApiKey rows
    rigs,     \* Rig rows: owner and enrolled_by_api_key
    request,  \* request[w]: what worker w has in hand
    raced     \* history: keys that somebody else held while they, or the rig
              \* they were used for, changed hands; keys of a cut-off transfer

vars == <<keys, rigs, request, raced>>

\* A key row that was never created, is_active, not active, or gone.
Key == [user : Users \cup {NoUser}, state : {"unused", "active", "revoked", "deleted"}]

\* A rig without an owner is no row.
Rig   == [owner : Users \cup {NoUser}, key : Keys \cup {NoKey}]
NoRow == [owner |-> NoUser, key |-> NoKey]

\* "adopt" is "store" with enrolled_by_key_changed.
Step == {"idle", "find", "create", "store", "adopt", "revoke", "reactivate", "delete",
         "transfer", "move", "drop"}

\* user is who the request acts for, or whom a transfer gives keys to; todo the
\* keys it has still to give.
Request == [pc : Step, user : Users \cup {NoUser}, key : Keys \cup {NoKey},
            rig : Rigs \cup {NoRig}, todo : SUBSET Keys]
Idle == [pc |-> "idle", user |-> NoUser, key |-> NoKey, rig |-> NoRig, todo |-> {}]

Exists(k)  == keys[k].state \in {"active", "revoked"}
Present(r) == rigs[r].owner # NoUser

Init ==
    /\ keys = [k \in Keys |-> [user |-> NoUser, state |-> "unused"]]
    /\ rigs = [r \in Rigs |-> NoRow]
    /\ request = [w \in Workers |-> Idle]
    /\ raced = {}

Become(w, q) == request' = [request EXCEPT ![w] = q]

\* Another worker than w holds key k.
HeldBeside(w, k) ==
    \E v \in Workers \ {w} : request[v].key = k \/ k \in request[v].todo

\* The keys other workers are about to store a report with, for rigs in rs.
Storing(w, rs) ==
    {k \in Keys : \E v \in Workers \ {w} :
       request[v].pc \in {"store", "adopt"} /\ request[v].key = k /\ request[v].rig \in rs}

-----------------------------------------------------------------------------
(***************************************************************************)
(* A report: IngestView.post and process_ingest.                           *)
(***************************************************************************)
Authenticate(w, k, r) ==
    /\ request[w].pc = "idle" /\ keys[k].state = "active"
    /\ Become(w, [Idle EXCEPT !.pc = "find", !.user = keys[k].user, !.key = k, !.rig = r])
    /\ UNCHANGED <<keys, rigs, raced>>

\* Mutation of Claimed: the owner is not compared.
ClaimedByNobody(r, u) == FALSE

\* The rig belongs to another user than u: 409.
Claimed(r, u) == rigs[r].owner # u

FindRig(w) ==
    LET q == request[w] IN
    /\ q.pc = "find"
    /\ \/ /\ ~Present(q.rig)
          /\ Become(w, [q EXCEPT !.pc = "create"])
       \/ /\ Present(q.rig) /\ Claimed(q.rig, q.user)
          /\ Become(w, Idle)
       \/ /\ Present(q.rig) /\ ~Claimed(q.rig, q.user)
          /\ Become(w, [q EXCEPT !.pc = IF rigs[q.rig].key = q.key THEN "store" ELSE "adopt"])
    /\ UNCHANGED <<keys, rigs, raced>>

\* Rig.objects.create fails if the rig was created meanwhile (primary key) or
\* the API key deleted (foreign key).
CreateRig(w) ==
    LET q == request[w] IN
    /\ q.pc = "create"
    /\ \/ /\ ~Present(q.rig) /\ Exists(q.key)
          /\ rigs' = [rigs EXCEPT ![q.rig] = [owner |-> q.user, key |-> q.key]]
          /\ Become(w, [q EXCEPT !.pc = "store"])
       \/ /\ Present(q.rig) \/ ~Exists(q.key)
          /\ Become(w, Idle)
          /\ UNCHANGED rigs
    /\ UNCHANGED <<keys, raced>>

\* rig.save(update_fields) and the commit: it fails if the row is gone, or the
\* key it has to store.
StoreHeartbeat(w) ==
    LET q == request[w] IN
    /\ q.pc \in {"store", "adopt"}
    /\ rigs' = IF q.pc = "adopt" /\ Present(q.rig) /\ Exists(q.key)
               THEN [rigs EXCEPT ![q.rig].key = q.key] ELSE rigs
    /\ Become(w, Idle)
    /\ UNCHANGED <<keys, raced>>

-----------------------------------------------------------------------------
(***************************************************************************)
(* A user's own keys and rigs: the row is read and checked, then written by *)
(* its primary key.                                                         *)
(***************************************************************************)
CreateKey(u, k) ==
    /\ keys[k].state = "unused"
    /\ keys' = [keys EXCEPT ![k] = [user |-> u, state |-> "active"]]
    /\ UNCHANGED <<rigs, request, raced>>

\* Mutation of Asks: a key need not be revoked to be deleted.
AsksAnything(k, op) == op \in {"revoke", "reactivate", "delete"} /\ Exists(k)

\* What can be asked for a key as it is.
Asks(k, op) ==
    \/ op = "revoke" /\ Exists(k)
    \/ op \in {"reactivate", "delete"} /\ keys[k].state = "revoked"

OpenKey(w, k, op) ==
    /\ request[w].pc = "idle" /\ Asks(k, op)
    /\ Become(w, [Idle EXCEPT !.pc = op, !.user = keys[k].user, !.key = k])
    /\ UNCHANGED <<keys, rigs, raced>>

\* key.save(update_fields) fails on a row that is gone.
Revoke(w) ==
    LET k == request[w].key IN
    /\ request[w].pc = "revoke"
    /\ keys' = IF Exists(k) THEN [keys EXCEPT ![k].state = "revoked"] ELSE keys
    /\ Become(w, Idle)
    /\ UNCHANGED <<rigs, raced>>

Reactivate(w) ==
    LET k == request[w].key IN
    /\ request[w].pc = "reactivate"
    /\ keys' = IF Exists(k) THEN [keys EXCEPT ![k].state = "active"] ELSE keys
    /\ raced' = IF HeldBeside(w, k) THEN raced \cup {k} ELSE raced
    /\ Become(w, Idle)
    /\ UNCHANGED rigs

\* Mutation of Unlinked: the rigs keep the reference.
StillLinked(k) == rigs

\* on_delete=SET_NULL.
Unlinked(k) ==
    [r \in Rigs |-> IF rigs[r].key = k THEN [rigs[r] EXCEPT !.key = NoKey] ELSE rigs[r]]

DeleteKey(w) ==
    LET k == request[w].key IN
    /\ request[w].pc = "delete"
    /\ keys' = [keys EXCEPT ![k].state = "deleted"]
    /\ rigs' = Unlinked(k)
    /\ Become(w, Idle)
    /\ UNCHANGED raced

OpenRig(w, r) ==
    /\ request[w].pc = "idle" /\ Present(r)
    /\ Become(w, [Idle EXCEPT !.pc = "drop", !.user = rigs[r].owner, !.rig = r])
    /\ UNCHANGED <<keys, rigs, raced>>

DropRig(w) ==
    LET r == request[w].rig IN
    /\ request[w].pc = "drop"
    /\ rigs' = [rigs EXCEPT ![r] = NoRow]
    /\ raced' = raced \cup Storing(w, {r})
    /\ Become(w, Idle)
    /\ UNCHANGED keys

-----------------------------------------------------------------------------
(***************************************************************************)
(* Staff: admin_transfer_keys gives several keys of one user to another, the *)
(* transfer of the admin site one.                                          *)
(***************************************************************************)
StartTransfer(w, from, to, ks) ==
    /\ request[w].pc = "idle" /\ from # to /\ ks # {}
    /\ \A k \in ks : Exists(k) /\ keys[k].user = from
    /\ Become(w, [Idle EXCEPT !.pc = "transfer", !.user = to, !.todo = ks])
    /\ UNCHANGED <<keys, rigs, raced>>

\* key.save(update_fields) by primary key: whose the key is now is not asked.
SaveKey(w, k) ==
    LET q == request[w] IN
    /\ q.pc = "transfer" /\ k \in q.todo
    /\ \/ /\ Exists(k)
          /\ keys' = [keys EXCEPT ![k].user = q.user]
          /\ raced' = IF HeldBeside(w, k) THEN raced \cup {k} ELSE raced
          /\ Become(w, [q EXCEPT !.pc = "move", !.key = k, !.todo = q.todo \ {k}])
       \/ /\ ~Exists(k)
          /\ Become(w, Idle)
          /\ UNCHANGED <<keys, raced>>
    /\ UNCHANGED rigs

\* Mutation of Enrolled: filtered by key.user too, which is u by then.
EnrolledByUser(k, u) == {r \in Rigs : rigs[r].key = k /\ rigs[r].owner = u}

\* The rigs that are given to u with key k.
Enrolled(k, u) == {r \in Rigs : rigs[r].key = k}

MoveRigs(w) ==
    LET q == request[w]
        moved == Enrolled(q.key, q.user)
    IN
    /\ q.pc = "move"
    /\ rigs' = [r \in Rigs |-> IF r \in moved THEN [rigs[r] EXCEPT !.owner = q.user]
                               ELSE rigs[r]]
    /\ raced' = raced \cup Storing(w, moved)
    /\ Become(w, IF q.todo = {} THEN Idle
                 ELSE [q EXCEPT !.pc = "transfer", !.key = NoKey])
    /\ UNCHANGED keys

\* The worker is killed (gunicorn --timeout) or the request fails, a name
\* collision of a transferred key included.
Abandon(w) ==
    /\ request[w].pc # "idle"
    /\ raced' = IF request[w].pc = "move" THEN raced \cup {request[w].key} ELSE raced
    /\ Become(w, Idle)
    /\ UNCHANGED <<keys, rigs>>

-----------------------------------------------------------------------------
Ingest(w) ==
    \/ \E k \in Keys, r \in Rigs : Authenticate(w, k, r)
    \/ FindRig(w) \/ CreateRig(w) \/ StoreHeartbeat(w)

Account(w) ==
    \/ \E k \in Keys, op \in {"revoke", "reactivate", "delete"} : OpenKey(w, k, op)
    \/ Revoke(w) \/ Reactivate(w) \/ DeleteKey(w)
    \/ \E r \in Rigs : OpenRig(w, r)
    \/ DropRig(w)

Transfer(w) ==
    \/ \E from, to \in Users, ks \in SUBSET Keys : StartTransfer(w, from, to, ks)
    \/ \E k \in Keys : SaveKey(w, k)
    \/ MoveRigs(w)

Next ==
    \/ \E u \in Users, k \in Keys : CreateKey(u, k)
    \/ \E w \in Workers : Ingest(w) \/ Account(w) \/ Transfer(w) \/ Abandon(w)

Spec == Init /\ [][Next]_vars

-----------------------------------------------------------------------------
(***************************************************************************)
(* Properties                                                              *)
(***************************************************************************)

\* Every variable keeps its type; a key in use has a user, and no rig refers
\* to a key that is gone.
TypeOK ==
    /\ keys \in [Keys -> Key]
    /\ \A k \in Keys : keys[k].state # "unused" => keys[k].user \in Users
    /\ rigs \in [Rigs -> Rig]
    /\ \A r \in Rigs : rigs[r].key # NoKey => Present(r) /\ Exists(rigs[r].key)
    /\ request \in [Workers -> Request]
    /\ raced \subseteq Keys

Moving(k) == \E w \in Workers : request[w].pc = "move" /\ request[w].key = k

\* A rig belongs to the user of the key it reports with, but for the keys that
\* were raced: otherwise its reports are refused from then on ("UUID already
\* claimed by another user").
RigsFollowTheirKey ==
    \A r \in Rigs :
      LET k == rigs[r].key IN
      k # NoKey /\ k \notin raced /\ ~Moving(k) => rigs[r].owner = keys[k].user

\* A report that has been accepted is stored for a rig that, at that moment,
\* belongs to the user of its key: telemetry does not end up in the account of
\* somebody else.
ReportsReachTheirUser ==
    \A w \in Workers :
      LET q == request[w] IN
      q.pc \in {"store", "adopt"} /\ q.key \notin raced =>
        rigs[q.rig].owner = q.user /\ keys[q.key].user = q.user

\* A user changes only keys that are his when they change, and deletes only
\* keys that are revoked then (the checks of the views, which the statements do
\* not repeat).
KeysChangedByTheirUser ==
    \A w \in Workers :
      LET q == request[w] IN
      q.pc \in {"revoke", "reactivate", "delete"} /\ q.key \notin raced =>
        /\ keys[q.key].user = q.user
        /\ q.pc = "delete" => keys[q.key].state # "active"

===============================================================================

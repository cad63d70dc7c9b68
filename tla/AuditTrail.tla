------------------------------- MODULE AuditTrail ------------------------------
(***************************************************************************)
(* The requests that change accounts, tags and rigs, and the audit log.  A  *)
(* view attaches an event to its request, each call taking the place of the *)
(* one before, and AuditMiddleware writes the event as a row once the view  *)
(* has answered.  Several workers do this at the same time; a worker may be *)
(* killed at any point, and what it has changed by then stays.              *)
(*                                                                          *)
(* A request is known by its number, so that its row can be compared with   *)
(* what it changed.                                                         *)
(***************************************************************************)
EXTENDS Integers, FiniteSets

CONSTANTS
    Workers,
    Emails,       \* what people register with
    Tags,         \* tags of one user, each with a name of its own
    Keys,         \* API keys that are transferred together
    MaxRequests   \* bound: requests

\* NoEvent is not something that is changed.
ASSUME AuditAssumption ==
    /\ MaxRequests \in Nat
    /\ Keys # {}
    /\ "none" \notin Emails \cup Tags \cup Keys

VARIABLES
    users,   \* the accounts
    tags,    \* the tags that exist
    tagged,  \* the tags on the rig
    req,     \* req[w]: the request of a worker
    count,   \* requests so far
    rows,    \* the audit log
    changed, \* history: changed[n]: what request n changed
    cut      \* history: the requests whose worker was killed

atVars == <<users, tags, tagged, req, count, rows, changed, cut>>

User   == [email : Emails, staff : BOOLEAN]
Target == Emails \cup Tags \cup Keys \cup {"rig", "newrig", "profile"}
NoEvent == "none"

Kinds == {"register", "create", "update", "delete", "toggle", "save", "transfer", "enrol"}
Request == [pc : {"idle", "open", "change", "respond"}, kind : Kinds, n : 0 .. MaxRequests,
            target : Target, seen : BOOLEAN, event : Target \cup {NoEvent}, left : SUBSET Keys]
Idle == [pc |-> "idle", kind |-> "save", n |-> 0, target |-> "rig", seen |-> FALSE,
         event |-> NoEvent, left |-> {}]

Row == [n : 1 .. MaxRequests, target : Target]

AInit ==
    /\ users = {} /\ tags = {} /\ tagged = {}
    /\ req = [w \in Workers |-> Idle]
    /\ count = 0
    /\ rows = {}
    /\ changed = [n \in 1 .. MaxRequests |-> {}]
    /\ cut = {}

-----------------------------------------------------------------------------
Targets(kind) ==
    CASE kind = "register" -> Emails
      [] kind \in {"create", "update", "delete", "toggle"} -> Tags
      [] kind = "transfer" -> Keys
      [] kind = "enrol"    -> {"newrig"}
      [] kind = "save"     -> {"rig", "profile"}

\* Mutant: a request takes the number before its own.
ReceiveBefore(w, kind, t) ==
    /\ req[w].pc = "idle" /\ count < MaxRequests
    /\ t \in Targets(kind)
    /\ count' = count + 1
    /\ req' = [req EXCEPT ![w] = [Idle EXCEPT !.pc = "open", !.kind = kind, !.n = count,
                                              !.target = t,
                                              !.left = IF kind = "transfer" THEN Keys ELSE {}]]
    /\ UNCHANGED <<users, tags, tagged, rows, changed, cut>>

Receive(w, kind, t) ==
    /\ req[w].pc = "idle" /\ count < MaxRequests
    /\ t \in Targets(kind)
    /\ count' = count + 1
    /\ req' = [req EXCEPT ![w] = [Idle EXCEPT !.pc = "open", !.kind = kind, !.n = count + 1,
                                              !.target = t,
                                              !.left = IF kind = "transfer" THEN Keys ELSE {}]]
    /\ UNCHANGED <<users, tags, tagged, rows, changed, cut>>

At(w, pc, kinds) == req[w].pc = pc /\ req[w].kind \in kinds

\* An answer without a change: a form that is refused, 404, or an exception.
GiveUp(w) == req' = [req EXCEPT ![w].pc = "respond"] /\ UNCHANGED changed

Attach(w, t) == req' = [req EXCEPT ![w].pc = "respond", ![w].event = t]

Change(w, t) == changed' = [changed EXCEPT ![req[w].n] = @ \cup {t}]

\* Mutant: the count includes the account that is about to be created.
OpenLate(w) ==
    /\ req[w].pc = "open"
    /\ req' = [req EXCEPT ![w].pc = "change", ![w].seen = Cardinality(users) = 1]
    /\ UNCHANGED <<users, tags, tagged, count, rows, changed, cut>>

\* What a view reads before it writes.
Open(w) ==
    /\ req[w].pc = "open"
    /\ LET t == req[w].target
           refused == CASE req[w].kind = "register" -> \E u \in users : u.email = t
                        [] req[w].kind \in {"update", "delete", "toggle"} -> t \notin tags
                        [] OTHER -> FALSE
           seen == CASE req[w].kind = "register" -> users = {}
                     [] req[w].kind = "toggle"   -> t \in tagged
                     [] OTHER -> FALSE
       IN req' = [req EXCEPT ![w].pc = IF refused THEN "respond" ELSE "change",
                             ![w].seen = seen]
    /\ UNCHANGED <<users, tags, tagged, count, rows, changed, cut>>

\* Mutant: the event is attached before the account is created.
RegisterEarly(w) ==
    /\ At(w, "change", {"register"})
    /\ LET e == req[w].target IN
       /\ Attach(w, e)
       /\ IF \E u \in users : u.email = e
          THEN UNCHANGED <<users, changed>>
          ELSE users' = users \cup {[email |-> e, staff |-> req[w].seen]} /\ Change(w, e)
    /\ UNCHANGED <<tags, tagged, count, rows, cut>>

\* register_view: an e-mail address can be taken once.
Register(w) ==
    /\ At(w, "change", {"register"})
    /\ LET e == req[w].target IN
       IF \E u \in users : u.email = e
       THEN GiveUp(w) /\ UNCHANGED users
       ELSE /\ users' = users \cup {[email |-> e, staff |-> req[w].seen]}
            /\ Attach(w, e) /\ Change(w, e)
    /\ UNCHANGED <<tags, tagged, count, rows, cut>>

\* create_tag
CreateTag(w) ==
    /\ At(w, "change", {"create"})
    /\ LET t == req[w].target IN
       IF t \in tags
       THEN GiveUp(w) /\ UNCHANGED tags
       ELSE tags' = tags \cup {t} /\ Attach(w, t) /\ Change(w, t)
    /\ UNCHANGED <<users, tagged, count, rows, cut>>

\* update_tag: saving the fields of a row that is gone raises.
UpdateTag(w) ==
    /\ At(w, "change", {"update"})
    /\ IF req[w].target \in tags
       THEN Attach(w, req[w].target) /\ Change(w, req[w].target)
       ELSE GiveUp(w)
    /\ UNCHANGED <<users, tags, tagged, count, rows, cut>>

\* delete_tag attaches its event first, and takes the tag off the rig, too.
DeleteTag(w) ==
    /\ At(w, "change", {"delete"})
    /\ LET t == req[w].target IN
       /\ Attach(w, t)
       /\ tags' = tags \ {t} /\ tagged' = tagged \ {t}
       /\ IF t \in tags THEN Change(w, t) ELSE UNCHANGED changed
    /\ UNCHANGED <<users, count, rows, cut>>

\* rig_toggle_tag: does the opposite of what it saw; the database refuses a tag
\* that is gone.
ToggleTag(w) ==
    /\ At(w, "change", {"toggle"})
    /\ LET t == req[w].target IN
       IF req[w].seen
       THEN /\ tagged' = tagged \ {t}
            /\ Attach(w, t)
            /\ IF t \in tagged THEN Change(w, t) ELSE UNCHANGED changed
       ELSE IF t \in tags
            THEN /\ tagged' = tagged \cup {t}
                 /\ Attach(w, t)
                 /\ IF t \notin tagged THEN Change(w, t) ELSE UNCHANGED changed
            ELSE GiveUp(w) /\ UNCHANGED tagged
    /\ UNCHANGED <<users, tags, count, rows, cut>>

\* Mutant: the view forgets the event.
SaveSilently(w) ==
    /\ At(w, "change", {"save"})
    /\ req' = [req EXCEPT ![w].pc = "respond"] /\ Change(w, req[w].target)
    /\ UNCHANGED <<users, tags, tagged, count, rows, cut>>

\* rig_rename and the forms of the profile save one row, then attach.
Save(w) ==
    /\ At(w, "change", {"save"})
    /\ Attach(w, req[w].target) /\ Change(w, req[w].target)
    /\ UNCHANGED <<users, tags, tagged, count, rows, cut>>

\* admin_transfer_keys attaches an event for each of its keys in turn, and takes
\* the tags off their rigs.
TransferKey(w, k) ==
    /\ At(w, "change", {"transfer"}) /\ k \in req[w].left
    /\ req' = [req EXCEPT ![w].left = @ \ {k}, ![w].event = k,
                          ![w].pc = IF req[w].left = {k} THEN "respond" ELSE @]
    /\ tagged' = {}
    /\ Change(w, k)
    /\ UNCHANGED <<users, tags, count, rows, cut>>

\* IngestView.post attaches the event to the wrapper.
Enrol(w) ==
    /\ At(w, "change", {"enrol"})
    /\ req' = [req EXCEPT ![w].pc = "respond"] /\ Change(w, req[w].target)
    /\ UNCHANGED <<users, tags, tagged, count, rows, cut>>

\* AuditMiddleware, after the view
Respond(w) ==
    /\ req[w].pc = "respond"
    /\ rows' = IF req[w].event = NoEvent THEN rows
               ELSE rows \cup {[n |-> req[w].n, target |-> req[w].event]}
    /\ req' = [req EXCEPT ![w] = Idle]
    /\ UNCHANGED <<users, tags, tagged, count, changed, cut>>

Kill(w) ==
    /\ req[w].pc # "idle"
    /\ cut' = cut \cup {req[w].n}
    /\ req' = [req EXCEPT ![w] = Idle]
    /\ UNCHANGED <<users, tags, tagged, count, rows, changed>>

ANext ==
    \E w \in Workers :
        \/ \E kind \in Kinds, t \in Target : Receive(w, kind, t)
        \/ Open(w)
        \/ Register(w) \/ CreateTag(w) \/ UpdateTag(w) \/ DeleteTag(w) \/ ToggleTag(w)
        \/ Save(w) \/ Enrol(w) \/ \E k \in Keys : TransferKey(w, k)
        \/ Respond(w) \/ Kill(w)

ASpec == AInit /\ [][ANext]_atVars

-----------------------------------------------------------------------------
AuditTypeOK ==
    /\ users \subseteq User /\ tags \subseteq Tags /\ tagged \subseteq Tags
    /\ req \in [Workers -> Request]
    /\ count \in 0 .. MaxRequests
    /\ rows \subseteq Row
    /\ changed \in [1 .. MaxRequests -> SUBSET Target]
    /\ cut \subseteq 1 .. MaxRequests

\* As soon as somebody is registered there is an administrator, whoever
\* registers at the same time or is killed doing so (register_view).
FirstUserIsAdmin == users # {} => \E u \in users : u.staff

\* A request that was not killed and changed something has its row once it is
\* answered, except an enrolment; a transfer has one for one of its keys.
ChangesAreLogged ==
    \A n \in 1 .. count :
        \/ n \in cut \/ changed[n] = {} \/ \E w \in Workers : req[w].n = n
        \/ changed[n] = {"newrig"}
        \/ \E row \in rows : row.n = n /\ row.target \in changed[n]

\* A row names what its request changed, or a tag that another request had
\* already deleted, taken off or put on.
RowsAreTrue ==
    \A row \in rows :
        \/ row.target \in changed[row.n]
        \/ /\ row.target \in Tags
           /\ \E n \in 1 .. count : n # row.n /\ row.target \in changed[n]

\* The log and what the requests did agree, whatever is killed, and there is an
\* administrator to read it (AuditMiddleware, log_event and register_view).
AuditHolds == FirstUserIsAdmin /\ ChangesAreLogged /\ RowsAreTrue
================================================================================

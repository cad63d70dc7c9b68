------------------------------- MODULE Readings --------------------------------
(***************************************************************************)
(* What the database promises of the readings of a rig, whatever rows it    *)
(* keeps them in: a reading is there from the report that brought it until  *)
(* it is past the retention or the rig is deleted.  That rows are merged is  *)
(* not to be seen, with one exception: readings the maintenance has in hand  *)
(* while the rig is deleted may come back.                                  *)
(***************************************************************************)
EXTENDS Integers

CONSTANTS
    Table,      \* the tables, a reading in each of them
    RawFor,     \* age up to which a reading is not touched
    Retention,  \* age up to which a reading is kept, give or take a Span
    Span        \* how far apart readings can be that are worked on together

VARIABLES
    now,      \* the clock
    stored,   \* readings in the database, as <<table, time>>
    inHand    \* readings the maintenance is at work on

OfOneTable(some) == \E tb \in Table : \A x \in some : x[1] = tb

Init == now = 0 /\ stored = {} /\ inHand = {}

\* A report brings readings of the present.
Add(tables) ==
    /\ stored' = stored \cup (tables \X {now})
    /\ UNCHANGED <<now, inHand>>

Pass == now' = now + 1 /\ UNCHANGED <<stored, inHand>>

\* Only what is stored is taken in hand, a span of one table at most, and
\* nothing that is to stay as it is.
Take(some) ==
    /\ some \subseteq stored /\ OfOneTable(some)
    /\ \A x, y \in some : x[2] < y[2] + Span
    /\ \A x \in some : x[2] < now - RawFor
    /\ inHand' = some
    /\ UNCHANGED <<now, stored>>

\* They are put back where they still are, unless the rig was deleted.
PutBack ==
    /\ stored' = stored \cup inHand /\ inHand' = {}
    /\ UNCHANGED now

\* A batch that failed is forgotten.
LetGo == inHand' = {} /\ UNCHANGED <<now, stored>>

DeleteAll == stored' = {} /\ UNCHANGED <<now, inHand>>

Expire(old) ==
    /\ OfOneTable(old)
    /\ \A x \in old : x[2] < now - Retention + Span - 1
    /\ stored' = stored \ old
    /\ UNCHANGED <<now, inHand>>

Next ==
    \/ \E tables \in SUBSET Table : Add(tables)
    \/ \E some \in SUBSET stored : Take(some) \/ Expire(some)
    \/ Pass \/ PutBack \/ LetGo \/ DeleteAll

Spec == Init /\ [][Next]_<<now, stored, inHand>>
================================================================================

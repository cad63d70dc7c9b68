------------------------------ MODULE AgentFiles -------------------------------
(***************************************************************************)
(* What the automatic update promises of the two files of an agent, run.py  *)
(* and check_update.py: they change to something the monitoring server has  *)
(* handed out and Python accepts, and to a higher version within the major  *)
(* version, except for the one migration of an updater that still looks for *)
(* its updates on GitHub.                                                   *)
(*                                                                          *)
(* A version is the tuple of its first three numbers.  Python compares the  *)
(* tuples: (1, 1) is older than (1, 1, 0).                                  *)
(***************************************************************************)
EXTENDS Integers, Sequences

CONSTANTS File, Content, MaxMajor

VARIABLES
    files,   \* files[f]: what is installed
    offered  \* offered[f]: all that the server has handed out for f

Older(a, b) ==
    \/ \E i \in 1 .. 3 : /\ i <= Len(a) /\ i <= Len(b)
                         /\ a[i] < b[i]
                         /\ \A j \in 1 .. i - 1 : a[j] = b[j]
    \/ Len(a) < Len(b) /\ \A i \in 1 .. Len(a) : a[i] = b[i]

Init ==
    /\ files \in [File -> Content]
    /\ offered \in [File -> SUBSET Content]

Offer ==
    /\ \A f \in File : offered[f] \subseteq offered'[f]
    /\ UNCHANGED files

Upgrade(f, c) ==
    /\ c \in offered[f]
    /\ c.form # "broken"
    /\ Older(files[f].ver, c.ver) /\ c.ver[1] <= MaxMajor
    /\ files' = [files EXCEPT ![f] = c]
    /\ UNCHANGED offered

Migrate(c) ==
    /\ files["updater"].form = "legacy"
    /\ c \in offered["updater"] /\ c.form # "broken"
    /\ files' = [files EXCEPT !["updater"] = c]
    /\ UNCHANGED offered

Next ==
    \/ Offer
    \/ \E f \in File, c \in Content : Upgrade(f, c)
    \/ \E c \in Content : Migrate(c)

Spec == Init /\ [][Next]_<<files, offered>>
================================================================================

------------------------------- MODULE MCRequests ------------------------------
EXTENDS RateLimits, AuditTrail, AgentRun

MCLimit == [report |-> 1, metrics |-> 2]
MCDelays == [attempt \in 0 .. (Tries - 1) |-> 2^attempt]

\* The limits, the audit log and the run of an agent share no state: a behaviour
\* is one of the three, and their interleavings are left out.  The first two go
\* beside an idle Linux rig.
NoRunYet == ARInit /\ ~onWindows /\ truth = [procs |-> FALSE, running |-> FALSE]

\* A rig on which both a GPU process and the container run adds nothing to the two
\* on which one of them does.
MCInit == Init /\ AInit /\ ARInit /\ ~(truth.procs /\ truth.running)

MCNext ==
    \/ AInit /\ NoRunYet /\ Next /\ UNCHANGED <<atVars, arVars>>
    \/ Init /\ NoRunYet /\ ANext /\ UNCHANGED <<rlVars, arVars>>
    \/ Init /\ AInit /\ ARNext /\ UNCHANGED <<rlVars, atVars>>

MCSpec == MCInit /\ [][MCNext]_<<rlVars, atVars, arVars>>

\* The variables of all three parts keep their types.
TypeOK == LimitsTypeOK /\ AuditTypeOK /\ RunTypeOK
================================================================================

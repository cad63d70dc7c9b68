----------------------------- MODULE MCAgentUpdate -----------------------------
EXTENDS AgentUpdate

\* A release with a version of two parts, one that differs only in the fourth
\* part, one that goes back, and one of another major version.
MCReleases ==
    << [run |-> <<1, 0, 0>>, updater |-> <<1, 0, 0>>],
       [run |-> <<1, 1>>,    updater |-> <<1, 0, 0, 1>>],
       [run |-> <<1, 1, 0>>, updater |-> <<1, 0, 2>>],
       [run |-> <<1, 0, 9>>, updater |-> <<2, 0, 0>>] >>
================================================================================

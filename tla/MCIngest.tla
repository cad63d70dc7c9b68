------------------------------ MODULE MCIngest ------------------------------
(* Instances of Ingest for TLC.  Workers are interchangeable. *)
EXTENDS Ingest, TLC

Carries(e, c) == [errors |-> e, containers |-> c]

\* For the runs about deltas and rows: nothing but readings.
QuietContents == {Carries(<<>>, <<>>)}

\* For the runs about histories: errors that repeat across payloads and within
\* one, containers that stay, come and go.
MixedContents ==
    {Carries(<<"e1">>, <<"c1">>), Carries(<<"e2", "e1">>, <<"c1", "c2">>),
     Carries(<<"e3", "e3">>, <<>>)}

WorkerSymmetry == Permutations(Workers)
=============================================================================

--------------------------------- MODULE Listing -------------------------------
(***************************************************************************)
(* A set as a list in a given order, and the part of a list that a test     *)
(* keeps: sorted() and the filtering comprehensions of the code.            *)
(***************************************************************************)
EXTENDS Integers, Sequences, FiniteSets

\* The members of S in the strict order of the pairs in R: the k-th has k - 1 before it.
Ranked(S, R) ==
    [k \in 1 .. Cardinality(S) |-> CHOOSE x \in S : Cardinality({y \in S : <<y, x>> \in R}) = k - 1]

Sorted(S, Before(_, _)) == Ranked(S, {p \in S \X S : Before(p[1], p[2])})

Ascending(I) == Sorted(I, <)

\* The elements of s at the places I, and those that a test keeps.
At(s, I) == [k \in 1 .. Cardinality(I) |-> s[Ascending(I)[k]]]

Where(s, Ok(_)) == At(s, {i \in DOMAIN s : Ok(s[i])})
================================================================================

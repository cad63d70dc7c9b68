------------------------------ MODULE MCOwnership ------------------------------
(***************************************************************************)
(* Instances of Ownership for TLC.  Users, keys, rigs and workers are       *)
(* interchangeable.                                                         *)
(***************************************************************************)
EXTENDS Ownership, TLC

Symmetry == Permutations(Users) \cup Permutations(Keys)
            \cup Permutations(Rigs) \cup Permutations(Workers)

===============================================================================

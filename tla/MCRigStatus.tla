---------------------------- MODULE MCRigStatus ----------------------------
(***************************************************************************)
(* RigStatus with the constants of a small fleet.  Workers are model       *)
(* values and interchangeable, which the safety runs use.                  *)
(***************************************************************************)
EXTENDS RigStatus, TLC

Symmetry == Permutations(Workers)
=============================================================================

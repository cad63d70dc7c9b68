--------------------------------- MODULE Absent --------------------------------
(***************************************************************************)
(* The value of what could not be read: None in the agents, null in their  *)
(* payloads, NULL in the database.                                         *)
(***************************************************************************)
CONSTANT None
================================================================================

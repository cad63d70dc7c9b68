---------------------------- MODULE MCWorkerCache ----------------------------
(* WorkerCache for TLC; the configurations give the constants their values. *)
EXTENDS WorkerCache
===============================================================================

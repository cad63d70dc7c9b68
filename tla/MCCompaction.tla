----------------------------- MODULE MCCompaction -----------------------------
(* Compaction on small buckets, two and four readings long.                  *)
EXTENDS Compaction
===============================================================================

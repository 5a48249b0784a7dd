----------------------------- MODULE MCBackfill -----------------------------
(* Backfill of a photo by overlapping calls.                                *)
EXTENDS Backfill, TLC
=============================================================================

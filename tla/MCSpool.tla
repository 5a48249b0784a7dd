------------------------------- MODULE MCSpool -------------------------------
(* Spool on small sets of photos, spool ids and retry runs.                 *)
EXTENDS Spool, TLC

\* Photos and runs are interchangeable; ids are not, retry_spool sorts them.
Symmetry == Permutations(Photos) \cup Permutations(Runs)
==============================================================================

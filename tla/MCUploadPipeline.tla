-------------------------- MODULE MCUploadPipeline --------------------------
(* UploadPipeline on a few photos and attempts.                             *)
EXTENDS UploadPipeline, TLC

Symmetry == Permutations(Photos)
=============================================================================

---------------------------- MODULE MCExtraction ----------------------------
(* Extraction on short payloads of words at the edges of 16 bits.           *)
EXTENDS Extraction, TLC

\* The names of files are interchangeable.
Symmetry == Permutations(Stems)
=============================================================================

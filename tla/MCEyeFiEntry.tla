---------------------------- MODULE MCEyeFiEntry ----------------------------
(* EyeFiEntry with a few entries, ports and cards.                          *)
EXTENDS EyeFiEntry, TLC

\* CPython has 5 for up to 2 items and 10 for 3.
SmallRooms == [n \in 0..Cardinality(Entries) |-> n + 3]

Symmetry == Permutations(Entries) \cup Permutations(Ports) \cup Permutations(Keys)
=============================================================================

----------------------------- MODULE MCGeotagLog -----------------------------
(* GeotagLog on every log of a few lines.                                   *)
EXTENDS GeotagLog, TLC

\* 0, a hundredth and half a hundredth of a second, half below a minute, a minute,
\* half below a degree on the other side of 0, a degree, and the antimeridian.
SomePositions == {0, 10, 5, 59995, 60000, -3599995, 3600000, -648000000}

\* Access points are interchangeable.
Symmetry == Permutations(Bssids)
==============================================================================

SPECIFICATION Spec
CONSTANTS
  Photos = {p1, p2}
  Ids = {1, 2}
  Runs = {r1}
  NoPhoto = NoPhoto
  Escapes = TRUE
  MaxOutages = 1
  MaxDiskFull = 0
  MaxCrashes = 0
SYMMETRY Symmetry
INVARIANT UnreachableLosesNothing

SPECIFICATION FairSpec
CONSTANTS
  Photos = {p1, p2, p3}
  Ids = {1, 2, 3}
  Runs = {r1, r2}
  NoPhoto = NoPhoto
  Escapes = FALSE
  MaxOutages = 2
  MaxDiskFull = 0
  MaxCrashes = 0
INVARIANT UnreachableLosesNothing
PROPERTY SpoolFlushed

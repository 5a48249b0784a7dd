SPECIFICATION FairSpec
CONSTANTS
  Photos = {p1, p2}
  Ids = {1, 2}
  Runs = {r1}
  NoPhoto = NoPhoto
  Escapes = FALSE
  MaxOutages = 1
  MaxDiskFull = 1
  MaxCrashes = 0
PROPERTY SpoolFlushed

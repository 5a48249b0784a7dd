SPECIFICATION Spec
CONSTANTS
  Photos = {p1, p2, p3}
  Ids = {1, 2, 3}
  Runs = {r1, r2}
  NoPhoto = NoPhoto
  Escapes = TRUE
  MaxOutages = 2
  MaxDiskFull = 1
  MaxCrashes = 1
SYMMETRY Symmetry
INVARIANT SpoolInv
INVARIANT NoPhotoLost
PROPERTY FlushOnlyDelivered
PROPERTY RunsSkipNone
PROPERTY ImplementsDelivery

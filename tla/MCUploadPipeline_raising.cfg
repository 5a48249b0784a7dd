SPECIFICATION FairSpec
CONSTANTS
  Photos = {p1}
  MaxSends = 1
  SyncRaisers = {"received"}
  MaxDrops = 0
  MaxDiskFull = 0
  MaxEnds = 0
  MaxRetags = 0
PROPERTY AckedIsStored
CHECK_DEADLOCK FALSE

SPECIFICATION FairSpec
CONSTANTS
  Photos = {p1}
  MaxSends = 2
  SyncRaisers = {"stored"}
  MaxDrops = 1
  MaxDiskFull = 1
  MaxEnds = 1
  MaxRetags = 1
INVARIANT PipelineInv
INVARIANT StoredIsTaken
INVARIANT AckedIsAccounted
PROPERTY AckedIsStored
CHECK_DEADLOCK FALSE

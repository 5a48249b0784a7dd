SPECIFICATION FairSpec
CONSTANTS
  Lookups = {l1, l2}
  Backends = {1, 2, 3}
  Limited = {1, 3}
  MaxAPs = 2
  Pause = 1
  MaxTime = 2
  MaxReloads = 1
INVARIANT GeoInv
INVARIANT OverrunBounded
PROPERTY LookupAdvances
PROPERTY LookupEnds
CHECK_DEADLOCK FALSE

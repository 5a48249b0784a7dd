SPECIFICATION Spec
CONSTANTS
  Entries = {e1, e2}
  Ports = {t1, t2}
  Macs = {m1}
  Keys = {k1, k2}
  Calls = {c1}
  None = None
  RoomFor <- SmallRooms
  MaxCards = 2
INVARIANT EntryInv
INVARIANT ServedWasSaved
INVARIANT VisitsEach
SYMMETRY Symmetry

SPECIFICATION Spec
CONSTANTS
  Words = {0, 1, 65535}
  BlockWords = 3
  Stems = {s1, s2}
  MaxWords = 5
  MaxAltered = 2
  MaxMembers = 3
INVARIANT DigestInv
INVARIANT IntactIsAccepted
INVARIANT AcceptedIsIntact
INVARIANT PairedByStem
CHECK_DEADLOCK FALSE
SYMMETRY Symmetry

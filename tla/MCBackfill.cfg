SPECIFICATION FairSpec
CONSTANTS
  Photos = {p1}
  Calls = {c1, c2}
  Refusable = {p1}
  MaxPosts = 2
  MaxCuts = 1
  MaxOff = 1
INVARIANT TaggedIsSent
INVARIANT BackfillInv
PROPERTY CaughtUpByName

SPECIFICATION FairSpec
CONSTANTS
  Entries = {e1, e2}
  ConfigFlows = {c1, c2}
  OptionsFlows = {o1, o2}
  Backends = {b1, b2}
  NeedCreds = {b1}
  NoEntry = NoEntry
  MaxRestarts = 1
INVARIANT FlowsInv
INVARIANT ServedIsSaved
PROPERTY SavedIsBuilt

SPECIFICATION FairSpec
CONSTANTS
  d1 = d1
  d2 = d2
  p1 = p1
  w1 = w1
  w2 = w2
  MaxEntryId = 2
  Packets = {d1, d2}
  Prefixes = {p1}
  Wires = {w1, w2}
  Interests <- SyncInterests
  IsAsync = FALSE
  Loopback = TRUE
  ConnectMayFail = TRUE
  MaxDepth = 2
CHECK_DEADLOCK FALSE
PROPERTIES
  ResultComes
INVARIANTS
  IInv

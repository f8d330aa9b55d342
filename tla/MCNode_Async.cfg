SPECIFICATION Spec
CONSTANTS
  d1 = d1
  d2 = d2
  p1 = p1
  w1 = w1
  w2 = w2
  MaxEntryId = 3
  Packets = {d1}
  Prefixes = {p1}
  Wires = {w1}
  Interests <- AsyncInterests
  IsAsync = TRUE
  Loopback = TRUE
  ConnectMayFail = TRUE
  MaxDepth = 3
CHECK_DEADLOCK FALSE
INVARIANTS
  AtMostOneCallback
  NoInterestLost
  SentInOrder
PROPERTIES
  KeepsPromise

SPECIFICATION FaceSpec
CONSTANTS
  d1 = d1
  p1 = p1
  w1 = w1
  t1 = t1
  t2 = t2
  MaxEntryId = 2
  Packets = {d1}
  Prefixes = {p1}
  Wires = {w1}
  Interests <- PlainOrBig
  IsAsync = TRUE
  Loopback = FALSE
  ConnectMayFail = FALSE
  MaxDepth = 2
  Threads = {t1, t2}
  MaxWaiting = 3
CHECK_DEADLOCK FALSE
INVARIANTS
  RemovedStaysSilent
  NoThreadLosesInterest
PROPERTIES
  FaceKeepsPromise

SPECIFICATION Spec
CONSTANTS
  p1 = p1
  Prefixes = {p1}
  Data <- MixedData
  Interests <- MixedRequests
  Callbacks = {"store", "application"}
  CleanupInterval = 1
  MinLifetimes = {2}
  HasOnContentRemoved = TRUE
  SendFails = FALSE
  MaxAdded = 3
  MaxStored = 1
  MaxArrived = 1
  MaxFilters = 1
  MaxClock = 3
  MaxDepth = 3
CHECK_DEADLOCK FALSE
INVARIANTS
  LivePendingIsKept
  AddAnswersPending
  AnswerIsBest
PROPERTIES
  CleanupIsExact

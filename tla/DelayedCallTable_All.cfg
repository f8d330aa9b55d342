SPECIFICATION FairSpec
CONSTANTS
  MaxCalls = 4
  MaxClock = 3
  Delays = {0, 1, 2}
  MaxDepth = 2
CHECK_DEADLOCK FALSE
INVARIANTS
  EachCallOnce
  CalledInOrder
PROPERTIES
  EveryCallIsMade

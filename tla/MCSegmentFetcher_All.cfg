SPECIFICATION FairSpec
CONSTANTS
  v1 = v1
  v2 = v2
  BadSegment = BadSegment
  NoFinalBlock = NoFinalBlock
  Packets <- AllPackets
CHECK_DEADLOCK FALSE
INVARIANTS
  OneResult
  CompleteIsWhole
  OneVersion
PROPERTIES
  EveryFetchEnds

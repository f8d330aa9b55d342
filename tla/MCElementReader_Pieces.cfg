SPECIFICATION ReaderSpec
CONSTANTS
  Streams <- AllStreams
  MaxPiece = 13
  MaxPacketSize = 12
  Capacity = 11
  ListenerThrows = TRUE
CHECK_DEADLOCK FALSE
INVARIANTS
  ReportedInOrder
  SkipsOnlyTooLong

SPECIFICATION FairSpec
CONSTANTS
  a = a
  b = b
  c = c
  Instances = {a, b}
  PrefixOf <- OwnPrefix
  SessionOf <- Session1
  PreviousOf <- NotGiven
  MaxSequenceNo <- OneOfA
  MaxWaiting = 1
  PublishEarly = FALSE
  Stops = {}
CHECK_DEADLOCK FALSE
PROPERTIES
  Converges

SPECIFICATION Spec
CONSTANTS
  a = a
  b = b
  c = c
  Instances = {a, b, c}
  PrefixOf <- SharedPrefix
  SessionOf <- Session1
  PreviousOf <- GivenToC
  MaxSequenceNo <- OneOfA
  MaxWaiting = 1
  PublishEarly = FALSE
  Stops = {a}
CHECK_DEADLOCK FALSE
INVARIANTS
  SequenceNoIsOwn
  InitializedOnce
  RootIsAsked
  PublishSucceeds

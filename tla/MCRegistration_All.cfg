SPECIFICATION Spec
CONSTANTS
  p1 = p1
  p2 = p2
  MaxEntryId = 6
  Prefixes = {p1, p2}
CHECK_DEADLOCK FALSE
INVARIANTS
  RemovedIsGone
  NoOrphanFilter
  SuccessIsAnswered

SPECIFICATION FairSpec
CONSTANTS
  root = root
  site = site
  user = user
  forged = forged
  data = data
  old = old
  young = young
  toRoot = toRoot
  toSite = toSite
  toUser = toUser
  kRoot = kRoot
  kSite = kSite
  kUser = kUser
  kOther = kOther
  Bypass = Bypass
  Deny = Deny
  MaxValidations = 2
  Packets = {data, old, young}
  Certificates = {root, site, user, forged}
  Loaded = {root}
  Requests = {toRoot, toSite, toUser}
  Policy <- TestPolicy
  Answers <- TestAnswers
  SignedBy <- TestSignedBy
  KeyOf <- TestKeyOf
  NotBefore <- TestNotBefore
  NotAfter <- TestNotAfter
  Commands = {old, young}
  Timestamp <- TestTimestamp
  MaxDepth = 3
  Retries = 1
  VerifiedLifetime = 2
  UnverifiedLifetime = 1
  GracePeriod = 1
  MaxRecords = 1
  RecordLifetime = 3
  StopAndWait = TRUE
  MaxTime = 3
CHECK_DEADLOCK FALSE
INVARIANTS
  AcceptedIsTrusted
  FoundIsFresh
PROPERTIES
  EveryValidationEnds
  CommandsAreFollowed
  CommandsInOrder

SPECIFICATION FairSpec
CONSTANTS
  MaxCks = 2
  NRetries = 2
  Keks = {k1, bad}
  Good = {k1}
  NoKek = none
  Decrypts = {d1, d2, d3}
  d1 = d1
  d2 = d2
  d3 = d3
  CkOf <- TwoKeys
  Malformed = {}
  Corrupt = {d2}
  DecryptTries = 2
CHECK_DEADLOCK FALSE
INVARIANTS
  
  CurrentIsPublished
  EachDecryptOnce
PROPERTIES
  
  EveryDecryptIsTold

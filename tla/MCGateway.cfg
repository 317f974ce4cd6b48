\* Start-up with one key, so that the second one has no breaker; two pools.  One
\* request at a time: what others do to its keys, the administrators do.
CONSTANTS
  Clients = {c1}
  k1 = k1
  KeyIds = {k1, k2}
  NoKeyHeld = none
  StartKeys <- MCStartKeys
  MaxRetries = 2
  MaxKeys = 2
  MaxReloads = 1
SPECIFICATION FairSpec
INVARIANTS
  TypeOK
  IndexNamesKey
PROPERTIES
  OnlyOwnKeySuffers
  PanicsOnlyOnChange
  GoneKeyDrains

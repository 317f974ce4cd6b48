\* The same provider, asked whether every key has a breaker of its own.
CONSTANTS
  Clients = {c1}
  k1 = k1
  KeyIds = {k1, k2}
  NoKeyHeld = none
  StartKeys <- MCStartKeys
  MaxRetries = 2
  MaxKeys = 2
  MaxReloads = 1
SPECIFICATION Spec
INVARIANTS
  EachKeyItsOwnBreaker

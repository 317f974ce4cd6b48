\* One attempt per request: a client that asks again takes the place of a retry.
CONSTANTS
  Clients = {c1, c2}
  NumKeys = 2
  MaxRetries = 1
  CooldownSec = 1
  RetryAfters = {}
  BackoffCap = 2
  MultNum = 2
  MultDen = 1
  Threshold = 2
  ResetTimeout = 1
  Backoff = 0
  AdminKeys = {1}
SYMMETRY ClientSymmetry
SPECIFICATION Spec
INVARIANTS
  TypeOK
  PermanentIsDisabled
  AllKeysInvalidIsTrue

\* One key, which the upstream may rate-limit while the breaker probes.
CONSTANTS
  Clients = {c1, c2}
  NumKeys = 1
  MaxRetries = 2
  CooldownSec = 1
  RetryAfters = {}
  BackoffCap = 2
  MultNum = 2
  MultDen = 1
  Threshold = 2
  ResetTimeout = 1
  Backoff = 0
  AdminKeys = {}
SPECIFICATION Spec
INVARIANTS
  HalfOpenIsProbing

\* Two calls of the admin API at the same time.
CONSTANTS
  KeyIds = {k1, k2}
  MaxKeys = 2
  Listings <- AllListings
  Admins = {a1, a2}
  Sealing = FALSE
SPECIFICATION Spec
CHECK_DEADLOCK FALSE
INVARIANTS
  CallsSave

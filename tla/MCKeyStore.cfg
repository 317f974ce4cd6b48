\* Two calls of the admin API, the server, its crashes and the commands interleave.
CONSTANTS
  KeyIds = {k1, k2}
  MaxKeys = 2
  Listings <- OneKey
  Admins = {a1, a2}
  Sealing = TRUE
SYMMETRY Symmetry
SPECIFICATION Spec
CHECK_DEADLOCK FALSE
INVARIANTS
  TypeOK
  LoneCallSaves
PROPERTIES
  RestartKeepsKeys

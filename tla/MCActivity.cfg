\* A log that overflows at the second entry; two listings at a time, as often
\* as they like.
CONSTANTS
  Requests = {r1, r2}
  Listings = {l1, l2}
  MaxLen = 1
  Window = 1
  MaxTime = 2
SYMMETRY Symmetry
SPECIFICATION Spec
INVARIANTS
  TypeOK
  LogIsRecent
  LoggedIsCounted
  LostOnlyToOverlap
PROPERTY StatsDiffer

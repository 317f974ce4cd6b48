\* Two key strings for up to three keys, so that duplicates occur.
CONSTANTS
  KeyIds = {k1, k2}
  MaxKeys = 3
  Durations <- MCDurations
  CounterPeriod = 6
SPECIFICATION RotationSpec
INVARIANTS
  TypeOK
  RoundRobin
PROPERTIES
  KeepsRing

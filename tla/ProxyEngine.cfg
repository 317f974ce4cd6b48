\* A tick is 10 s: the default threshold of 5 and reset of 30 s; two keys with a
\* base of 10 s, a cap of 70 s and a multiplier of 1.5, so that the backoffs are
\* 1, 1, 2, 3, 5 and then the cap exactly, and 5 with jitter is cut to the cap.
CONSTANTS
  Threshold = 5
  ResetTimeout = 3
  NumKeys = 2
  Base = 1
  BackoffCap = 7
  MultNum = 3
  MultDen = 2
SPECIFICATION EngineSpec
INVARIANTS
  EngineTypeOK
  FieldsAgree
  OneTrialPerTrip
  BackoffConsistent
  StrikesBounded
PROPERTIES
  KeepsCircuit
  PermanentIsFinal

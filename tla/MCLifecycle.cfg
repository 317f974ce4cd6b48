\* A server and its successor, or its rival; one alvus stop at a time.
CONSTANTS
  Servers = {s1, s2}
  Tasks <- MCTasks
  MaxActive = 1
SPECIFICATION FairSpec
CHECK_DEADLOCK FALSE
INVARIANTS
  TypeOK
  StaleFileOnlyByKill
PROPERTIES
  DrainedOrExpired
  InterruptedEnds
  FileLostToLateRemoval

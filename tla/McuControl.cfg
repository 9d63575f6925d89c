SPECIFICATION FairSpec
CONSTANTS
  QueueSize = 1
  MaxRuns = 2
  MaxLate = 1
  MaxLost = 1
  MaxOther = 1
INVARIANTS
  TypeOK
  SuccessMeansQueued
PROPERTY
  CycleReleases
CHECK_DEADLOCK FALSE

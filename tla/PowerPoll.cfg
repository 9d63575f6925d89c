SPECIFICATION FairSpec
CONSTANTS
  Retries = 3
  On = {2}
  MaxGeneration = 4
  MaxLate = 3
  MaxLost = 2
INVARIANTS
  TypeOK
  SnapshotMeansInStep
  YesMeansOn
PROPERTIES
  LossIsRetried
CHECK_DEADLOCK FALSE

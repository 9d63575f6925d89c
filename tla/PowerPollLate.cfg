SPECIFICATION FairSpec
CONSTANTS
  Retries = 3
  On = {2}
  MaxGeneration = 2
  MaxLate = 1
  MaxLost = 0
PROPERTY
  ErrorsAreRetried
CHECK_DEADLOCK FALSE

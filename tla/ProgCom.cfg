SPECIFICATION FairSpec
CONSTANTS
  Sizes = {1, 4}
  MaxCalls = 4
INVARIANTS
  TypeOK
  LagIsAccounted
  InOrder
  QuietCallGetsItsOwnAnswer
  SuccessHasTheRightForm
PROPERTIES
  CallsSpec
  CallsEnd

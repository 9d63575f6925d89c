SPECIFICATION Spec
CONSTANTS
  Sizes = {1, 4}
  MaxCalls = 3
INVARIANT
  WriteReturnedMeansExecuted

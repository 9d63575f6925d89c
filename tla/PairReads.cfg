SPECIFICATION PairFairSpec
CONSTANTS
  Values = {0, 1, 2}
  PairRetries = 2
  MaxChanges = 4
INVARIANTS
  PairTypeOK
  PairWasHeld
  PairIncoherentOnlyIfDisturbed
PROPERTY
  ReadEnds

SPECIFICATION Spec
CONSTANTS
  KeepRail = 1
  Rails = {1, 2, 3}
INVARIANTS
  TypeOK
  ShrunkMeansDropped
  SomeOptionIsAccepted
  RestoreIsAVinCycle
  AppliedMeansTwoPhase

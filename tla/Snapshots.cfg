SPECIFICATION Spec
CONSTANTS
  Supplies = {"F1", "F2"}
  Dumps = {D1, D2}
  Resets = {R}
  DumpPlans <- MCDumpPlans
  ResetPlans <- MCResetPlans
  NChunks = 2
  MaxSwitches = 2
  MaxFaults = 1
INVARIANTS
  TypeOK
  SnapshotIsOwnCapture
  SuccessMeansErased
CHECK_DEADLOCK FALSE
SYMMETRY Symmetry

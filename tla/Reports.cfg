SPECIFICATION Spec
CONSTANTS
  Runs <- MCRuns
  Present <- MCPresent
  User <- MCUser
  Modules <- MCModules
  MapMinors = {0, 1}
  Advertised <- MCAdvertised
  BoardRev = 2
  Eeproms = {1, 2, 3}
  ClockStates <- MCClockStates
  McuStates <- MCMcuStates
  DumpRegs = {0, 1, 2, 5, 7, 8, 9, 10, 11}
  PartNumber = {1, 2}
  MaxRead = 3
  PageSize = 9
  MaxChanges = 1
  MaxFaults = 1
INVARIANTS
  TypeOK
  VerdictIsRight
  OnlyItsOwnTrouble
CHECK_DEADLOCK FALSE

SPECIFICATION Spec
CONSTANTS
  KeepRail = 1
  Rails = {1, 2, 3}
INVARIANT
  NeverTurnedOn

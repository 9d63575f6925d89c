SPECIFICATION FairSpec
CONSTANTS
  NFields = 2
  GenModulus = 4
  Retries = 2
  MaxPasses = 4
  NoSnapshot = NoSnapshot
INVARIANTS
  TypeOK
  IncoherentOnlyIfDisturbed
PROPERTIES
  NoTornSnapshot
  AtomicSpec
  ReadPowerEnds

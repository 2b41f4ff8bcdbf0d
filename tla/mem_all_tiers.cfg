CONSTANTS
  g = g
  m1 = m1
  m2 = m2
  m3 = m3
  r1 = r1
  r2 = r2
  r3 = r3
  r4 = r4
  Gpus <- MCGpus
  Capacity <- TightTiers
  SsdResidue = 1
  Sizes = {1}
  MatrixIds = {m1, m2}
  RawIds = {r1, r2, r3}
  MaxHandles = 1
SPECIFICATION FairSpec
INVARIANTS
  AccountingExact
  SsdCounterCovers
CHECK_DEADLOCK FALSE
PROPERTY
  MigrationEnds

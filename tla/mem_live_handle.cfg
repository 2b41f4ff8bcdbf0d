CONSTANTS
  g = g
  m1 = m1
  m2 = m2
  m3 = m3
  r1 = r1
  r2 = r2
  r3 = r3
  r4 = r4
  Gpus <- MCGpus
  Capacity <- HostAndGpu
  SsdResidue = 0
  Sizes = {1, 5}
  MatrixIds = {m1, m2}
  RawIds = {r1, r2, r3}
  MaxHandles = 2
SPECIFICATION Spec
SYMMETRY MCSymmetry
INVARIANT
  LiveHandleHasEntry
CHECK_DEADLOCK FALSE

CONSTANTS
  Sizes = {1}
  LinearParams = {2}
  Planes = {1}
  MaxLayers = 2
  MaxSplits = 1
  HasGpu = TRUE
  HeavyThreshold = 1
  BatchRows = 2
  MaxEpochs = 1
  Batches = 1
  Optimizers <- MCOneOptimizer
SPECIFICATION Spec
INVARIANT SavedStaysOnGpu
CHECK_DEADLOCK FALSE

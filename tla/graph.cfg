CONSTANTS
  Sizes = {1, 2}
  LinearParams = {1, 2}
  Planes = {1, 2}
  MaxLayers = 2
  MaxSplits = 1
  HasGpu = TRUE
  HeavyThreshold = 1
  BatchRows = 2
  MaxEpochs = 1
  Batches = 2
  Optimizers <- MCOptimizers
SPECIFICATION Spec
INVARIANTS
  LayersKeptInOrder
  RoutedWhenClear
  GradFollowsOutput
  UpdateOwnBatch
  FaultsExplained
CHECK_DEADLOCK FALSE

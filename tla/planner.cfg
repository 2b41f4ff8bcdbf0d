CONSTANTS
  NumWorkers = 2
  ChunksPerWorker = 2
  Threshold = 2
  Totals = {0, 1, 2, 3, 5, 6}
  Predictions <- SomePredictions
  Infinite = Infinite
SPECIFICATION Spec
INVARIANTS
  NoRowTwice
PROPERTIES
  PlanCovers
CHECK_DEADLOCK FALSE

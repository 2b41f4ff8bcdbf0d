CONSTANTS
  d = d
  Dispatcher = d
  Callers = {d}
  Workers <- TwoWorkers
  Tasks <- PassTasks
  BatchSize = 3
  MayPanic = TRUE
SPECIFICATION FairSpec
INVARIANTS
  ExpectsHold
  ForwardComplete
  GradInputComplete
  EveryRowOnce
PROPERTIES
  PassEnds
CHECK_DEADLOCK FALSE

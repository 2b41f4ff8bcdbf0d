CONSTANTS
  c1 = c1
  c2 = c2
  Clients = {c1, c2}
  JobKinds = {"Loss"}
  MaxJobs = 3
  MayPanic = TRUE
  Reuse = TRUE
SPECIFICATION FairSpec
INVARIANTS
  EveryJobHasAPlace
  ClientOrderKept
  DropExecutesAll
PROPERTIES
  ContractKept
  DrainEnds
  DropEnds
CHECK_DEADLOCK FALSE

CONSTANTS
  c1 = c1
  c2 = c2
  Clients = {c1, c2}
  Supported = {"Migrate"}
  JobKinds = {"Migrate", "Loss"}
  MaxJobs = 3
  MayPanic = TRUE
  Reuse = TRUE
SPECIFICATION Spec
INVARIANTS
  PoisonedByReuseOnly
PROPERTIES
  ContractKept
SYMMETRY MCSymmetry
CHECK_DEADLOCK FALSE

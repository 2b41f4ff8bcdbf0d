CONSTANTS
  Batch = 2
  In = 3
  Out = 5
  LocalSize = 4
  Activations = 2
  SeqLen = 2
  Model = 2
  DHead = 1
  MinHeads = 1
  MaxHeads = 2
  HRaw = 1
  StateDim = 2
  Planes = 2
  FirstLen = 0
  Data = {1, 2}
  Ids = {1, 2}
  Remembering = {"Memory"}
  Differing = {"Memory", "BatchRenormInference"}
  Programs <- MCPrograms
  Losses <- MCLosses
  Misfits <- MCMisfits
  Segments <- MCSegments
SPECIFICATION Spec
INVARIANTS
  NothingStale
  OwnDataOnly
  GradsComplete
  DevicesAgree
  TempsReturned
  LayersChecked
CHECK_DEADLOCK FALSE

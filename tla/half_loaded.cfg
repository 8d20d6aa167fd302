SPECIFICATION Spec
CONSTANTS
  Clients <- AllTests
  OwnCounters <- WithCounters
  Counts <- Iterations
  FaultSets <- OtherEnvironments
  MaxSignals = 1
  MaxCalls = 2
  Cells = {c1, c2}
  HeaderCells = {c1}
  Contents = {"own", "zero"}
  HdrOps <- Requests
  Dirs = 2
  Media = {"sd"}
INVARIANTS PassedMeansRestored

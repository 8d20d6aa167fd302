SPECIFICATION FairSpec
CONSTANTS
  Clients <- AllTests
  OwnCounters <- WithCounters
  Counts <- Iterations
  FaultSets <- Environments
  MaxSignals = 1
  MaxCalls = 2
  Cells = {c1, c2}
  HeaderCells = {c1}
  Contents = {"own", "zero"}
  HdrOps <- Requests
  Dirs = 2
  Media = {"sd"}
INVARIANTS TypeOK PassedMeansRestored PassedMeansRemoved FaultFreePasses IterationsRun
PROPERTIES InterruptEnds

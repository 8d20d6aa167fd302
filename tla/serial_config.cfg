SPECIFICATION Spec
CONSTANTS
  Letters <- MCLetters
  CommandLines <- Typed
  FitPhrases <- OfFit
  Null = Null
  MAX_RECURS_DEPTH = 20
  Files <- SmallFiles
  Number <- MCNumber
  Marked <- MCMarked
  Leftovers = {0, 7}
  MAX_TRANSFER = 1024
INVARIANTS NoHoles TestGetsItsOwn ScheduledAsWritten RatesAlike LockShared SweepFits SmallTimeoutsEnough

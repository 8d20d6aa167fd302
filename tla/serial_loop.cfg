SPECIFICATION FairSpec
CONSTANTS
  NTests = 1
  DevR <- Devs
  DevW <- Devs
  NRates = 2
  RatesRun <- SecondOfTwo
  MinFrame = 1
  MaxFrame = 2
  FrameIter = 1
  Iterations = 1
  RxTypes = {0, 1, 2, 3}
  QuickFails = {TRUE, FALSE}
  MonitorLoops = {"waitAndBlock", "waitAndScroll"}
  Faults = {"open", "late", "lose", "rxError", "txError", "txShort", "txStall"}
  MaxSignals = 1
  PromptRendezvous = FALSE
INVARIANTS TypeOK FrameConservation PassedMeansAllFrames
PROPERTIES Terminates

SPECIFICATION FairSpec
CONSTANTS
  NTests = 2
  DevR <- Receivers
  DevW <- Transmitters
  NRates = 1
  RatesRun <- OfOne
  MinFrame = 1
  MaxFrame = 1
  FrameIter = 1
  Iterations = 1
  RxTypes = {2}
  QuickFails = {TRUE}
  MonitorLoops = {"waitAndUnblock"}
  Faults = {"open"}
  MaxSignals = 1
  PromptRendezvous = FALSE
INVARIANTS FrameConservation
PROPERTIES Terminates

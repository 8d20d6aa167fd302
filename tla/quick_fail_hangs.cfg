SPECIFICATION FairSpec
CONSTANTS
  NTests = 2
  DevR <- Receivers
  DevW <- Transmitters
  NRates = 2
  RatesRun <- OfTwo
  MinFrame = 1
  MaxFrame = 1
  FrameIter = 1
  Iterations = 1
  RxTypes = {2}
  QuickFails = {TRUE}
  MonitorLoops = {"waitAndBlock"}
  Faults = {"late"}
  MaxSignals = 0
  PromptRendezvous = TRUE
PROPERTIES Terminates
CHECK_DEADLOCK FALSE

SPECIFICATION FairSpec
CONSTANTS
  NTests = 2
  DevR <- Receivers
  DevW <- Transmitters
  NRates = 2
  RatesRun <- OfTwo
  MinFrame = 1
  MaxFrame = 1
  FrameIter = 1
  Iterations = 2
  RxTypes = {2}
  QuickFails = {TRUE, FALSE}
  MonitorLoops = {"waitAndScroll"}
  Faults = {}
  MaxSignals = 1
  PromptRendezvous = TRUE
INVARIANTS Barrier RateAgreement GrantFindsSleeper NeverBothAsleep FaultFreePasses
PROPERTIES ImplementsSweep

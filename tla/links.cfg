SPECIFICATION FairSpec
CONSTANTS
  Clients = {"ethernet", "serial_echo", "serial_port", "fio_monitor", "powerdown", "rtc", "display"}
  OwnCounters = {"ethernet", "serial_echo", "serial_port", "powerdown", "rtc", "display"}
  Counts <- Iterations
  FaultSets <- Environments
  MaxSignals = 1
  MaxCalls = 2
  Pids = {1, 2, 3}
  Turns = {1, 2}
  Size = 2
  Modules = {1, 3, 5}
  HeaderSize = 1
  ShortSize = 3
  LongSize = 5
  MONITOR_REG = 4
  MaxBacklog = 2
  MaxEvents = 2
  Commands <- AllCommands
  Keys = 2
  MaxFiles = 3
INVARIANTS TypeOK PassedMeansReplied NoChildLeft NetworkRestored PassedMeansReceived FaultFreePasses PassedMeansIdentified MonitorReceived PassedMeansDown AskedTestsRun ScreenQuiet
PROPERTIES CallReturns

\* A device of 1024 bytes, two calls, and two members expanded in them.
SPECIFICATION Spec
CONSTANTS
  Requests <- MCRequests
  Typed <- MCTyped
  PortsTyped <- MCPortsTyped
  ModuleAnswers <- MCModuleAnswers
  EthAnswers <- MCEthAnswers
  PortAnswers <- MCPortAnswers
  Cuts <- MCCuts
  eeSize = 1024
  MaxExpanded = 2
  MaxRuns = 2
INVARIANTS OnePassSuffices SafeSizes
PROPERTIES OnlyNamed
CHECK_DEADLOCK FALSE

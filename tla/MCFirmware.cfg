SPECIFICATION FairSpec
CONSTANTS
  Configs <- MCConfigs
  BusEvents = {"plain", "red", "zero", "bra", "log", "trigger", "stop"}
  Capacity = 1
  DrainMax = 1
  RxMax = 2
  TetherHost = TRUE
  CycleBound = 9
INVARIANTS
  TypeOK
  TraceComplete
  DumpQuiescent
  HeaderExact
  ServedWhileRunning
PROPERTIES
  FaultReported
  StartReturns
  RestartObeyed
  LimitEnds

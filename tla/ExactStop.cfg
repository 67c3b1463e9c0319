SPECIFICATION Spec
CONSTANTS
  Configs <- OnlyTrigger
  BusEvents = {"plain", "trigger"}
  Capacity = 1
  DrainMax = 1
  RxMax = 2
  TetherHost = TRUE
  CycleBound = 9
INVARIANTS
  StopsExactly

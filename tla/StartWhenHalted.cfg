SPECIFICATION FairSpec
CONSTANTS
  Configs <- OnlyTraced
  BusEvents = {"plain"}
  Capacity = 1
  DrainMax = 1
  RxMax = 2
  TetherHost = FALSE
  CycleBound = 9
PROPERTIES
  RestartObeyed
\* Core 0 may come to wait for ever for Core 1, and nothing else is left to do.
CHECK_DEADLOCK FALSE

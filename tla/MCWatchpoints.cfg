SPECIFICATION Spec
CONSTANTS
  a = a
  b = b
  Addr <- MCAddr
  Request <- MCRequest
  Pool = 3
  Counts = 4
  MaxCycles = 5
INVARIANTS
  TypeOK
  ChainWhole
  CountExact
  LimitsHonoured
  OneRecord

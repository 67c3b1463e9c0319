SPECIFICATION FairSpec
CONSTANTS
  Entry = "limit"
  MaxInsn = 6
  MaxCycles = 64
INVARIANTS
  TypeOK
  ServedFromRam
  Captured
PROPERTY CaptureEnds
CHECK_DEADLOCK FALSE

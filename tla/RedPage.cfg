SPECIFICATION Spec
CONSTANTS
  Entry = "redpage"
  MaxInsn = 3
  MaxCycles = 64
INVARIANT ServedFromRam
CHECK_DEADLOCK FALSE

SPECIFICATION FairSpec
CONSTANTS
  a = a
  b = b
  blank = blank
  Item <- MCItem
  Blank <- MCBlank
  Size = 4
INVARIANTS
  TypeOK
  SlotExclusive
PROPERTIES
  Refinement
  FullDrains

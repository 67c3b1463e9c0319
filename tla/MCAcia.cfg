SPECIFICATION FairSpec
CONSTANTS
  a = a
  b = b
  Item <- MCItem
  Blank = a
  Size = 3
  GroupSize = 1
  Enables <- MCEnables
INVARIANTS
  TypeOK
  StatusTrue
  StartsClean
  IrqMirrors
PROPERTIES
  InputQueue
  InputAnnounced

SPECIFICATION Spec
CONSTANTS
  Clients = {c1, c2}
  Sizes = {0, 1, 2, 3}
  Values = {0, 1}
  Base = 3
  Size = 7
  Align = 2
CHECK_DEADLOCK FALSE
INVARIANTS
  TypeOK
  BlocksInBuffer
  BlocksDisjoint
  OverReadInBuffer
PROPERTY ImplementsAllocator

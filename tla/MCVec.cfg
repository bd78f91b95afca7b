CONSTANTS
  Width = 6
  Pow <- MCPow
  ElemSize = 4
  Memory = 31
  Nul = Nul
  Values = {Nul, a}
  Junk = Junk
  MaxItems = 2
SPECIFICATION Spec
INVARIANTS
  TypeOK
  NoWildWrite
  RoundsUp
PROPERTIES
  RoomForNul
  ImplementsContents

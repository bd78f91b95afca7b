SPECIFICATION Spec
CONSTANTS
  Characters <- MCCharacters
  Sources <- MCSources
  MaxPieces = 5
  MaxChars = 4
INVARIANTS
  TypeOK
  WellShaped
  EachNodeOnce
  ScannerAgrees
  TextFlushed
  NoAdjacentText
  TreeSpellsSource
PROPERTY ReadingEnds

SPECIFICATION Spec
CONSTANTS
  U32Bytes = 3
  U64Bytes = 3
  Bad = Bad
  MaxCells = 3
  MaxFrameBytes = 111
  PaletteLen = 1
  MaxPasteBytes = 2
  MaxCopyBytes = 2
  MaxKeyTextBytes = 3
  MaxFailureBytes = 2
  MaxMetadataBytes = 10
  MaxScrollRows = 3
  MaxCoordinate = 4685823
  NegativeZero = 8388608
  Outputs <- Printed
  Blank <- Empty
  Palettes <- TwoPalettes
  ViewRows = 2
  MaxLines = 5
  MaxRevision = 6
INVARIANTS
  WindowIsHonest
  ShownIsCurrent
PROPERTIES
  ScrollShowsPreview
CHECK_DEADLOCK FALSE

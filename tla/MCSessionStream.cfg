SPECIFICATION Spec
CONSTANTS
  U32Bytes = 3
  U64Bytes = 3
  Bad = Bad
  MaxCells = 3
  MaxFrameBytes = 110
  PaletteLen = 1
  MaxPasteBytes = 2
  MaxCopyBytes = 2
  MaxKeyTextBytes = 3
  MaxFailureBytes = 2
  MaxMetadataBytes = 10
  MaxScrollRows = 2
  MaxCoordinate = 4685823
  NegativeZero = 8388608
  Openings <- FromPeer
  ClientMessages <- FromClient
  ServerMessages <- FromOwner
  Updates <- Later
  ReadSizes = {15, 1024}
  MaxSent = 2
INVARIANTS
  FramingExact
  SentIsTaken
  ServedBeforePolling
  ShowsNewest
PROPERTIES
  RefusalIsFinal
CHECK_DEADLOCK FALSE

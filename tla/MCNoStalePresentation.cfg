CONSTANTS
  MaxFrameBytes = 1
  MaxCopyBytes = 1
  MaxPayloadBytes = 3
  HeaderBytes = 1
  TagBytes = 0
  SlackBytes = 1
  NoClient = NoClient
  MaxWrites = 1
  MaxClips = 0
  MaxRequests = 2
  MaxReads = 2
  Requests <- ReleaseRequests
  Modes <- PrimaryOnly
SPECIFICATION Spec
INVARIANTS
  NoStalePresentation
CHECK_DEADLOCK FALSE

CONSTANTS
  MaxFrameBytes = 1
  MaxCopyBytes = 1
  MaxPayloadBytes = 3
  HeaderBytes = 1
  TagBytes = 0
  SlackBytes = 1
  NoClient = NoClient
  MaxWrites = 1
  MaxClips = 0
  MaxRequests = 3
  MaxReads = 1
  Requests <- VerticalRequests
  Modes <- PrimaryOnly
SPECIFICATION Spec
INVARIANTS
  NoFrameAfterFailure
CHECK_DEADLOCK FALSE

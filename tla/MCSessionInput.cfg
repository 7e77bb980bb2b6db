CONSTANTS
  MaxFrameBytes = 1
  MaxCopyBytes = 1
  MaxPayloadBytes = 3
  HeaderBytes = 1
  TagBytes = 0
  SlackBytes = 1
  NoClient = NoClient
  MaxWrites = 2
  MaxClips = 1
  MaxRequests = 2
  MaxReads = 1
  Requests <- InputRequests
  Modes <- PrimaryOnly
SPECIFICATION FairSpec
INVARIANTS
  ClosedPtyTakesNothing
  ClipboardBeforeFrame
PROPERTIES
  HoldEnds
  DeferralEnds
CHECK_DEADLOCK FALSE

CONSTANTS
  MaxFrameBytes = 1
  MaxCopyBytes = 1
  MaxPayloadBytes = 3
  HeaderBytes = 1
  TagBytes = 0
  SlackBytes = 1
  NoClient = NoClient
  MaxWrites = 0
  MaxClips = 0
  MaxRequests = 3
  MaxReads = 1
  Requests <- SelectionRequests
  Modes <- MouseAndPrimary
SPECIFICATION Spec
INVARIANTS
  CompletionConverges
  CopyIsFrozen
  CopyForgotten
CHECK_DEADLOCK FALSE

CONSTANTS
  MaxFrameBytes = 1
  MaxCopyBytes = 1
  MaxPayloadBytes = 1
  HeaderBytes = 1
  TagBytes = 0
  SlackBytes = 0
  MaxPushes = 4
  Sizes <- SmallSizes
SPECIFICATION Spec
INVARIANTS
  OutputAccounted
  OutputCoalesced
  Framed
PROPERTY ImplementsChannel
CHECK_DEADLOCK FALSE

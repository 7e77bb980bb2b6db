CONSTANTS
  MaxFrameBytes = 1
  MaxCopyBytes = 1
  MaxPayloadBytes = 3
  HeaderBytes = 1
  TagBytes = 0
  SlackBytes = 1
  Peers = {p1, p2}
  Titles = {t1, t2}
  NoTitle = NoTitle
  NoConn = NoConn
  MaxRevision = 2
SPECIFICATION FairSpec
INVARIANTS
  WellSpoken
  MetadataOrdered
  MetadataConverges
PROPERTIES
  InitialKept
  NegotiationEnds
CHECK_DEADLOCK FALSE

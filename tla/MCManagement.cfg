CONSTANTS
  Peers = {p1, p2}
  Statuses = {code}
  Nobody = Nobody
  MaxTalk = 2
  ChildGroup = 1
  Jobs = {2}
SPECIFICATION ManagedSpec
INVARIANTS
  WellAnswered
  StoppedIsTrue
  NoLateSignal
  SignalsCurrent
PROPERTIES
  TombstoneIsTrue
  HandshakeEnds
  ShutdownEnds
CHECK_DEADLOCK FALSE

SPECIFICATION Spec
CONSTANTS
  Peers = {p1, p2, p3}
  MaxPlayers = 2
  Names = {alice, bob}
  NoName = NoName
  WinsModulus = 2
  CountdownTicks = 2
  LoadTimeoutTicks = 2
  UnlockDelayTicks = 2
  ReturnTicks = 2
  TickRate = 1
  MaxMatches = 2
SYMMETRY Symmetry
INVARIANTS
  TypeOK
  SeatOwnership
  CountdownIsCurrent
  RoundMembership
  NoRoundResidue
  RoundShape
  LoadedBeforeStart
  ToldTheTruth
  LobbyViewIsCurrent
PROPERTIES
  WinsAreEarned
  ImplementsLifecycle
  ImplementsStreams

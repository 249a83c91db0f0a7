SPECIFICATION FairSpec
CONSTANTS
  Peers = {p1, p2, p3}
  MaxPlayers = 3
  Names = {alice}
  NoName = NoName
  WinsModulus = 2
  CountdownTicks = 2
  LoadTimeoutTicks = 2
  UnlockDelayTicks = 2
  ReturnTicks = 2
  TickRate = 2
  MaxMatches = 1
PROPERTIES
  ImplementsFairLifecycle
  FlowImplementsBattle
  TimedPhasesEnd

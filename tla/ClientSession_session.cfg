SPECIFICATION FairSpec
CONSTANTS
  MaxMatches = 2
  MaxToClient = 4
  MaxToServer = 3
INVARIANTS
  Agreement
  NothingCarriesOver
  SceneMatchesCache
PROPERTIES
  RoundIsJoined
  NobodyStranded

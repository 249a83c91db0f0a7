SPECIFICATION Spec
CONSTANTS
  MaxMatches = 2
  MaxToClient = 4
  MaxToServer = 3
INVARIANT
  MenuHoldsNoSession

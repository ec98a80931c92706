CONSTANTS
  bob = bob
  c1 = c1
  c2 = c2
  none = none
  User <- MCUser
  Call <- MCCall
  None <- none
  MaxSessions = 3
  MaxTokens = 1
  MaxVersion = 3
SPECIFICATION ASpec
VIEW LiveRows
SYMMETRY Symmetry
INVARIANTS
  OneLivePerLogin
  LoggedInSinceChange
  AcceptedWasAcceptable
  ResetsWhatWasProved
PROPERTY
  RefusedForGood

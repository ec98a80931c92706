CONSTANTS
  ann = ann
  p1 = p1
  p2 = p2
  none = none
  User <- MCUser
  Pass <- MCPass
  None <- none
  MaxRights = 2
  MaxRevision = 2
  MaxVersion = 2
SPECIFICATION NSpec
VIEW Relevant
SYMMETRY Symmetry
INVARIANTS
  ReadyIsCurrent
PROPERTY
  ReadyIsApplied
CHECK_DEADLOCK FALSE

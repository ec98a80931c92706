CONSTANTS
  w1 = w1
  w2 = w2
  a1 = a1
  c1 = c1
  none = none
  Worker <- MCWorker
  Alert <- MCAlert
  Channel <- MCChannel
  None <- none
  MaxAttempts = 2
  MaxFaults = 1
CHECK_DEADLOCK FALSE
SPECIFICATION FairOSpec
INVARIANTS
  OTypeOK
  AtMostMaxSends
  RecoveryAfterFiring
  CancelledNeverSent
PROPERTIES
  NoLateFiring
  FiringFenced
  EveryDeliveryEnds

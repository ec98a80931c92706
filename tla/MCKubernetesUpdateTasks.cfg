CONSTANTS
  w1 = w1
  w2 = w2
  p1 = p1
  r1 = r1
  b1 = b1
  null = null
  Worker <- MCWorker
  Payload <- MCPayload
  Result <- MCResult
  Backup <- MCBackup
  Null <- null
  MaxTasks = 2
  Lease = 2
  Ttl = 5
SPECIFICATION Spec
SYMMETRY Symmetry
INVARIANTS
  SlotMatchesStatus
  AttemptsBounded
PROPERTIES
  LeaseFences
  OutcomeFinal
  SlotSpec

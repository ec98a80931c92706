CONSTANTS
  w1 = w1
  w2 = w2
  b1 = b1
  null = null
  old = old
  new = new
  foreign = foreign
  Worker <- MCWorker
  Payload <- MCImages
  Result <- MCImages
  Backup <- MCBackup
  Null <- null
  Old <- old
  New <- new
  Foreign <- foreign
  N = 2
  MaxTasks = 1
  MaxFaults = 1
  Lease = 1
  Ttl = 3
SPECIFICATION WSpec
SYMMETRY Symmetry
INVARIANTS
  SavedImagesArePreUpgrade

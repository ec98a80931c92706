CONSTANTS
  w1 = w1
  q1 = q1
  q2 = q2
  done = done
  null = null
  Worker <- MCWorker
  Payload <- MCPayload
  Result <- MCResult
  Backup <- MCResult
  Null <- null
  Request <- MCTwoRequests
  MaxTasks = 2
  MaxSaves = 1
  Lease = 1
  Ttl = 2
SPECIFICATION RSpec
SYMMETRY Symmetry
PROPERTIES
  InstallRunsAsRehearsed

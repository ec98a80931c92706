CONSTANTS
  c1 = c1
  Conn <- MCConn
  Poll = 3
  Timeout = 2
  MaxUntil = 4
  MaxInbox = 2
SPECIFICATION FairRSpec
INVARIANTS
  LagBounded
  NoMissedRevocation
  NoOrphanLease
PROPERTY
  DoomedStreamsEnd

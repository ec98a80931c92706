CONSTANTS
  s1 = s1
  s2 = s2
  y1 = y1
  y2 = y2
  watches = watches
  none = none
  Start <- MCStart
  Sync <- MCSync
  Watches <- watches
  None <- none
  Kinds = 2
  MaxChanges = 1
  MaxFaults = 1
SPECIFICATION FairESpec
INVARIANTS
  NoStrayStream
  WatchTended
PROPERTIES
  SyncsNeverGoBack
  EventuallySynced

SPECIFICATION Spec
CONSTANTS
  Capacity = 5
  Cost = 2
  MaxClock = 8
  Shown <- PeersShown
  Local <- Myself
  MaxRuns = 3
  Peers = {"ann", "bob"}
  Limit = 1
  MaxHandlers <- HandlersOf
  MaxReads = 2
  MaxSelects = 2
  Devices = {"d1", "d2", "d3"}
  MaxLookups = 2
  MaxSkipped = 1
  MaxSends <- Sends
  AtOnce = 2
  Narrow = 1
  Values = {1, 2}
  b1 = b1
  t1 = t1
  t2 = t2
  t3 = t3
  Browsers = {b1}
  Tasks = {t1, t2, t3}
  BrowserOf <- OfOneBrowser
  MaxDevices = 2
  Threshold = 2
  Target = 2
  MaxEnrolled = 3
  MaxMinted = 5
  MaxSubscriptions = 3
  MaxPosts = 2
  Viewers = {1, 2, 3}
  Cap = 3
  MaxCaptures = 1
  Uploads = {1, 2}
  Size <- AttachmentSize
  MaxBytes = 2
  Writes = {1, 2}
SYMMETRY AlikeTasks
INVARIANTS
  KeyUsedOnce
  ShownOnce
  OnlyOverrunRefuses
  ShowsCurrent
  ScreenSettles
  ThreadsMatch
  RepliesReachSenders
  ReadAsMade
  GrantsBounded
  GivenOnce
  ServedKeysHeld
  NoConflict
  LiveRowKept
  CapKept
  CacheSettles
CHECK_DEADLOCK FALSE

SPECIFICATION FairSpec
CONSTANTS
  w1 = w1
  w2 = w2
  node1 = node1
  node2 = node2
  None = None
  Wrappers <- MCWrappers
  Threads <- MCThreads
  Ownerships <- MCOwnerships
  Ports = {1, 2}
  HighWater = 1
  MaximumDatagrams = 1
INVARIANTS
  StalePortIsTheOneClosed
  HoldersKeepTheirPort
PROPERTY
  NobodyWaitsForEver
CHECK_DEADLOCK FALSE

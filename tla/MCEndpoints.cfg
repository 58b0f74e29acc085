SPECIFICATION FairSpec
CONSTANTS
  publisher = publisher
  replier1 = replier1
  replier2 = replier2
  subscriber = subscriber
  requester1 = requester1
  requester2 = requester2
  name1 = name1
  None = None
  Publishers <- MCPublishers
  Repliers <- MCRepliers
  Subscribers <- MCSubscribers
  Requesters <- MCRequesters
  Names <- MCNames
CHECK_DEADLOCK FALSE
INVARIANTS
  OwnersRegistered
  OnlyFailuresLeaveNames
PROPERTIES
  ReachLostOnlyToALateClose
  RequestsServed

SPECIFICATION FairSpec
CONSTANTS
  client = client
  IDBits = 3
  FingerTableSize = 1
  chordID = 1
  Nodes <- MCNodes
  Knows <- MCKnows
  HeardOf <- MCHeardOf
  Clients <- MCClients
  Addresses <- MCAddresses
  MaximumResends = 1
  MaximumBadReferences = 1
  MaximumLookups = 1
INVARIANTS
  TypeOK
  OneAnswerEach
  AnswersMeetTheirQuestion
  TimeoutPending
PROPERTY LookupsEnd
VIEW MCView
CHECK_DEADLOCK FALSE

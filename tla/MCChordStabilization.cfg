SPECIFICATION FairSpec
CONSTANTS
  IDBits = 3
  Nodes <- MCNodes
  Contacts <- MCContacts
  Mortal <- MCMortal
  MaximumResends = 0
  MaximumInFlight = 1
PROPERTIES
  RingStays
  RingForms
VIEW MCView
CHECK_DEADLOCK FALSE

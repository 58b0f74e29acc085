SPECIFICATION FairManagerSpec
CONSTANTS
  IDBits = 3
  Nodes <- ManagedNodes
  Contacts <- ManagedContacts
  Mortal <- MCMortal
  MaximumResends = 1
  MaximumInFlight = 1
  MaximumCalls = 3
PROPERTY TablesStand
PROPERTY CallsReturn
VIEW ManagedView
CHECK_DEADLOCK FALSE

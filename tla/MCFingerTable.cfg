SPECIFICATION Spec
CONSTANTS
  here = here  there = there
  IDBits = 3
  FingerTableSize = 2
  chordID = 6
  Nodes <- MCNodes
  Contacts <- MCContacts
  SelfContact = here
  NoContact = NoContact
INVARIANTS
  ReferencesCounted
  ContactsHeld
  SuccessorIsClosest
  FingersAreClosest
  SuccessorsInOrder

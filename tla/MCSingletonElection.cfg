SPECIFICATION Spec
CONSTANTS
  s1 = s1  s2 = s2  d1 = d1  d2 = d2  other = other
  Server = Server  None = None
  Starters <- MCStarters
  Daemons <- MCDaemons
  Others <- MCOthers
  Joined <- MCJoined
  MaxPolls = 2
  MaxReuses = 1
INVARIANTS
  LiveServerKeepsItsFile
  NeverJoinsServer
PROPERTIES
  ReturnsServer
  EveryStarterReturns
CHECK_DEADLOCK FALSE

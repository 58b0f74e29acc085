SPECIFICATION ServerSpec
CONSTANTS
  n1 = n1  n2 = n2  p1 = p1  p2 = p2  a = a  b = b  c1 = c1  c2 = c2
  NoPid = NoPid  None = None
  Names <- MCNames
  Paths <- MCPaths
  Keys <- MCKeys
  TooLong = {}
  Pids <- MCPids
  MaxAttributes = 2
  LocalURIs <- MCLocalURIs
  Queries <- MCQueries
  MaxURIID = 2
  DoubleScale = 1
  NaN = NaN
INVARIANTS
  PromisesKept
  FoundUntilAnInsertFails
PROPERTIES
  ImplementsService
  EveryRequestAnswered
CHECK_DEADLOCK FALSE

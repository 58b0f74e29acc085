SPECIFICATION Spec
CONSTANTS
  n1 = n1  n2 = n2  n3 = n3  p1 = p1  p2 = p2  p3 = p3  a = a  b = b  long = long
  pid1 = pid1  NoPid = NoPid
  Names <- MCNames
  Paths <- MCPaths
  Keys <- MCKeys
  TooLong <- MCTooLong
  Pids <- MCPids
  MaxAttributes = 2
  LocalURIs <- MCLocalURIs
  Queries <- MCQueries
  MaxURIID = 3
  DoubleScale = 2
  NaN = NaN
INVARIANTS
  ReferentialIntegrity
  SchemaConstraints
  QuerySound
  QueryComplete
PROPERTIES
  RegistrationsImmutable
  ImplementsRegistry

SPECIFICATION Spec
CONSTANTS
  t1 = t1  t2 = t2
  Callers <- MCCallers
  None = None
  MaxCalls = 2
PROPERTIES
  EveryCallReturns
CHECK_DEADLOCK FALSE

SPECIFICATION Spec
CONSTANTS
  t1 = t1  t2 = t2
  Callers <- MCCallers
  None = None
  MaxCalls = 2
INVARIANTS
  AnswersMatch
  OneRequestUnderWay
PROPERTIES
  CallsReturn
  ProgramEnds
CHECK_DEADLOCK FALSE

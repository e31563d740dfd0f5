SPECIFICATION Spec
CONSTANTS
  q1 = q1  q2 = q2  q3 = q3  NULL = NULL
  a1 = a1  a2 = a2
  Pid = {q1, q2, q3}
  Elem = {q1, q2, q3, NULL}
  N = 2
  File = {a1, a2}
CHECK_DEADLOCK FALSE
INVARIANTS
  AllVisited
  ReleasedUnused
  FailureReported
PROPERTIES
  IsChannel
  IterationEnds

SPECIFICATION Spec
CONSTANTS
  m = m  t1 = t1  t2 = t2
  Thread = {m, t1}
  Main = m
  Retries = 2
  MayTimeout = TRUE
  MaySignal = TRUE
  Gdb = TRUE
  MaxCalls = 1
  MaxDrift = 1
CHECK_DEADLOCK FALSE
INVARIANTS
  NoThreadLeftStopped

SPECIFICATION Spec
CONSTANTS
  m = m  t1 = t1  t2 = t2
  Thread = {m, t1, t2}
  Main = m
  Retries = 2
  MayTimeout = FALSE
  MaySignal = FALSE
  Gdb = FALSE
  MaxCalls = 2
  MaxDrift = 1
INVARIANTS
  AllStopped
  NoUnsafeWork
  FlagCounts
  BusyIsRetried
PROPERTIES
  TriggerEnds

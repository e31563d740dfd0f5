SPECIFICATION Spec
CONSTANTS
  s1 = s1  s2 = s2  v1 = v1
  a1 = a1  a2 = a2  a3 = a3  NULL = NULL
  Site = {s1, s2}
  Version = {v1}
  Addr = {a1, a2, a3}
  Page = 1
  Interruptible = {"prologue", "check", "claim", "ptr", "body"}
  MaxDepth = 3
  MaxExits = 1
SYMMETRY Symmetry
CHECK_DEADLOCK FALSE
INVARIANTS
  CallersSaved
  NeverLost
  TargetKnown

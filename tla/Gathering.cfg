SPECIFICATION Spec
CONSTANTS
  lp = lp  tg = tg  other = other  fake = fake  NULL = NULL
  n1 = n1  n2 = n2  n3 = n3
  b1 = b1  b2 = b2  b3 = b3
  Obj <- MCObj
  Pulp = lp
  Target = tg
  Name <- MCName
  Hash <- MCHash
  Nops <- MCNops
  Beyond <- MCBeyond
  Patched <- MCPatched
  PulpNamed <- MCPulpNamed
  Node <- MCNode
  Base <- MCBase
  MaxChanges = 3
CHECK_DEADLOCK FALSE
INVARIANTS
  ListedAll
  RefusedRightly
  ReportedRightly
PROPERTIES
  GatheringEnds

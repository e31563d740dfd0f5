SPECIFICATION Spec
CONSTANTS
  f1 = f1  f2 = f2  f3 = f3  r1 = r1
  p1 = p1  p2 = p2  p3 = p3  p4 = p4
  L = L  M = M  id1 = id1  id2 = id2  id3 = id3
  Fun = {f1, f2, f3}
  Patch = {p1, p2, p3}
  Lib = {L, M}
  BuildId = {id1, id2}
  LibOf <- MCLibOf
  Units <- MCUnits
  Ref = {r1}
  Refs <- MCRefs
  BuildIdOf <- MCBuildIdOf
  NoPatch = NoPatch
  Torn = Torn
  Deps <- CrossLibDeps
  TargetBuildId <- MCTargetBuildId
  Unpatchable = {}
  Clients = {"ulp"}
  WriteMayFail = FALSE
  QueueMax = 64
  MaxUniverse = 3
PROPERTIES
  CallsReturn

SPECIFICATION Spec
CONSTANTS
  Base = 16
  NumLen = 2
  AddrLen = 2
  IdLen = 2
  BufLen = 44
  Line <- MCLine
  MaxLines = 4
  MaxShort = 1
  TargetSymbols <- MCTargetSymbols
  PatchSymbols <- MCPatchSymbols
  LibName <- MCLibName
  BuildId <- MCBuildId
  Path <- MCPath
  Older <- MCOlder
CHECK_DEADLOCK FALSE
INVARIANTS
  AcceptedIsDescribed
  LibraryReadsTheSame
  StartsClean

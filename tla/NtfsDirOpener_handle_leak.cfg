CONSTANTS
  Dirs = {5, 6}
  Orphans = {7, 8, 9}
  Root = 5
  OrphanDirAddr = 10
  BadAddr = 11
  NameLists <- MCNameLists
  DirShapes <- MCDirShapes
  AddrChunk = 1
  MallocMayFail = FALSE
SPECIFICATION Spec
INVARIANT HandlesReleased

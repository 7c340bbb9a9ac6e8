\* istat of inode 9, whose attribute block 3 holds a 256-byte user value
CONSTANTS
  WordBits = 8
  DaddrBits = 16
  ShiftZeroAt = 4
  Supers <- MCOneSound
  FsTypes = {"EXT3"}
  Avails = {64}
  LoadInums = {1}
  IstatInums = {9}
  Contents <- MCNoOrphans
  EaBlocks <- MCLongValueBlocks
  EaAttrs <- MCNoAttrs
  MallocMayFail = FALSE
  NoTag = NoTag
SPECIFICATION Spec
INVARIANT EaAccessesInBounds
CHECK_DEADLOCK FALSE

\* fsstat of a file system of two full groups, reporting the last one
CONSTANTS
  WordBits = 8
  DaddrBits = 16
  ShiftZeroAt = 4
  Supers <- MCFullGroups
  FsTypes = {"EXT3"}
  Avails = {64}
  LoadInums = {1}
  IstatInums = {9}
  Contents <- MCListContents
  EaBlocks <- MCEaBlocks
  EaAttrs <- MCEaAttrs
  MallocMayFail = FALSE
  NoTag = NoTag
SPECIFICATION Spec
INVARIANT LastGroupSharesOfItsRanges
CHECK_DEADLOCK FALSE

\* istat of inode 9, whose attribute block 3 holds an ACL value that claims
\* 0xffffffff bytes from offset 1020 of a 1 KiB block
CONSTANTS
  WordBits = 8
  DaddrBits = 16
  ShiftZeroAt = 4
  Supers <- MCOneSound
  FsTypes = {"EXT3"}
  Avails = {64}
  LoadInums = {1}
  IstatInums = {9}
  Contents <- MCNoOrphans
  EaBlocks <- MCWrappedBlocks
  EaAttrs <- MCNoAttrs
  MallocMayFail = FALSE
  NoTag = NoTag
SPECIFICATION Spec
INVARIANT EaAccessesInBounds
CHECK_DEADLOCK FALSE

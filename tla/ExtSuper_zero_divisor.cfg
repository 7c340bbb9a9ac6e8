\* Crafted superblocks whose fields ext2fs_open or dinode_load divide by.
CONSTANTS
  WordBits = 8
  DaddrBits = 16
  ShiftZeroAt = 4
  Supers <- MCZeroDivisors
  FsTypes = {"EXT_DETECT"}
  Avails = {64}
  LoadInums = {1, 9}
  IstatInums = {9, 17}
  Contents <- MCContents
  EaBlocks <- MCEaBlocks
  EaAttrs <- MCEaAttrs
  MallocMayFail = FALSE
  NoTag = NoTag
SPECIFICATION Spec
INVARIANT NoDivideByZero
CHECK_DEADLOCK FALSE

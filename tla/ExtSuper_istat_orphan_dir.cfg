\* istat of an inode and of the orphan directory after a load
CONSTANTS
  WordBits = 8
  DaddrBits = 16
  ShiftZeroAt = 4
  Supers <- MCOneSound
  FsTypes = {"EXT3"}
  Avails = {64}
  LoadInums = {9}
  IstatInums = {9, 17}
  Contents <- MCListContents
  EaBlocks <- MCEaBlocks
  EaAttrs <- MCEaAttrs
  MallocMayFail = FALSE
  NoTag = NoTag
SPECIFICATION Spec
INVARIANT IstatShowsAskedInode
CHECK_DEADLOCK FALSE

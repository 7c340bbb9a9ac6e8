\* fsstat whose orphan lookups may fail
CONSTANTS
  WordBits = 8
  DaddrBits = 16
  ShiftZeroAt = 4
  Supers <- MCOneSound
  FsTypes = {"EXT3"}
  Avails = {64}
  LoadInums = {1}
  IstatInums = {9}
  Contents <- MCContents
  EaBlocks <- MCEaBlocks
  EaAttrs <- MCEaAttrs
  MallocMayFail = TRUE
  NoTag = NoTag
SPECIFICATION Spec
INVARIANT FsstatClosesFiles
CHECK_DEADLOCK FALSE
